----------------------- MODULE MessageExchangeProofs -----------------------
(***************************************************************************)
(* What MessageExchange delivers, for any messages and any memory.  As     *)
(* long as no read comes short, a buffer, the part that is read next and   *)
(* the units under way determine each other (Got), and every read keeps    *)
(* this so (ReadGot), on either side.                                      *)
(***************************************************************************)
EXTENDS MessageExchange, SequenceTheorems, TLAPS

Frames == {f \in [head : Nat \X Nat, size : Nat, data : Seq(Nat)] : Len(f.data) = f.size}

Parts == {"head", "size", "data"}
Reading == Parts \cup {"whole"}

\* What is left of a frame that is read into a buffer of any memory.
Got(frame, part, stream, sent) ==
    \/ /\ part = "head" /\ stream = Units(sent)
       /\ \E g \in Garbage : frame = Blank(g)
    \/ /\ part = "size" /\ stream = <<sent.size>> \o sent.data
       /\ \E g \in Garbage : frame = [head |-> sent.head, size |-> g, data |-> <<>>]
    \/ /\ part = "data" /\ stream = sent.data /\ sent.size # 0
       /\ \E g \in Garbage : frame = [head |-> sent.head, size |-> sent.size,
                                      data |-> [i \in 1..sent.size |-> g]]
    \/ part = "whole" /\ frame = sent

----------------------------------------------------------------------------
(* Frames and messages *)

\* A message is converted to a frame whose size is that of its data.
LEMMA AsFrame ==
    ASSUME NEW m \in Messages
    PROVE  AsMessageFrame(m) \in Frames
<1> DEFINE head == AsMessageFrame(m).head
           data == AsMessageFrame(m).data
<1>1. m \in [token : Int, val : {NotEight} \cup Nat, data : {None} \cup Seq(Nat)]
  BY MessagesAreMessages
<1>2. m.token % TokenRange \in Nat
  BY <1>1, TokensAreWords
<1>3. (IF m.val = NotEight THEN 0 ELSE m.val) \in Nat
  BY <1>1
<1>4. head \in Nat \X Nat
  BY <1>2, <1>3 DEF AsMessageFrame
<1>5. /\ data \in Seq(Nat)
      /\ AsMessageFrame(m).size \in Nat
      /\ Len(data) = AsMessageFrame(m).size
  <2>1. CASE m.data = None
    BY <2>1, EmptySeq DEF AsMessageFrame
  <2>2. CASE m.data # None
    <3>1. m.data \in Seq(Nat)
      BY <1>1, <2>2
    <3> QED
      BY <2>2, <3>1, LenProperties DEF AsMessageFrame
  <2> QED
    BY <2>1, <2>2
<1> QED
  BY <1>4, <1>5 DEF Frames, AsMessageFrame

\* A message that can be sent is the one that is converted back.
LEMMA RoundTrip ==
    ASSUME NEW m \in Messages, Sendable(m)
    PROVE  FromMessageFrame(AsMessageFrame(m)) = m
<1>1. m \in [token : Int, val : {NotEight} \cup Nat, data : {None} \cup Seq(Nat)]
  BY MessagesAreMessages
<1>2. m.token % TokenRange = m.token
  BY <1>1, TokensAreWords DEF Sendable
<1>3. /\ AsMessageFrame(m).head[1] = m.token
      /\ AsMessageFrame(m).head[2] = m.val
  BY <1>2 DEF AsMessageFrame, Sendable
<1>4. FromMessageFrame(AsMessageFrame(m)).data = m.data
  <2>1. CASE m.data = None
    BY <2>1 DEF AsMessageFrame, FromMessageFrame
  <2>2. CASE m.data # None
    <3>1. m.data \in Seq(Nat) /\ m.data # <<>>
      BY <1>1, <2>2 DEF Sendable
    <3>2. Len(m.data) # 0
      BY <3>1, EmptySeq
    <3> QED
      BY <2>2, <3>2 DEF AsMessageFrame, FromMessageFrame
  <2> QED
    BY <2>1, <2>2
<1>5. FromMessageFrame(AsMessageFrame(m)) =
        [token |-> m.token, val |-> m.val, data |-> m.data]
  BY <1>3, <1>4 DEF FromMessageFrame
<1> QED
  BY <1>1, <1>5

\* A buffer without data is a frame.
LEMMA BlankFrame == Blank(0) \in Frames
BY EmptySeq DEF Blank, Frames

----------------------------------------------------------------------------
(* Reading *)

\* The first units of a stream and the rest.
LEMMA Split ==
    ASSUME NEW s \in Seq(Nat), NEW t \in Seq(Nat)
    PROVE  /\ s \o t \in Seq(Nat)
           /\ Len(s \o t) = Len(s) + Len(t)
           /\ SubSeq(s \o t, 1, Len(s)) = s
           /\ SubSeq(s \o t, Len(s) + 1, Len(s \o t)) = t
<1> DEFINE u == s \o t
<1>1. /\ u \in Seq(Nat) /\ Len(u) = Len(s) + Len(t)
      /\ \A i \in 1..(Len(s) + Len(t)) : u[i] = IF i <= Len(s) THEN s[i] ELSE t[i - Len(s)]
  BY ConcatProperties
<1>2. Len(s) \in Nat /\ Len(t) \in Nat /\ \A i \in 1..Len(u) : u[i] \in Nat
  BY <1>1, LenProperties, ElementOfSeq
<1> HIDE DEF u
<1>3. SubSeq(u, 1, Len(s)) = s
  <2>1. /\ SubSeq(u, 1, Len(s)) \in Seq(Nat)
        /\ Len(SubSeq(u, 1, Len(s))) = Len(s)
        /\ \A i \in 1..Len(s) : SubSeq(u, 1, Len(s))[i] = u[i]
    BY <1>1, <1>2, SubSeqProperties
  <2> QED
    BY <2>1, <1>1, <1>2, SeqEqual
<1>4. SubSeq(u, Len(s) + 1, Len(u)) = t
  <2>1. /\ SubSeq(u, Len(s) + 1, Len(u)) \in Seq(Nat)
        /\ Len(SubSeq(u, Len(s) + 1, Len(u))) = Len(t)
        /\ \A i \in 1..Len(t) : SubSeq(u, Len(s) + 1, Len(u))[i] = u[Len(s) + i]
    BY <1>1, <1>2, SubSeqProperties
  <2>2. ASSUME NEW i \in 1..Len(t) PROVE u[Len(s) + i] = t[i]
    <3>1. Len(s) + i \in 1..(Len(s) + Len(t)) /\ ~(Len(s) + i <= Len(s))
      BY <1>2
    <3>2. u[Len(s) + i] = t[(Len(s) + i) - Len(s)]
      BY <3>1, <1>1
    <3> QED
      BY <3>2, <1>2
  <2> QED
    BY <2>1, <2>2, SeqEqual
<1> QED
  BY <1>1, <1>3, <1>4 DEF u

\* The cases of the definitions, one by one.
LEMMA AsksOf ==
    ASSUME NEW frame
    PROVE  /\ Asks(frame, "head") = 2 /\ Asks(frame, "size") = 1
           /\ Asks(frame, "data") = frame.size
BY Zenon DEF Asks

\* Each read fills the part of the frame it is for, and no other.
LEMMA FilledOf ==
    ASSUME NEW frame, NEW units
    PROVE  /\ Filled(frame, "head", units) = [frame EXCEPT !.head = Overwritten(@, units)]
           /\ Filled(frame, "size", units) = [frame EXCEPT !.size = Overwritten(<<@>>, units)[1]]
           /\ Filled(frame, "data", units) = [frame EXCEPT !.data = Overwritten(@, units)]
BY Zenon DEF Filled

\* A read that does not come short takes what it asks for.
InFull(frame, part, units, r) ==
    Asks(frame, part) = Len(units) /\ Len(units) # 0 /\ ~r.short
Taken(frame, part, units, rest, r) ==
    r.frame = Filled(frame, part, units) /\ r.rest = rest

\* A read in full takes what was sent for its part and leaves the rest.
LEMMA ReadAll ==
    ASSUME NEW frame, NEW part, NEW s \in Seq(Nat), NEW t \in Seq(Nat),
           NEW r \in Reads(frame, part, s \o t), InFull(frame, part, s, r)
    PROVE  Taken(frame, part, s, t, r)
<1> DEFINE u == s \o t
<1>1. /\ Len(s) \in Nat /\ Len(t) \in Nat /\ Len(u) = Len(s) + Len(t)
      /\ SubSeq(u, 1, Len(s)) = s /\ SubSeq(u, Len(s) + 1, Len(u)) = t
  BY Split, LenProperties
<1> HIDE DEF u
<1>2. u # <<>>
  BY <1>1, EmptySeq DEF InFull
<1>3. PICK n \in (IF u = <<>> THEN {0} ELSE 1..Least(Asks(frame, part), Len(u))) :
        r = [frame |-> Filled(frame, part, SubSeq(u, 1, n)),
             rest |-> SubSeq(u, n + 1, Len(u)), short |-> n < Asks(frame, part)]
  BY Zenon DEF Reads, u
<1>4. n = Len(s)
  <2>1. n \in 1..Least(Len(s), Len(u)) /\ ~(n < Len(s))
    BY <1>2, <1>3 DEF InFull
  <2> QED
    BY <2>1, <1>1 DEF Least, InFull
<1> QED
  BY <1>1, <1>3, <1>4 DEF Taken

\* A buffer that is filled holds nothing of what it held before.
LEMMA OverwrittenAll ==
    ASSUME NEW s \in Seq(Nat), NEW b \in Seq(Nat), Len(b) = Len(s)
    PROVE  Overwritten(b, s) = s
<1>1. SubSeq(b, Len(s) + 1, Len(b)) = <<>>
  BY LenProperties, SubSeqEmpty
<1> QED
  BY <1>1, ConcatEmptySeq DEF Overwritten

\* Every read of a part, unless it comes short, leads to the next part.
LEMMA ReadGot ==
    ASSUME NEW sent \in Frames, NEW frame, NEW part \in Parts, NEW stream,
           Got(frame, part, stream, sent), NEW g \in Garbage,
           NEW r \in Reads(frame, part, stream), ~r.short
    PROVE  Got(Allocated(r.frame, part, g), After(r.frame, part), r.rest, sent)
<1>1. PICK hd \in Seq(Nat), sz \in Nat, dt \in Seq(Nat), one \in Seq(Nat) :
        /\ sent = [head |-> hd, size |-> sz, data |-> dt] /\ Len(dt) = sz
        /\ Len(hd) = 2 /\ one = <<sz>>
  <2>1. PICK a \in Nat, b \in Nat : sent.head = <<a, b>>
    BY DEF Frames
  <2>2. /\ <<a, b>> \in Seq(Nat) /\ Len(<<a, b>>) = 2
        /\ sent.size \in Nat /\ sent.data \in Seq(Nat) /\ Len(sent.data) = sent.size
        /\ <<sent.size>> \in Seq(Nat)
        /\ sent = [head |-> sent.head, size |-> sent.size, data |-> sent.data]
    BY DEF Frames
  <2> QED
    BY <2>1, <2>2
<1>2. /\ sent.head = hd /\ sent.size = sz /\ sent.data = dt
      /\ Len(one) = 1 /\ one[1] = sz
  BY <1>1
<1>3. CASE part = "head"
  <2>1. PICK h \in Garbage : frame = Blank(h)
    BY <1>3 DEF Got
  <2>2. /\ stream = hd \o (one \o dt)
        /\ one \o dt \in Seq(Nat)
    <3>1. stream = (hd \o one) \o dt
      <4>1. stream = sent.head \o <<sent.size>> \o sent.data
        BY <1>3, Zenon DEF Got, Units
      <4> QED
        BY <4>1, <1>1, Zenon
    <3> QED
      <4>1. (hd \o one) \o dt = hd \o (one \o dt)
        BY <1>1, ConcatAssociative
      <4>2. one \o dt \in Seq(Nat)
        BY ConcatProperties
      <4> QED
        BY <3>1, <4>1, <4>2
  <2>3. /\ r.frame = Filled(frame, "head", hd)
        /\ r.rest = one \o dt
    <3>1. /\ Asks(frame, part) = Len(hd) /\ Len(hd) # 0
          /\ r \in Reads(frame, part, hd \o (one \o dt))
      BY <1>1, <1>3, <2>2, AsksOf
    <3> QED
      <4>1. InFull(frame, part, hd, r)
        BY <3>1 DEF InFull
      <4>2. Taken(frame, part, hd, (one \o dt), r)
        BY <2>2, <3>1, <4>1, ReadAll
      <4> QED
        BY <4>2, <1>3 DEF Taken
  <2>4. Overwritten(<<h, h>>, hd) = hd
    <3>1. <<h, h>> \in Seq(Nat) /\ Len(<<h, h>>) = 2
      BY GarbageIsUnits
    <3> QED
      BY <1>1, <3>1, OverwrittenAll
  <2>5. r.frame = [head |-> hd, size |-> h, data |-> <<>>]
    <3>1. r.frame = [frame EXCEPT !.head = Overwritten(frame.head, hd)]
      BY <2>3, FilledOf
    <3> QED
      BY <2>1, <2>4, <3>1 DEF Blank
  <2>6. After(r.frame, part) = "size" /\ Allocated(r.frame, part, g) = r.frame
    BY <1>3 DEF After, Allocated, NextPart
  <2> QED
    BY <1>1, <2>3, <2>5, <2>6 DEF Got
<1>4. CASE part = "size"
  <2>1. PICK h \in Garbage : frame = [head |-> hd, size |-> h, data |-> <<>>]
    BY <1>2, <1>4 DEF Got
  <2>2. stream = one \o dt
    BY <1>1, <1>4 DEF Got
  <2>3. /\ r.frame = Filled(frame, "size", one)
        /\ r.rest = dt
    <3>1. /\ Asks(frame, part) = Len(one) /\ Len(one) # 0
          /\ r \in Reads(frame, part, one \o dt)
      BY <1>2, <1>4, <2>2, AsksOf
    <3> QED
      <4>1. InFull(frame, part, one, r)
        BY <3>1 DEF InFull
      <4>2. Taken(frame, part, one, dt, r)
        BY <2>2, <3>1, <4>1, ReadAll
      <4> QED
        BY <4>2, <1>4 DEF Taken
  <2>4. Overwritten(<<h>>, one) = one
    <3>1. <<h>> \in Seq(Nat) /\ Len(<<h>>) = 1
      BY GarbageIsUnits
    <3> QED
      BY <3>1, <1>2, OverwrittenAll
  <2>5. r.frame = [head |-> hd, size |-> sz, data |-> <<>>]
    <3>1. r.frame = [frame EXCEPT !.size = Overwritten(<<frame.size>>, one)[1]]
      BY <2>3, FilledOf
    <3> QED
      BY <1>2, <2>1, <2>4, <3>1
  <2>6. Allocated(r.frame, part, g) =
          [head |-> hd, size |-> sz, data |-> [i \in 1..sz |-> g]]
    <3> DEFINE b == [i \in 1..sz |-> g]
    <3>1. Allocated(r.frame, part, g) = [r.frame EXCEPT !.data = b]
      <4>1. r.frame.size = sz
        BY <2>5
      <4>2. Allocated(r.frame, "size", g) = [r.frame EXCEPT !.data = [i \in 1..r.frame.size |-> g]]
        BY Zenon DEF Allocated
      <4> QED
        BY <4>1, <4>2, <1>4, Zenon
    <3> HIDE DEF b
    <3>2. Allocated(r.frame, part, g) = [head |-> hd, size |-> sz, data |-> b]
      BY <2>5, <3>1
    <3> QED
      BY <3>2 DEF b
  <2>7. CASE sz = 0
    <3>1. dt = <<>> /\ [i \in 1..sz |-> g] = <<>>
      BY <1>1, <2>7, EmptySeq
    <3>2. After(r.frame, part) = "whole"
      BY <1>4, <2>5, <2>7 DEF After
    <3> QED
      BY <1>1, <2>6, <3>1, <3>2 DEF Got
  <2>8. CASE sz # 0
    <3>1. After(r.frame, part) = "data"
      BY <1>4, <2>5, <2>8 DEF After, NextPart
    <3> QED
      BY <1>2, <2>3, <2>6, <2>8, <3>1 DEF Got
  <2> QED
    BY <2>7, <2>8
<1>5. CASE part = "data"
  <2>1. PICK h \in Garbage :
          frame = [head |-> hd, size |-> sz, data |-> [i \in 1..sz |-> h]]
    BY <1>2, <1>5 DEF Got
  <2>2. /\ stream = dt \o <<>> /\ sz # 0
        /\ <<>> \in Seq(Nat)
    BY <1>2, <1>5, ConcatEmptySeq, EmptySeq DEF Got
  <2>3. r.frame = Filled(frame, "data", dt)
    <3>1. /\ Asks(frame, part) = Len(dt) /\ Len(dt) # 0
          /\ r \in Reads(frame, part, dt \o <<>>)
      BY <1>1, <1>5, <2>1, <2>2, AsksOf
    <3> QED
      <4>1. InFull(frame, part, dt, r)
        BY <3>1 DEF InFull
      <4>2. Taken(frame, part, dt, <<>>, r)
        BY <2>2, <3>1, <4>1, ReadAll
      <4> QED
        BY <4>2, <1>5 DEF Taken
  <2>4. Overwritten([i \in 1..sz |-> h], dt) = dt
    <3> DEFINE b == [i \in 1..sz |-> h]
    <3>1. b \in Seq(Nat) /\ Len(b) = sz
      BY GarbageIsUnits
    <3> QED
      BY <3>1, <1>1, OverwrittenAll
  <2>5. r.frame = sent
    <3> DEFINE b == [i \in 1..sz |-> h]
    <3>1. r.frame = [frame EXCEPT !.data = Overwritten(frame.data, dt)]
      BY <2>3, FilledOf
    <3>2. frame = [head |-> hd, size |-> sz, data |-> b] /\ Overwritten(b, dt) = dt
      BY <2>1, <2>4
    <3> HIDE DEF b
    <3> QED
      BY <1>1, <3>1, <3>2
  <2>6. After(r.frame, part) = "whole" /\ Allocated(r.frame, part, g) = r.frame
    BY <1>5 DEF After, Allocated, NextPart
  <2> QED
    BY <2>5, <2>6 DEF Got
<1> QED
  BY <1>3, <1>4, <1>5 DEF Parts
----------------------------------------------------------------------------
(* The invariant *)

\* What the worker answers with.
Answered == IF answer = Raised THEN Blank(0) ELSE AsMessageFrame(answer)
Answers == Messages \cup {Raised}

Places == client \in Reading \cup {"idle"} /\ worker \in Reading \cup {"free", "idle"}

\* The request is being read, and nothing was done yet.
RequestOnItsWay ==
    worker \in Reading =>
        /\ request \in Messages /\ Got(message, worker, up, AsMessageFrame(request))
        /\ client = "head" /\ down = <<>> /\ \E g \in Garbage : reply = Blank(g)
        /\ given = None /\ result = None

\* The answer is being read.
ReplyOnItsWay ==
    worker \notin Reading /\ client \in Reading =>
        answer \in Answers /\ result = None /\ Got(reply, client, down, Answered)

GivenAsSent ==
    given # None => request \in Messages /\ given = FromMessageFrame(AsMessageFrame(request))

ReturnedAsAnswered ==
    result # None => answer \in Answers /\ result = FromMessageFrame(Answered)

Transfer == RequestOnItsWay /\ ReplyOnItsWay /\ GivenAsSent /\ ReturnedAsAnswered

ExchangeInv == Places /\ (short = {} => Transfer)

\* What is answered is a frame.
LEMMA AnsweredIsFrame == answer \in Answers => Answered \in Frames
BY AsFrame, BlankFrame DEF Answers, Answered

\* A part is followed by one that can be read or is the whole frame.
LEMMA AfterReads ==
    ASSUME NEW frame, NEW part \in Parts
    PROVE  After(frame, part) \in Reading
BY DEF Parts, Reading, After, NextPart

\* At the start nothing is under way.
LEMMA InitInv == Init => ExchangeInv
BY DEF Init, ExchangeInv, Places, Transfer, RequestOnItsWay, ReplyOnItsWay, GivenAsSent,
       ReturnedAsAnswered, Reading, Parts

\* The client's message is under way to a buffer of any memory.
LEMMA SendInv ==
    ASSUME ExchangeInv, NEW m \in Messages, NEW g \in Garbage, Send(m, g)
    PROVE  ExchangeInv'
<1>1. Places'
  BY DEF Send, Places, Reading, Parts
<1>2. RequestOnItsWay'
  BY Zenon DEF Send, RequestOnItsWay, Got
<1>3. ReplyOnItsWay'
  BY DEF Send, ReplyOnItsWay, Reading, Parts
<1>4. GivenAsSent' /\ ReturnedAsAnswered'
  BY DEF Send, GivenAsSent, ReturnedAsAnswered
<1> QED
  BY <1>1, <1>2, <1>3, <1>4 DEF ExchangeInv, Transfer

\* tcp_client.c reads one part of the reply.
LEMMA ClientReadInv ==
    ASSUME ExchangeInv, NEW g \in Garbage, ClientRead(g)
    PROVE  ExchangeInv'
<1>1. PICK r \in Reads(reply, client, down) :
        /\ reply' = Allocated(r.frame, client, g) /\ down' = r.rest
        /\ short' = (IF r.short THEN short \cup {"client"} ELSE short)
        /\ client' = After(r.frame, client)
  BY DEF ClientRead
<1>2. client \in Parts /\ client' \in Reading
  BY <1>1, AfterReads DEF ClientRead, Parts
<1>3. Places'
  BY <1>2 DEF ClientRead, ExchangeInv, Places
<1>4. ASSUME short' = {} PROVE Transfer'
  <2>1. short = {} /\ ~r.short /\ Transfer
    BY <1>1, <1>4 DEF ExchangeInv
  <2>2. worker \notin Reading
    <3>1. down # <<>> \/ worker = "idle"
      BY DEF ClientRead
    <3>2. "idle" \notin Reading
      BY DEF Reading, Parts
    <3> QED
      BY <2>1, <3>1, <3>2 DEF Transfer, RequestOnItsWay
  <2>3. answer \in Answers /\ result = None /\ Got(reply, client, down, Answered)
    BY <2>1, <2>2, <1>2 DEF Transfer, ReplyOnItsWay, Reading
  <2>4. Got(reply', client', down', Answered)
    BY <1>1, <1>2, <2>1, <2>3, AnsweredIsFrame, ReadGot, Zenon
  <2>5. UNCHANGED <<worker, message, request, given, answer, result, up>>
    BY DEF ClientRead, python
  <2>6. ReplyOnItsWay'
    BY <2>3, <2>4, <2>5 DEF ReplyOnItsWay, Answered
  <2> QED
    BY <2>1, <2>2, <2>3, <2>5, <2>6
    DEF Transfer, RequestOnItsWay, GivenAsSent, ReturnedAsAnswered
<1> QED
  BY <1>3, <1>4 DEF ExchangeInv

\* send_message returns the message that the reply is converted to.
LEMMA ClientReturnInv ==
    ASSUME ExchangeInv, ClientReturn
    PROVE  ExchangeInv'
<1>1. Places'
  BY DEF ClientReturn, ExchangeInv, Places
<1>2. ASSUME short' = {} PROVE Transfer'
  <2>1. Transfer /\ client = "whole" /\ client' = "idle"
    BY <1>2 DEF ClientReturn, ExchangeInv
  <2>2. UNCHANGED <<worker, message, reply, request, given, answer, up, down>>
    BY DEF ClientReturn, buffers
  <2>3. worker \notin Reading
    BY <2>1 DEF Transfer, RequestOnItsWay
  <2>4. answer \in Answers /\ reply = Answered
    BY <2>1, <2>3 DEF Transfer, ReplyOnItsWay, Reading, Got
  <2>5. ReturnedAsAnswered'
    BY <2>2, <2>4 DEF ClientReturn, ReturnedAsAnswered, Answered
  <2>6. RequestOnItsWay' /\ ReplyOnItsWay' /\ GivenAsSent'
    BY <2>1, <2>2, <2>3 DEF Transfer, RequestOnItsWay, ReplyOnItsWay, GivenAsSent, Reading, Parts
  <2> QED
    BY <2>5, <2>6 DEF Transfer
<1> QED
  BY <1>1, <1>2 DEF ExchangeInv

\* A worker reads one part of the request.
LEMMA WorkerReadInv ==
    ASSUME ExchangeInv, NEW g \in Garbage, WorkerRead(g)
    PROVE  ExchangeInv'
<1>1. PICK r \in Reads(message, worker, up) :
        /\ message' = Allocated(r.frame, worker, g) /\ up' = r.rest
        /\ short' = (IF r.short THEN short \cup {"worker"} ELSE short)
        /\ worker' = After(r.frame, worker)
  BY DEF WorkerRead
<1>2. worker \in Parts /\ worker' \in Reading
  BY <1>1, AfterReads DEF WorkerRead, Parts
<1>3. Places'
  BY <1>2 DEF WorkerRead, ExchangeInv, Places
<1>4. ASSUME short' = {} PROVE Transfer'
  <2>1. short = {} /\ ~r.short /\ Transfer
    BY <1>1, <1>4 DEF ExchangeInv
  <2>2. RequestOnItsWay /\ worker \in Reading
    BY <2>1, <1>2 DEF Transfer, Reading
  <2>3. Got(message', worker', up', AsMessageFrame(request))
    BY <1>1, <1>2, <2>1, <2>2, AsFrame, ReadGot, Zenon DEF RequestOnItsWay
  <2>4. UNCHANGED <<client, reply, request, given, answer, result, down>>
    BY DEF WorkerRead, python
  <2>5. RequestOnItsWay'
    BY <2>2, <2>3, <2>4 DEF RequestOnItsWay
  <2> QED
    BY <2>1, <2>4, <2>5, <1>2 DEF Transfer, ReplyOnItsWay, GivenAsSent, ReturnedAsAnswered, Answered
<1> QED
  BY <1>3, <1>4 DEF ExchangeInv

\* A worker calls back and sends the answer, or zeroes when that raised.
LEMMA WorkerCallInv ==
    ASSUME ExchangeInv, NEW m \in Answers, WorkerCall(m)
    PROVE  ExchangeInv'
<1>1. Places'
  BY DEF WorkerCall, ExchangeInv, Places, Reading, Parts
<1>2. ASSUME short' = {} PROVE Transfer'
  <2>1. Transfer /\ worker = "whole" /\ worker' = "free" /\ answer' = m
    BY <1>2 DEF WorkerCall, ExchangeInv
  <2>2. UNCHANGED <<client, message, reply, request, result>>
    BY DEF WorkerCall, buffers
  <2>3. RequestOnItsWay /\ worker \in Reading
    BY <2>1 DEF Transfer, Reading
  <2>4. given' = FromMessageFrame(AsMessageFrame(request))
    BY <2>1, <2>3 DEF WorkerCall, RequestOnItsWay, Got
  <2>5. down' = Units(Answered')
    BY <2>1 DEF WorkerCall, Answered, Zeroes
  <2>6. Got(reply', client', down', Answered')
    BY <2>2, <2>3, <2>5, Zenon DEF RequestOnItsWay, Got
  <2>7. worker' \notin Reading
    BY <2>1 DEF Reading, Parts
  <2>8. ReplyOnItsWay'
    BY <2>1, <2>2, <2>3, <2>6 DEF ReplyOnItsWay, RequestOnItsWay
  <2>9. GivenAsSent' /\ ReturnedAsAnswered' /\ RequestOnItsWay'
    BY <2>2, <2>3, <2>4, <2>7 DEF GivenAsSent, ReturnedAsAnswered, RequestOnItsWay
  <2> QED
    BY <2>8, <2>9 DEF Transfer
<1> QED
  BY <1>1, <1>2 DEF ExchangeInv

\* Whatever is freed, how often, and whether the server survives it: what was
\* written is not touched.
LEMMA WorkerFreeInv ==
    ASSUME ExchangeInv, NEW g \in Garbage, WorkerFree(g)
    PROVE  ExchangeInv'
<1>1. Places'
  BY DEF WorkerFree, ExchangeInv, Places
<1>2. /\ worker = "free" /\ worker' = "idle"
      /\ UNCHANGED <<client, reply, message, request, given, answer, result, up, down, short>>
  BY DEF WorkerFree, buffers, python
<1>3. worker \notin Reading /\ worker' \notin Reading
  BY <1>2 DEF Reading, Parts
<1>4. Transfer => Transfer'
  BY <1>2, <1>3 DEF Transfer, RequestOnItsWay, ReplyOnItsWay, GivenAsSent, ReturnedAsAnswered, Answered
<1> QED
  BY <1>1, <1>2, <1>4 DEF ExchangeInv

\* Every step keeps both buffers on their way.
LEMMA StepInv == ExchangeInv /\ [Next]_vars => ExchangeInv'
<1> SUFFICES ASSUME ExchangeInv, [Next]_vars PROVE ExchangeInv'
  OBVIOUS
<1>1. ASSUME NEW m \in Messages, NEW g \in Garbage, Send(m, g) PROVE ExchangeInv'
  BY <1>1, SendInv
<1>2. CASE ClientStep
  BY <1>2, ClientReadInv, ClientReturnInv DEF ClientStep
<1>3. CASE WorkerStep
  BY <1>3, WorkerReadInv, WorkerCallInv, WorkerFreeInv DEF WorkerStep, Answers
<1>4. CASE UNCHANGED vars
  BY <1>4 DEF vars, buffers, python, ExchangeInv, Places, Transfer, RequestOnItsWay, ReplyOnItsWay,
              GivenAsSent, ReturnedAsAnswered, Answered
<1> QED
  BY <1>1, <1>2, <1>3, <1>4 DEF Next

\* A whole exchange delivers both messages.
LEMMA InvDelivers == ExchangeInv => Delivered
<1> SUFFICES ASSUME ExchangeInv, short = {} PROVE Delivered
  BY DEF Delivered
<1>1. GivenAsSent /\ ReturnedAsAnswered
  BY DEF ExchangeInv, Transfer
<1>2. given # None /\ Sendable(request) => given = request
  BY <1>1, RoundTrip DEF GivenAsSent
<1>3. result # None /\ answer # Raised /\ Sendable(answer) => result = answer
  BY <1>1, RoundTrip DEF ReturnedAsAnswered, Answered, Answers
<1>4. result # None /\ answer = Raised => result = FromMessageFrame(Blank(0))
  BY <1>1 DEF ReturnedAsAnswered, Answered
<1> QED
  BY <1>2, <1>3, <1>4 DEF Delivered

----------------------------------------------------------------------------
\* For any messages, any memory in the buffers and any number of exchanges:
\* as long as read() returns what was asked for, the callback is called with
\* the message that was sent and send_message returns the one the callback
\* returned, or zeroes if it raised.
THEOREM DeliveredHolds == Spec => []Delivered
<1>1. Spec => []ExchangeInv
  BY InitInv, StepInv, PTL DEF Spec
<1> QED
  BY <1>1, InvDelivers, PTL
=============================================================================
