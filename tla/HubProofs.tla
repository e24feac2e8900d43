------------------------------ MODULE HubProofs ------------------------------
(***************************************************************************)
(* What the hub guarantees for any number of publishers and connections,   *)
(* any capacity of the channels and any number of messages. The order of   *)
(* what a browser gets is an order of one sequence, Stream: a send appends *)
(* to its end, and the goroutine of the connection moves a message along   *)
(* inside it.                                                              *)
(***************************************************************************)
EXTENDS Hub, SequenceTheorems, TLAPS

-----------------------------------------------------------------------------
(* The inductive invariant. *)

(* The channels and what was written are sequences of message numbers.     *)
Channels ==
  /\ buf \in [Clients -> Seq(Nat)]
  /\ got \in [Clients -> Seq(Nat)]

(* The mutex: one Publish at a time walks the subscribers, with the last   *)
(* message, and nobody unsubscribes until it is through.                   *)
OnePublishes ==
  /\ \A p \in Publishers : pubPc[p] = "send" => locked /\ msg[p] = sent /\ sent > 0
  /\ \A p, q \in Publishers : pubPc[p] = "send" /\ pubPc[q] = "send" => p = q
  /\ \A p \in Publishers : todo[p] # {} => pubPc[p] = "send"
  /\ \A p \in Publishers : todo[p] \subseteq subs

(* A connection is subscribed until it leaves, and closes its channel      *)
(* last; before it connects there is nothing in the channel.               *)
ServesInTurn ==
  /\ \A c \in Clients : c \in subs <=> (Connected(c) \/ pc[c] = "leave")
  /\ \A c \in Clients : c \in closed <=> pc[c] = "over"
  /\ \A c \in Clients : pc[c] = "off" => buf[c] = <<>> /\ got[c] = <<>>
  /\ \A c \in Clients : since[c] <= sent

(* The numbers in s rise, from above lo.                                   *)
Rises(s, lo) == \A i \in DOMAIN s : s[i] > lo /\ (i > 1 => s[i] > s[i - 1])

(* The messages in s are none later than hi.                               *)
UpTo(s, hi) == \A i \in DOMAIN s : s[i] <= hi

(* A stream rises, and while a Publish has yet to visit its channel it     *)
(* does not hold that Publish's message.                                   *)
StreamsRise ==
  \A c \in Clients : Connected(c) =>
    /\ Rises(Stream(c), since[c])
    /\ UpTo(Stream(c), sent)
    /\ \A p \in Publishers : c \in todo[p] => sent > since[c] /\ UpTo(Stream(c), sent - 1)

Elements(s) == {s[i] : i \in DOMAIN s}

(* What a Publish that walks the subscribers has not yet handed to c.      *)
Due(c) == {msg[p] : p \in {q \in Publishers : c \in todo[q]}}

StreamsAreWhole ==
  \A c \in Clients : Connected(c) /\ c \notin full =>
    Elements(Stream(c)) = (since[c] + 1 .. sent) \ Due(c)

Inv ==
  /\ TypeOK /\ Channels
  /\ OnePublishes
  /\ ServesInTurn
  /\ StreamsRise
  /\ StreamsAreWhole

-----------------------------------------------------------------------------
(* Channels hold numbers. *)
LEMMA ChannelsStep == TypeOK /\ Channels /\ [Next]_vars => Channels'
<1> SUFFICES ASSUME TypeOK, Channels, [Next]_vars
             PROVE  Channels'
  OBVIOUS
<1> USE HubAssumption DEF hubVars, pubVars, serveVars, history, Channels,
    TypeOK, HasRoom
<1>1. ASSUME NEW p \in Publishers, Publish(p)
      PROVE  Channels'
  BY <1>1 DEF Publish, PubAt
<1>2. ASSUME NEW p \in Publishers, NEW c \in Clients, PublishSends(p, c)
      PROVE  Channels'
  BY <1>2 DEF PublishSends
<1>3. ASSUME NEW p \in Publishers, PublishEnds(p)
      PROVE  Channels'
  BY <1>3 DEF PublishEnds, PubAt
<1>4. ASSUME NEW c \in Clients, Connect(c)
      PROVE  Channels'
  BY <1>4 DEF Connect, ServeAt
<1>5. ASSUME NEW c \in Clients, Receive(c)
      PROVE  Channels'
  BY <1>5 DEF Receive, ServeAt
<1>6. ASSUME NEW c \in Clients, Heartbeat(c)
      PROVE  Channels'
  BY <1>6 DEF Heartbeat, ServeAt
<1>7. ASSUME NEW c \in Clients, WriteSucceeds(c)
      PROVE  Channels'
  BY <1>7 DEF WriteSucceeds, ServeAt
<1>8. ASSUME NEW c \in Clients, WriteFails(c)
      PROVE  Channels'
  BY <1>8 DEF WriteFails, ServeAt
<1>9. ASSUME NEW c \in Clients, Cancelled(c)
      PROVE  Channels'
  BY <1>9 DEF Cancelled, ServeAt
<1>10. ASSUME NEW c \in Clients, Unsubscribe(c)
      PROVE  Channels'
  BY <1>10 DEF Unsubscribe, ServeAt
<1>11. ASSUME NEW c \in Clients, CloseChannel(c)
      PROVE  Channels'
  BY <1>11 DEF CloseChannel, ServeAt
<1>12. ASSUME NEW c \in Clients, Vanishes(c)
      PROVE  Channels'
  BY <1>12 DEF Vanishes
<1>13. CASE UNCHANGED vars
  BY <1>13 DEF vars
<1>. QED
  BY <1>1, <1>2, <1>3, <1>4, <1>5, <1>6, <1>7, <1>8, <1>9, <1>10, <1>11,
     <1>12, <1>13
     DEF Next, PublisherStep, ServeStep

(* The mutex. *)
LEMMA OnePublishesStep ==
  TypeOK /\ ServesInTurn /\ OnePublishes
    /\ [Next]_vars => OnePublishes'
<1> SUFFICES ASSUME TypeOK, ServesInTurn, OnePublishes, [Next]_vars
             PROVE  OnePublishes'
  OBVIOUS
<1> USE HubAssumption DEF hubVars, pubVars, serveVars, history, TypeOK,
    OnePublishes, ServesInTurn, Connected, Writing
<1>1. ASSUME NEW p \in Publishers, Publish(p)
      PROVE  OnePublishes'
  BY <1>1 DEF Publish, PubAt
<1>2. ASSUME NEW p \in Publishers, NEW c \in Clients, PublishSends(p, c)
      PROVE  OnePublishes'
  BY <1>2 DEF PublishSends
<1>3. ASSUME NEW p \in Publishers, PublishEnds(p)
      PROVE  OnePublishes'
  BY <1>3 DEF PublishEnds, PubAt
<1>4. ASSUME NEW c \in Clients, Connect(c)
      PROVE  OnePublishes'
  BY <1>4 DEF Connect, ServeAt
<1>5. ASSUME NEW c \in Clients, Receive(c)
      PROVE  OnePublishes'
  BY <1>5 DEF Receive, ServeAt
<1>6. ASSUME NEW c \in Clients, Heartbeat(c)
      PROVE  OnePublishes'
  BY <1>6 DEF Heartbeat, ServeAt
<1>7. ASSUME NEW c \in Clients, WriteSucceeds(c)
      PROVE  OnePublishes'
  BY <1>7 DEF WriteSucceeds, ServeAt
<1>8. ASSUME NEW c \in Clients, WriteFails(c)
      PROVE  OnePublishes'
  BY <1>8 DEF WriteFails, ServeAt
<1>9. ASSUME NEW c \in Clients, Cancelled(c)
      PROVE  OnePublishes'
  BY <1>9 DEF Cancelled, ServeAt
<1>10. ASSUME NEW c \in Clients, Unsubscribe(c)
      PROVE  OnePublishes'
  BY <1>10 DEF Unsubscribe, ServeAt
<1>11. ASSUME NEW c \in Clients, CloseChannel(c)
      PROVE  OnePublishes'
  BY <1>11 DEF CloseChannel, ServeAt
<1>12. ASSUME NEW c \in Clients, Vanishes(c)
      PROVE  OnePublishes'
  BY <1>12 DEF Vanishes
<1>13. CASE UNCHANGED vars
  BY <1>13 DEF vars
<1>. QED
  BY <1>1, <1>2, <1>3, <1>4, <1>5, <1>6, <1>7, <1>8, <1>9, <1>10, <1>11,
     <1>12, <1>13
     DEF Next, PublisherStep, ServeStep

(* The order of Serve. *)
LEMMA ServesStep ==
  TypeOK /\ Channels /\ OnePublishes /\ ServesInTurn
    /\ [Next]_vars => ServesInTurn'
<1> SUFFICES ASSUME TypeOK, Channels, OnePublishes, ServesInTurn, [Next]_vars
             PROVE  ServesInTurn'
  OBVIOUS
<1> USE HubAssumption DEF hubVars, pubVars, serveVars, history, TypeOK,
    OnePublishes, ServesInTurn, Connected, Writing
<1>1. ASSUME NEW p \in Publishers, Publish(p)
      PROVE  ServesInTurn'
  BY <1>1 DEF Publish, PubAt
<1>2. ASSUME NEW p \in Publishers, NEW c \in Clients, PublishSends(p, c)
      PROVE  ServesInTurn'
  <2>1. c \in subs /\ pc[c] # "off"
    BY <1>2 DEF PublishSends
  <2>2. UNCHANGED <<subs, closed, pc, got, since, sent>>
    BY <1>2 DEF PublishSends
  <2>3. \A d \in Clients : d # c => buf'[d] = buf[d]
    BY <1>2 DEF PublishSends, Channels
  <2>. QED
    BY <2>1, <2>2, <2>3
<1>3. ASSUME NEW p \in Publishers, PublishEnds(p)
      PROVE  ServesInTurn'
  BY <1>3 DEF PublishEnds, PubAt
<1>4. ASSUME NEW c \in Clients, Connect(c)
      PROVE  ServesInTurn'
  BY <1>4 DEF Connect, ServeAt
<1>5. ASSUME NEW c \in Clients, Receive(c)
      PROVE  ServesInTurn'
  BY <1>5 DEF Receive, ServeAt
<1>6. ASSUME NEW c \in Clients, Heartbeat(c)
      PROVE  ServesInTurn'
  BY <1>6 DEF Heartbeat, ServeAt
<1>7. ASSUME NEW c \in Clients, WriteSucceeds(c)
      PROVE  ServesInTurn'
  BY <1>7 DEF WriteSucceeds, ServeAt
<1>8. ASSUME NEW c \in Clients, WriteFails(c)
      PROVE  ServesInTurn'
  BY <1>8 DEF WriteFails, ServeAt
<1>9. ASSUME NEW c \in Clients, Cancelled(c)
      PROVE  ServesInTurn'
  BY <1>9 DEF Cancelled, ServeAt
<1>10. ASSUME NEW c \in Clients, Unsubscribe(c)
      PROVE  ServesInTurn'
  BY <1>10 DEF Unsubscribe, ServeAt
<1>11. ASSUME NEW c \in Clients, CloseChannel(c)
      PROVE  ServesInTurn'
  BY <1>11 DEF CloseChannel, ServeAt
<1>12. ASSUME NEW c \in Clients, Vanishes(c)
      PROVE  ServesInTurn'
  BY <1>12 DEF Vanishes
<1>13. CASE UNCHANGED vars
  BY <1>13 DEF vars
<1>. QED
  BY <1>1, <1>2, <1>3, <1>4, <1>5, <1>6, <1>7, <1>8, <1>9, <1>10, <1>11,
     <1>12, <1>13
     DEF Next, PublisherStep, ServeStep

(* A sequence of numbers up to n stays one when such a number is appended, *)
(* and when its head is taken.                                             *)
LEMMA StaysWithin ==
  ASSUME NEW s \in Seq(Nat), NEW n \in Nat, \A i \in DOMAIN s : s[i] \in 1..n
  PROVE  /\ \A x \in 1..n : \A i \in DOMAIN Append(s, x) : Append(s, x)[i] \in 1..n
         /\ s # <<>> => Len(Tail(s)) < Len(s)
                        /\ \A i \in DOMAIN Tail(s) : Tail(s)[i] \in 1..n
<1>1. ASSUME NEW x \in 1..n
      PROVE  \A i \in DOMAIN Append(s, x) : Append(s, x)[i] \in 1..n
  OBVIOUS
<1>2. ASSUME s # <<>>
      PROVE  Len(Tail(s)) < Len(s) /\ \A i \in DOMAIN Tail(s) : Tail(s)[i] \in 1..n
  BY <1>2
<1>. QED
  BY <1>1, <1>2

(* The types. *)
LEMMA TypeStep == TypeOK /\ Channels /\ OnePublishes /\ [Next]_vars => TypeOK'
<1> SUFFICES ASSUME TypeOK, Channels, OnePublishes, [Next]_vars
             PROVE  TypeOK'
  OBVIOUS
<1> USE HubAssumption DEF hubVars, pubVars, serveVars, history, TypeOK,
    OnePublishes, Channels, Writing
<1>1. ASSUME NEW p \in Publishers, Publish(p)
      PROVE  TypeOK'
  BY <1>1 DEF Publish, PubAt
<1>2. ASSUME NEW p \in Publishers, NEW c \in Clients, PublishSends(p, c)
      PROVE  TypeOK'
  <2>1. UNCHANGED <<locked, subs, closed, sent, pubPc, msg, pc, held, gone, since>>
    BY <1>2 DEF PublishSends
  <2>2. todo' \in [Publishers -> SUBSET Clients]
    BY <1>2 DEF PublishSends
  <2>3. full' \subseteq Clients
    BY <1>2 DEF PublishSends
  <2>4. msg[p] \in 1..sent
    BY <1>2 DEF PublishSends
  <2>5. ASSUME NEW d \in Clients
        PROVE  Len(buf'[d]) <= Cap /\ \A i \in DOMAIN buf'[d] : buf'[d][i] \in 1..sent
    <3>1. CASE d = c /\ HasRoom(c)
      <4>1. buf'[d] = Append(buf[d], msg[p]) /\ buf[d] \in Seq(Nat) /\ msg[p] \in Nat
        BY <1>2, <2>4, <3>1 DEF PublishSends
      <4>2. Len(buf'[d]) <= Cap
        BY <3>1, <4>1 DEF HasRoom
      <4>3. \A i \in DOMAIN buf[d] : buf[d][i] \in 1..sent
        OBVIOUS
      <4>4. sent \in Nat /\ buf[d] \in Seq(Nat)
        OBVIOUS
      <4> HIDE HubAssumption DEF hubVars, pubVars, serveVars, history, TypeOK, OnePublishes,
                                 Channels, Writing
      <4>5. \A i \in DOMAIN Append(buf[d], msg[p]) : Append(buf[d], msg[p])[i] \in 1..sent
        BY <2>4, <4>3, <4>4, StaysWithin
      <4>. QED
        BY <4>1, <4>2, <4>5
    <3>2. CASE ~(d = c /\ HasRoom(c))
      BY <1>2, <3>2 DEF PublishSends
    <3>. QED
      BY <3>1, <3>2
  <2>. QED
    BY <2>1, <2>2, <2>3, <2>5
<1>3. ASSUME NEW p \in Publishers, PublishEnds(p)
      PROVE  TypeOK'
  BY <1>3 DEF PublishEnds, PubAt
<1>4. ASSUME NEW c \in Clients, Connect(c)
      PROVE  TypeOK'
  BY <1>4 DEF Connect, ServeAt
<1>5. ASSUME NEW c \in Clients, Receive(c)
      PROVE  TypeOK'
  <2>1. UNCHANGED <<locked, subs, closed, sent, pubPc, msg, todo, gone, since, full>>
    BY <1>5 DEF Receive
  <2>2. buf[c] \in Seq(Nat) /\ buf[c] # <<>>
    BY <1>5 DEF Receive
  <2>3. /\ Head(buf[c]) = buf[c][1]
        /\ Tail(buf[c]) \in Seq(Nat)
        /\ Len(Tail(buf[c])) = Len(buf[c]) - 1
        /\ \A i \in DOMAIN Tail(buf[c]) : Tail(buf[c])[i] = buf[c][i + 1]
                                          /\ i + 1 \in DOMAIN buf[c]
    BY <2>2
  <2>4. held' \in [Clients -> 0..MaxSent]
    BY <1>5, <2>2, <2>3 DEF Receive
  <2>5. pc' \in [Clients -> {"off", "serve", "leave", "close", "over"} \cup Writing]
    BY <1>5 DEF Receive, ServeAt
  <2>6. \A d \in Clients : buf'[d] = IF d = c THEN Tail(buf[c]) ELSE buf[d]
    BY <1>5 DEF Receive
  <2>7. ASSUME NEW d \in Clients
        PROVE  Len(buf'[d]) <= Cap /\ \A i \in DOMAIN buf'[d] : buf'[d][i] \in 1..sent
    <3>1. CASE d = c
      <4>1. Len(buf[c]) <= Cap /\ \A i \in DOMAIN buf[c] : buf[c][i] \in 1..sent
        OBVIOUS
      <4>2. sent \in Nat /\ Cap \in Nat /\ Len(buf[c]) \in Nat
        BY <2>2
      <4> HIDE HubAssumption DEF hubVars, pubVars, serveVars, history, TypeOK, OnePublishes,
                                 Channels, Writing
      <4>3. Len(Tail(buf[c])) < Len(buf[c])
            /\ \A i \in DOMAIN Tail(buf[c]) : Tail(buf[c])[i] \in 1..sent
        BY <2>2, <4>1, <4>2, StaysWithin
      <4>4. buf'[d] = Tail(buf[c])
        BY <2>6, <3>1
      <4>5. Len(Tail(buf[c])) <= Cap
        BY <2>3, <4>1, <4>2
      <4>. QED
        BY <4>3, <4>4, <4>5
    <3>2. CASE d # c
      BY <2>6, <3>2
    <3>. QED
      BY <3>1, <3>2
  <2>. QED
    BY <2>1, <2>4, <2>5, <2>7
<1>6. ASSUME NEW c \in Clients, Heartbeat(c)
      PROVE  TypeOK'
  BY <1>6 DEF Heartbeat, ServeAt
<1>7. ASSUME NEW c \in Clients, WriteSucceeds(c)
      PROVE  TypeOK'
  BY <1>7 DEF WriteSucceeds, ServeAt
<1>8. ASSUME NEW c \in Clients, WriteFails(c)
      PROVE  TypeOK'
  BY <1>8 DEF WriteFails, ServeAt
<1>9. ASSUME NEW c \in Clients, Cancelled(c)
      PROVE  TypeOK'
  BY <1>9 DEF Cancelled, ServeAt
<1>10. ASSUME NEW c \in Clients, Unsubscribe(c)
      PROVE  TypeOK'
  BY <1>10 DEF Unsubscribe, ServeAt
<1>11. ASSUME NEW c \in Clients, CloseChannel(c)
      PROVE  TypeOK'
  BY <1>11 DEF CloseChannel, ServeAt
<1>12. ASSUME NEW c \in Clients, Vanishes(c)
      PROVE  TypeOK'
  BY <1>12 DEF Vanishes
<1>13. CASE UNCHANGED vars
  BY <1>13 DEF vars
<1>. QED
  BY <1>1, <1>2, <1>3, <1>4, <1>5, <1>6, <1>7, <1>8, <1>9, <1>10, <1>11,
     <1>12, <1>13
     DEF Next, PublisherStep, ServeStep

-----------------------------------------------------------------------------
(* Streams. *)

(* What is appended to a channel is appended to what its browser has       *)
(* coming.                                                                 *)
LEMMA AppendEnds ==
  ASSUME NEW s \in Seq(Nat), NEW d \in Seq(Nat), NEW x \in Nat
  PROVE  s \o Append(d, x) = Append(s \o d, x)
<1>1. s \o d \in Seq(Nat) /\ s \o Append(d, x) \in Seq(Nat) /\ Append(s \o d, x) \in Seq(Nat)
  OBVIOUS
<1>2. Len(s \o Append(d, x)) = Len(Append(s \o d, x))
  OBVIOUS
<1>3. \A i \in 1..Len(s \o Append(d, x)) : (s \o Append(d, x))[i] = Append(s \o d, x)[i]
  OBVIOUS
<1>. QED
  BY <1>1, <1>2, <1>3, SeqEqual

(* Receiving a message and writing it move it along, from the channel to   *)
(* the goroutine and on to the browser.                                    *)
LEMMA MovesAlong ==
  ASSUME NEW a \in Seq(Nat), NEW d \in Seq(Nat), NEW x \in Nat
  PROVE  /\ (Append(a, x) \o <<>>) \o d = (a \o <<x>>) \o d
         /\ d # <<>> => (a \o <<Head(d)>>) \o Tail(d) = (a \o <<>>) \o d
<1>1. Append(a, x) \o <<>> = a \o <<x>>
  <2>1. Append(a, x) \in Seq(Nat) /\ <<x>> \in Seq(Nat)
    OBVIOUS
  <2>2. Append(a, x) = a \o <<x>>
    BY AppendIsConcat
  <2>. QED
    BY <2>1, <2>2, ConcatEmptySeq
<1>2. ASSUME d # <<>>
      PROVE  (a \o <<Head(d)>>) \o Tail(d) = (a \o <<>>) \o d
  <2>1. Head(d) \in Nat /\ Tail(d) \in Seq(Nat) /\ <<Head(d)>> \in Seq(Nat)
    BY <1>2
  <2>2. (a \o <<Head(d)>>) \o Tail(d) = a \o (<<Head(d)>> \o Tail(d))
    BY <2>1, ConcatAssociative
  <2>3. <<Head(d)>> \o Tail(d) = d
    <3>1. <<Head(d)>> \o Tail(d) \in Seq(Nat) /\ Len(<<Head(d)>> \o Tail(d)) = Len(d)
      BY <1>2, <2>1
    <3>2. \A i \in 1..Len(d) : (<<Head(d)>> \o Tail(d))[i] = d[i]
      BY <1>2, <2>1
    <3>. QED
      BY <3>1, <3>2, SeqEqual
  <2>4. a \o <<>> = a
    BY ConcatEmptySeq
  <2>. QED
    BY <2>2, <2>3, <2>4
<1>. QED
  BY <1>1, <1>2

(* The elements, and the order, of a sequence that grows at its end.       *)
LEMMA GrowsAtItsEnd ==
  ASSUME NEW s \in Seq(Nat), NEW x \in Nat, NEW lo \in Nat
  PROVE  /\ Elements(Append(s, x)) = Elements(s) \cup {x}
         /\ UpTo(s, x) => UpTo(Append(s, x), x)
         /\ Rises(s, lo) /\ UpTo(s, x - 1) /\ x > lo => Rises(Append(s, x), lo)
<1>1. /\ DOMAIN Append(s, x) = 1..(Len(s) + 1) /\ DOMAIN s = 1..Len(s)
      /\ Append(s, x)[Len(s) + 1] = x
      /\ \A i \in 1..Len(s) : Append(s, x)[i] = s[i] /\ s[i] \in Nat
      /\ Len(s) \in Nat
  OBVIOUS
<1>2. Elements(Append(s, x)) = Elements(s) \cup {x}
  BY <1>1 DEF Elements
<1>3. UpTo(s, x) => UpTo(Append(s, x), x)
  BY <1>1 DEF UpTo
<1>4. ASSUME Rises(s, lo), UpTo(s, x - 1), x > lo
      PROVE  Rises(Append(s, x), lo)
  BY <1>1, <1>4 DEF UpTo, Rises
<1>. QED
  BY <1>2, <1>3, <1>4

(* A stream is a sequence of message numbers. *)
LEMMA StreamIsSeq ==
  ASSUME TypeOK, Channels, NEW c \in Clients
  PROVE  Stream(c) \in Seq(Nat)
BY HubAssumption DEF TypeOK, Channels, Stream

(* A step that no stream shows. *)
SameStreams ==
  /\ UNCHANGED <<sent, msg, todo, since>>
  /\ \A c \in Clients : Connected(c)' =>
       Connected(c) /\ Stream(c)' = Stream(c) /\ (c \in full' <=> c \in full)

(* Only Publish, its sends and Connect show in a stream. *)
LEMMA OthersKeepStreams ==
  ASSUME TypeOK, Channels, ServesInTurn, [Next]_vars,
         \A p \in Publishers : ~Publish(p),
         \A p \in Publishers, c \in Clients : ~PublishSends(p, c),
         \A c \in Clients : ~Connect(c)
  PROVE  SameStreams
<1> USE DEF hubVars, pubVars, serveVars, history, SameStreams, Connected, Writing
<1>1. ASSUME NEW p \in Publishers, PublishEnds(p)
      PROVE  SameStreams
  BY <1>1 DEF PublishEnds, Stream
<1>2. ASSUME NEW c \in Clients, Receive(c)
      PROVE  SameStreams
  <2>1. UNCHANGED <<sent, msg, todo, since, got, full>>
    BY <1>2 DEF Receive
  <2>2. ASSUME NEW d \in Clients, d # c
        PROVE  pc'[d] = pc[d] /\ held'[d] = held[d] /\ buf'[d] = buf[d]
    BY <1>2, <2>2 DEF Receive, ServeAt, TypeOK, Channels
  <2>3. pc[c] = "serve" /\ pc'[c] = "write"
    BY <1>2 DEF Receive, ServeAt, TypeOK
  <2>4. Stream(c)' = Stream(c)
    <3>1. buf[c] \in Seq(Nat) /\ got[c] \in Seq(Nat) /\ buf[c] # <<>>
      BY <1>2 DEF Receive, Channels
    <3>2. held'[c] = Head(buf[c]) /\ buf'[c] = Tail(buf[c]) /\ got'[c] = got[c]
      BY <1>2 DEF Receive, TypeOK, Channels
    <3>3. Stream(c) = (got[c] \o <<>>) \o buf[c]
      BY <2>3 DEF Stream
    <3>4. Stream(c)' = (got[c] \o <<Head(buf[c])>>) \o Tail(buf[c])
      BY <2>3, <3>2 DEF Stream
    <3>. QED
      BY <3>1, <3>3, <3>4, MovesAlong
  <2>. QED
    BY <2>1, <2>2, <2>3, <2>4 DEF Stream
<1>3. ASSUME NEW c \in Clients, Heartbeat(c)
      PROVE  SameStreams
  BY <1>3 DEF Heartbeat, TypeOK, Stream, ServeAt
<1>4. ASSUME NEW c \in Clients, WriteSucceeds(c)
      PROVE  SameStreams
  <2>1. UNCHANGED <<sent, msg, todo, since, full, buf, held>>
    BY <1>4 DEF WriteSucceeds
  <2>2. ASSUME NEW d \in Clients, d # c
        PROVE  pc'[d] = pc[d] /\ got'[d] = got[d]
    BY <1>4, <2>2 DEF WriteSucceeds, ServeAt, TypeOK, Channels
  <2>3. pc[c] \in Writing /\ pc'[c] = "serve"
    BY <1>4 DEF WriteSucceeds, ServeAt, TypeOK
  <2>4. Stream(c)' = Stream(c)
    <3>1. buf[c] \in Seq(Nat) /\ got[c] \in Seq(Nat) /\ held[c] \in Nat
      BY DEF Channels, TypeOK
    <3>2. Stream(c)' = (got'[c] \o <<>>) \o buf[c]
      BY <2>1, <2>3 DEF Stream
    <3>3. CASE pc[c] = "write"
      <4>1. got'[c] = Append(got[c], held[c])
        BY <1>4, <3>3 DEF WriteSucceeds, Channels
      <4>2. Stream(c) = (got[c] \o <<held[c]>>) \o buf[c]
        BY <3>3 DEF Stream
      <4>3. (Append(got[c], held[c]) \o <<>>) \o buf[c] = (got[c] \o <<held[c]>>) \o buf[c]
        BY <3>1, MovesAlong
      <4>. QED
        BY <3>2, <4>1, <4>2, <4>3
    <3>4. CASE pc[c] # "write"
      <4>1. got'[c] = got[c]
        BY <1>4, <3>4 DEF WriteSucceeds
      <4>. QED
        BY <3>2, <3>4, <4>1 DEF Stream
    <3>. QED
      BY <3>3, <3>4
  <2>. QED
    BY <2>1, <2>2, <2>3, <2>4 DEF Stream
<1>5. ASSUME NEW c \in Clients, WriteFails(c)
      PROVE  SameStreams
  BY <1>5 DEF WriteFails, TypeOK, Stream, ServeAt
<1>6. ASSUME NEW c \in Clients, Cancelled(c)
      PROVE  SameStreams
  BY <1>6 DEF Cancelled, TypeOK, Stream, ServeAt
<1>7. ASSUME NEW c \in Clients, Unsubscribe(c)
      PROVE  SameStreams
  BY <1>7 DEF Unsubscribe, TypeOK, Stream, ServeAt
<1>8. ASSUME NEW c \in Clients, CloseChannel(c)
      PROVE  SameStreams
  <2>1. UNCHANGED <<sent, msg, todo, since>>
    BY <1>8 DEF CloseChannel
  <2>2. pc'[c] = "over"
    BY <1>8 DEF CloseChannel, ServeAt, TypeOK
  <2>3. ASSUME NEW d \in Clients, d # c
        PROVE  /\ pc'[d] = pc[d] /\ held'[d] = held[d] /\ buf'[d] = buf[d] /\ got'[d] = got[d]
               /\ d \in full' <=> d \in full
    BY <1>8, <2>3 DEF CloseChannel, ServeAt, TypeOK, Channels
  <2>. QED
    BY <2>1, <2>2, <2>3 DEF Stream
<1>9. ASSUME NEW c \in Clients, Vanishes(c)
      PROVE  SameStreams
  BY <1>9 DEF Vanishes, TypeOK, Stream
<1>10. CASE UNCHANGED vars
  BY <1>10 DEF vars, Stream
<1>. QED
  BY <1>1, <1>2, <1>3, <1>4, <1>5, <1>6, <1>7, <1>8, <1>9, <1>10
     DEF Next, PublisherStep, ServeStep

(* A send that finds room appends the last message to the stream; one that *)
(* finds none leaves the stream alone, and the channel was full then.      *)
LEMMA SendGrowsStream ==
  ASSUME TypeOK, Channels, OnePublishes, NEW p \in Publishers,
         NEW c \in Clients,
         PublishSends(p, c)
  PROVE  /\ UNCHANGED <<sent, msg, since>>
         /\ msg[p] = sent /\ sent \in Nat
         /\ \A d \in Clients : Connected(d)' <=> Connected(d)
         /\ \A d \in Clients \ {c} :
              Stream(d)' = Stream(d) /\ (d \in full' <=> d \in full)
         /\ \A q \in Publishers : q # p => todo'[q] = todo[q] /\ c \notin todo[q]
         /\ todo'[p] = todo[p] \ {c} /\ c \in todo[p]
         /\ \/ Stream(c)' = Append(Stream(c), sent) /\ (c \in full => c \in full')
            \/ Stream(c)' = Stream(c) /\ c \in full'
<1>1. UNCHANGED <<sent, msg, since, pc, held, got>>
  BY DEF PublishSends, serveVars
<1>2. msg[p] = sent /\ sent \in Nat
  BY DEF PublishSends, OnePublishes, TypeOK
<1>3. \A d \in Clients : Connected(d)' <=> Connected(d)
  BY <1>1 DEF Connected, Writing
<1>4. \A d \in Clients \ {c} : buf'[d] = buf[d] /\ (d \in full' <=> d \in full)
  BY DEF PublishSends, Channels
<1>5. \A d \in Clients \ {c} : Stream(d)' = Stream(d)
  BY <1>1, <1>4 DEF Stream
<1>6. /\ \A q \in Publishers : q # p => todo'[q] = todo[q] /\ c \notin todo[q]
      /\ todo'[p] = todo[p] \ {c} /\ c \in todo[p]
  BY DEF PublishSends, TypeOK, OnePublishes
<1>7. CASE HasRoom(c)
  <2>1. buf'[c] = Append(buf[c], sent)
    BY <1>2, <1>7 DEF PublishSends, Channels
  <2> DEFINE head == got[c] \o (IF pc[c] = "write" THEN <<held[c]>> ELSE <<>>)
  <2>2. head \in Seq(Nat) /\ buf[c] \in Seq(Nat)
    BY HubAssumption DEF Channels, TypeOK
  <2>3. Stream(c) = head \o buf[c] /\ Stream(c)' = head \o Append(buf[c], sent)
    BY <1>1, <2>1 DEF Stream
  <2> HIDE DEF head
  <2>4. Stream(c)' = Append(Stream(c), sent)
    BY <1>2, <2>2, <2>3, AppendEnds
  <2>5. c \in full => c \in full'
    BY DEF PublishSends
  <2>. QED
    BY <1>1, <1>2, <1>3, <1>4, <1>5, <1>6, <2>4, <2>5
<1>8. CASE ~HasRoom(c)
  <2>1. buf' = buf
    BY <1>8 DEF PublishSends
  <2>2. Len(buf[c]) \in Nat
    BY DEF Channels
  <2>3. c \in full'
    BY <1>8, <2>1, <2>2, HubAssumption DEF PublishSends, HasRoom
  <2>4. Stream(c)' = Stream(c)
    BY <1>1, <2>1 DEF Stream
  <2>. QED
    BY <1>1, <1>2, <1>3, <1>4, <1>5, <1>6, <2>3, <2>4
<1>. QED
  BY <1>7, <1>8

(* A Publish begins when no channel has anything due, and makes its        *)
(* message due in the channel of every connected browser.                  *)
LEMMA PublishMakesDue ==
  ASSUME TypeOK, OnePublishes, ServesInTurn, NEW p \in Publishers, Publish(p)
  PROVE  /\ UNCHANGED <<since, full>> /\ sent \in Nat /\ sent' = sent + 1
         /\ \A c \in Clients : (Connected(c)' <=> Connected(c)) /\ Stream(c)' = Stream(c)
         /\ \A q \in Publishers : todo[q] = {}
         /\ \A q \in Publishers : q # p => todo'[q] = {}
         /\ \A c \in Clients : Connected(c) => c \in todo'[p]
         /\ msg'[p] = sent + 1
<1> USE DEF hubVars, serveVars, history
<1>1. UNCHANGED <<since, full, buf, pc, held, got, subs>> /\ sent \in Nat /\ sent' = sent + 1
  BY DEF Publish, TypeOK
<1>2. \A c \in Clients : (Connected(c)' <=> Connected(c)) /\ Stream(c)' = Stream(c)
  BY <1>1 DEF Connected, Writing, Stream
<1>3. \A q \in Publishers : todo[q] = {}
  BY DEF Publish, OnePublishes
<1>4. todo'[p] = subs /\ msg'[p] = sent + 1 /\ \A q \in Publishers : q # p => todo'[q] = {}
  BY <1>3 DEF Publish, TypeOK
<1>. QED
  BY <1>1, <1>2, <1>3, <1>4 DEF ServesInTurn

(* A browser that connects has an empty stream, and nothing is due to it.  *)
LEMMA ConnectStartsEmpty ==
  ASSUME TypeOK, OnePublishes, ServesInTurn, Channels, NEW c \in Clients,
         Connect(c)
  PROVE  /\ UNCHANGED <<sent, msg, todo, full>> /\ sent \in Nat
         /\ Stream(c)' = <<>> /\ since'[c] = sent
         /\ \A d \in Clients \ {c} :
              (Connected(d)' <=> Connected(d)) /\ Stream(d)' = Stream(d) /\ since'[d] = since[d]
         /\ \A q \in Publishers : todo[q] = {}
<1> USE DEF hubVars, pubVars, history
<1>1. UNCHANGED <<sent, msg, todo, full, buf, held, got>> /\ sent \in Nat
  BY DEF Connect, TypeOK
<1>2. pc[c] = "off" /\ pc'[c] = "retry" /\ since'[c] = sent
  BY DEF Connect, ServeAt, TypeOK
<1>3. buf[c] = <<>> /\ got[c] = <<>>
  BY <1>2 DEF ServesInTurn
<1>4. Stream(c)' = <<>>
  <2>1. Stream(c)' = (<<>> \o <<>>) \o <<>>
    BY <1>1, <1>2, <1>3 DEF Stream
  <2>2. <<>> \in Seq(Nat)
    OBVIOUS
  <2>. QED
    BY <2>1, <2>2, ConcatEmptySeq
<1>5. ASSUME NEW d \in Clients \ {c}
      PROVE  pc'[d] = pc[d] /\ since'[d] = since[d]
  BY DEF Connect, ServeAt, TypeOK
<1>6. \A q \in Publishers : todo[q] = {}
  BY DEF Connect, OnePublishes
<1>. QED
  BY <1>1, <1>2, <1>4, <1>5, <1>6 DEF Connected, Writing, Stream

(* Every step keeps the streams in order. *)
LEMMA StreamsRiseStep ==
  TypeOK /\ Channels /\ OnePublishes /\ ServesInTurn /\ StreamsRise /\ [Next]_vars
    => StreamsRise'
<1> SUFFICES ASSUME TypeOK, Channels, OnePublishes, ServesInTurn, StreamsRise,
                    [Next]_vars,
                    NEW d \in Clients, Connected(d)'
             PROVE  /\ Rises(Stream(d)', since'[d])
                    /\ UpTo(Stream(d)', sent')
                    /\ \A q \in Publishers : d \in todo'[q] =>
                         sent' > since'[d] /\ UpTo(Stream(d)', sent' - 1)
  BY DEF StreamsRise, Rises, UpTo
<1>1. Stream(d) \in Seq(Nat) /\ sent \in Nat /\ since[d] \in Nat /\ since[d] <= sent
  BY StreamIsSeq, HubAssumption DEF TypeOK, ServesInTurn
<1>2. CASE SameStreams
  BY <1>2 DEF SameStreams, StreamsRise
<1>3. ASSUME NEW p \in Publishers, Publish(p)
      PROVE  /\ Rises(Stream(d)', since'[d])
             /\ UpTo(Stream(d)', sent')
             /\ \A q \in Publishers : d \in todo'[q] =>
                  sent' > since'[d] /\ UpTo(Stream(d)', sent' - 1)
  <2>1. Connected(d) /\ Stream(d)' = Stream(d) /\ since'[d] = since[d] /\ sent' = sent + 1
    BY <1>3, PublishMakesDue
  <2>2. Rises(Stream(d), since[d]) /\ UpTo(Stream(d), sent)
    BY <2>1 DEF StreamsRise
  <2>3. UpTo(Stream(d), sent + 1)
    BY <1>1, <2>2 DEF UpTo
  <2>4. (sent + 1) - 1 = sent /\ sent + 1 > since[d]
    BY <1>1
  <2>. QED
    BY <2>1, <2>2, <2>3, <2>4
<1>4. ASSUME NEW p \in Publishers, NEW c \in Clients, PublishSends(p, c)
      PROVE  /\ Rises(Stream(d)', since'[d])
             /\ UpTo(Stream(d)', sent')
             /\ \A q \in Publishers : d \in todo'[q] =>
                  sent' > since'[d] /\ UpTo(Stream(d)', sent' - 1)
  <2>1. Connected(d) /\ since'[d] = since[d] /\ sent' = sent
        /\ \A q \in Publishers : d \in todo'[q] => d \in todo[q] /\ d # c
    BY <1>4, SendGrowsStream
  <2>2. /\ Rises(Stream(d), since[d]) /\ UpTo(Stream(d), sent)
        /\ \A q \in Publishers : d \in todo[q] => sent > since[d] /\ UpTo(Stream(d), sent - 1)
    BY <2>1 DEF StreamsRise
  <2>3. CASE Stream(d)' = Stream(d)
    BY <2>1, <2>2, <2>3
  <2>4. CASE d = c /\ Stream(d)' = Append(Stream(d), sent)
    <3>1. sent > since[d] /\ UpTo(Stream(d), sent - 1)
      BY <1>4, <2>2, <2>4, SendGrowsStream
    <3>2. Rises(Stream(d)', since[d]) /\ UpTo(Stream(d)', sent)
      BY <1>1, <2>2, <2>4, <3>1, GrowsAtItsEnd
    <3>. QED
      BY <2>1, <2>4, <3>2
  <2>. QED
    BY <1>4, <2>3, <2>4, SendGrowsStream
<1>5. ASSUME NEW c \in Clients, Connect(c)
      PROVE  /\ Rises(Stream(d)', since'[d])
             /\ UpTo(Stream(d)', sent')
             /\ \A q \in Publishers : d \in todo'[q] =>
                  sent' > since'[d] /\ UpTo(Stream(d)', sent' - 1)
  <2>1. sent' = sent /\ \A q \in Publishers : todo'[q] = {}
    BY <1>5, ConnectStartsEmpty
  <2>2. CASE d = c
    BY <1>5, <2>1, <2>2, ConnectStartsEmpty DEF Rises, UpTo
  <2>3. CASE d # c
    BY <1>5, <2>1, <2>3, ConnectStartsEmpty DEF StreamsRise
  <2>. QED
    BY <2>2, <2>3
<1>. QED
  BY <1>2, <1>3, <1>4, <1>5, OthersKeepStreams

(* Every step keeps the streams of those that were never slow whole. *)
LEMMA StreamsAreWholeStep ==
  TypeOK /\ Channels /\ OnePublishes /\ ServesInTurn /\ StreamsRise /\ StreamsAreWhole
    /\ [Next]_vars
    => StreamsAreWhole'
<1> SUFFICES ASSUME TypeOK, Channels, OnePublishes, ServesInTurn, StreamsRise,
                    StreamsAreWhole,
                    [Next]_vars, NEW d \in Clients, Connected(d)', d \notin full'
             PROVE  Elements(Stream(d)') = (since'[d] + 1 .. sent') \ Due(d)'
  BY DEF StreamsAreWhole, Elements
<1>1. Stream(d) \in Seq(Nat) /\ sent \in Nat /\ since[d] \in Nat /\ since[d] <= sent
  BY StreamIsSeq, HubAssumption DEF TypeOK, ServesInTurn
<1>2. CASE SameStreams
  BY <1>2 DEF SameStreams, StreamsAreWhole, Due
<1>3. ASSUME NEW p \in Publishers, Publish(p)
      PROVE  Elements(Stream(d)') = (since'[d] + 1 .. sent') \ Due(d)'
  <2>1. /\ Connected(d) /\ d \notin full
        /\ Stream(d)' = Stream(d) /\ since'[d] = since[d] /\ sent' = sent + 1
    BY <1>3, PublishMakesDue
  <2>2. Due(d) = {}
    BY <1>3, PublishMakesDue DEF Due
  <2>3. Elements(Stream(d)) = since[d] + 1 .. sent
    BY <2>1, <2>2 DEF StreamsAreWhole
  <2>4. Due(d)' = {sent + 1}
    BY <1>3, <2>1, PublishMakesDue DEF Due
  <2>. QED
    BY <1>1, <2>1, <2>3, <2>4
<1>4. ASSUME NEW p \in Publishers, NEW c \in Clients, PublishSends(p, c)
      PROVE  Elements(Stream(d)') = (since'[d] + 1 .. sent') \ Due(d)'
  <2>1. Connected(d) /\ since'[d] = since[d] /\ sent' = sent /\ msg' = msg /\ d \notin full
    BY <1>4, SendGrowsStream
  <2>2. Elements(Stream(d)) = (since[d] + 1 .. sent) \ Due(d)
    BY <2>1 DEF StreamsAreWhole
  <2>3. CASE d # c
    <3>1. Due(d)' = Due(d)
      BY <1>4, <2>1, <2>3, SendGrowsStream DEF Due
    <3>. QED
      BY <1>4, <2>1, <2>2, <2>3, <3>1, SendGrowsStream
  <2>4. CASE d = c
    <3>1. Stream(d)' = Append(Stream(d), sent)
      BY <1>4, <2>4, SendGrowsStream
    <3>2. Due(d) = {sent} /\ Due(d)' = {}
      BY <1>4, <2>1, <2>4, SendGrowsStream DEF Due
    <3>3. Elements(Stream(d)') = Elements(Stream(d)) \cup {sent}
      BY <1>1, <3>1, GrowsAtItsEnd
    <3>4. sent > since[d]
      BY <1>4, <2>1, <2>4, SendGrowsStream DEF StreamsRise
    <3>. QED
      BY <1>1, <2>1, <2>2, <3>2, <3>3, <3>4
  <2>. QED
    BY <2>3, <2>4
<1>5. ASSUME NEW c \in Clients, Connect(c)
      PROVE  Elements(Stream(d)') = (since'[d] + 1 .. sent') \ Due(d)'
  <2>1. sent' = sent /\ Due(d) = {} /\ Due(d)' = {} /\ full' = full
    BY <1>5, ConnectStartsEmpty DEF Due
  <2>2. CASE d = c
    BY <1>1, <1>5, <2>1, <2>2, ConnectStartsEmpty DEF Elements
  <2>3. CASE d # c
    BY <1>5, <2>1, <2>3, ConnectStartsEmpty DEF StreamsAreWhole
  <2>. QED
    BY <2>2, <2>3
<1>. QED
  BY <1>2, <1>3, <1>4, <1>5, OthersKeepStreams

-----------------------------------------------------------------------------

(* The invariant holds at the start. *)
LEMMA InitInv == Init => Inv
<1> SUFFICES ASSUME Init
             PROVE  Inv
  OBVIOUS
<1> USE HubAssumption DEF Init
<1>1. TypeOK
  <2>1. \A c \in Clients : Len(buf[c]) = 0 /\ DOMAIN buf[c] = {}
    OBVIOUS
  <2>2. /\ pubPc \in [Publishers -> {"idle", "send"}]
        /\ msg \in [Publishers -> 0..MaxSent]
        /\ todo \in [Publishers -> SUBSET Clients]
    OBVIOUS
  <2>3. /\ pc \in [Clients -> {"off", "serve", "leave", "close", "over"} \cup Writing]
        /\ held \in [Clients -> 0..MaxSent]
        /\ since \in [Clients -> 0..MaxSent]
    OBVIOUS
  <2>4. locked \in BOOLEAN
    OBVIOUS
  <2>5. sent \in 0..MaxSent
    OBVIOUS
  <2>6. subs = {} /\ closed = {} /\ gone = {} /\ full = {} /\ 0 <= Cap
    OBVIOUS
  <2> HIDE HubAssumption DEF Init
  <2>. QED
    BY <2>1, <2>2, <2>3, <2>4, <2>5, <2>6 DEF TypeOK
<1>2. Channels
  BY DEF Channels
<1>3. OnePublishes
  BY DEF OnePublishes
<1>4. \A c \in Clients : ~Connected(c)
  BY DEF Connected, Writing
<1>5. ServesInTurn
  BY <1>4 DEF ServesInTurn
<1>. QED
  BY <1>1, <1>2, <1>3, <1>4, <1>5 DEF Inv, StreamsRise, StreamsAreWhole

(* No step of a publisher, of a connection or of a browser breaks the      *)
(* invariant.                                                              *)
THEOREM Invariance == Spec => []Inv
<1>1. Inv /\ [Next]_vars => Inv'
  BY ChannelsStep, OnePublishesStep, ServesStep, TypeStep, StreamsRiseStep,
     StreamsAreWholeStep DEF Inv
<1>. QED
  BY InitInv, <1>1, PTL DEF Spec

(* The variables keep their types, and no channel holds more than its      *)
(* capacity.                                                               *)
THEOREM TypeCorrect == Spec => []TypeOK
<1>1. Inv => TypeOK
  BY DEF Inv
<1>. QED
  BY Invariance, <1>1, PTL

(* No Publish meets a closed channel: what it has yet to visit is          *)
(* subscribed as long as it holds the lock, and a connection closes its    *)
(* channel after it has unsubscribed.                                      *)
THEOREM NeverSendsOnClosed == Spec => []NoSendOnClosed
<1>1. Inv => NoSendOnClosed
  <2> SUFFICES ASSUME Inv
               PROVE  NoSendOnClosed
    OBVIOUS
  <2>1. closed \subseteq Clients /\ subs \subseteq Clients
    BY DEF Inv, TypeOK
  <2>2. \A c \in Clients : c \in closed => c \notin subs
    BY DEF Inv, ServesInTurn, Connected, Writing
  <2>3. \A p \in Publishers : todo[p] \subseteq subs
    BY DEF Inv, OnePublishes
  <2>. QED
    BY <2>1, <2>2, <2>3 DEF NoSendOnClosed
<1>. QED
  BY Invariance, <1>1, PTL

(* Whatever a browser gets, it gets once, in the order of publication, and *)
(* nothing from before it connected.                                       *)
THEOREM DeliveredInOrder == Spec => []InOrder
<1>1. Inv => InOrder
  BY DEF Inv, StreamsRise, Rises, InOrder
<1>. QED
  BY Invariance, <1>1, PTL

(* Between two sends, a browser whose channel was never full has got, or   *)
(* has coming, everything published since it connected, but for the        *)
(* message that a Publish has yet to hand to it.                           *)
THEOREM QuickOnesMissNothing == Spec => []OnlySlowOnesMiss
<1>1. Inv => OnlySlowOnesMiss
  BY DEF Inv, StreamsAreWhole, Elements, Due, OnlySlowOnesMiss
<1>. QED
  BY Invariance, <1>1, PTL
=============================================================================
