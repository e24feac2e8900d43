-------------------------------- MODULE Hub --------------------------------
(***************************************************************************)
(* The fan-out of server-sent events (sse.go): publishers hand a message   *)
(* to every subscribed channel without ever waiting for a reader, and one  *)
(* goroutine per connection writes its channel to a browser that may stall *)
(* or vanish. A message is its number in the order of publication.         *)
(***************************************************************************)
EXTENDS Naturals, Sequences

CONSTANTS
  Publishers,  \* goroutines that call Publish: pumps, handlers, the loop
  Clients,     \* connections of /events, each with a channel of its own
  Cap,         \* capacity of a channel (256 in the code)
  MaxSent      \* bound: messages published

ASSUME HubAssumption == Cap \in Nat \ {0} /\ MaxSent \in Nat

VARIABLES
  locked,  \* Hub.mu is held by a Publish
  subs,    \* Hub.subs
  buf,     \* the messages in each channel
  closed,  \* the channels that were closed
  sent,    \* the number of the last message published
  pubPc,   \* each publisher
  msg,     \* the message it publishes
  todo,    \* the channels its loop has yet to visit
  pc,      \* each connection's Serve
  held,    \* the message it has received and writes
  gone,    \* the browsers that have left
  since,   \* history: the last message published before it subscribed
  got,     \* history: what was written to it
  full     \* history: the channels that were full once

hubVars == <<locked, subs, buf, closed>>
pubVars == <<sent, pubPc, msg, todo>>
serveVars == <<pc, held, gone>>
history == <<since, got, full>>
vars == <<hubVars, pubVars, serveVars, history>>

Writing == {"retry", "write", "beat"}

TypeOK ==
  /\ locked \in BOOLEAN
  /\ subs \subseteq Clients
  /\ \A c \in Clients : Len(buf[c]) <= Cap /\ \A i \in DOMAIN buf[c] : buf[c][i] \in 1..sent
  /\ closed \subseteq Clients
  /\ sent \in 0..MaxSent
  /\ pubPc \in [Publishers -> {"idle", "send"}]
  /\ msg \in [Publishers -> 0..MaxSent]
  /\ todo \in [Publishers -> SUBSET Clients]
  /\ pc \in [Clients -> {"off", "serve", "leave", "close", "over"} \cup Writing]
  /\ held \in [Clients -> 0..MaxSent]
  /\ gone \subseteq Clients
  /\ since \in [Clients -> 0..MaxSent]
  /\ full \subseteq Clients

Init ==
  /\ locked = FALSE /\ subs = {} /\ closed = {}
  /\ buf = [c \in Clients |-> <<>>]
  /\ sent = 0
  /\ pubPc = [p \in Publishers |-> "idle"]
  /\ msg = [p \in Publishers |-> 0]
  /\ todo = [p \in Publishers |-> {}]
  /\ pc = [c \in Clients |-> "off"]
  /\ held = [c \in Clients |-> 0]
  /\ gone = {}
  /\ since = [c \in Clients |-> 0]
  /\ got = [c \in Clients |-> <<>>]
  /\ full = {}

PubAt(p, s) == pubPc' = [pubPc EXCEPT ![p] = s]
ServeAt(c, s) == pc' = [pc EXCEPT ![c] = s]

-----------------------------------------------------------------------------
(* Publish. *)

(* Mutant: the subscribers are copied and visited without the lock. *)
PublishFromCopy(p) ==
  /\ pubPc[p] = "idle"
  /\ ~locked
  /\ sent < MaxSent
  /\ sent' = sent + 1
  /\ msg' = [msg EXCEPT ![p] = sent + 1]
  /\ todo' = [todo EXCEPT ![p] = subs]
  /\ PubAt(p, "send")
  /\ UNCHANGED <<hubVars, serveVars, history>>

Publish(p) ==
  /\ pubPc[p] = "idle"
  /\ ~locked
  /\ sent < MaxSent
  /\ locked' = TRUE
  /\ sent' = sent + 1
  /\ msg' = [msg EXCEPT ![p] = sent + 1]
  /\ todo' = [todo EXCEPT ![p] = subs]
  /\ PubAt(p, "send")
  /\ UNCHANGED <<subs, buf, closed, serveVars, history>>

(* Mutants: a channel made for one message more, or for one less. *)
RoomForOneMore(c) == Len(buf[c]) <= Cap
RoomForOneLess(c) == Len(buf[c]) + 1 < Cap

HasRoom(c) == Len(buf[c]) < Cap

(* Mutant: a full channel is waited for. *)
PublishWaits(p, c) ==
  /\ pubPc[p] = "send" /\ c \in todo[p]
  /\ HasRoom(c)
  /\ todo' = [todo EXCEPT ![p] = @ \ {c}]
  /\ buf' = [buf EXCEPT ![c] = Append(@, msg[p])]
  /\ full' = IF Len(buf'[c]) >= Cap THEN full \cup {c} ELSE full
  /\ UNCHANGED <<locked, subs, closed, sent, pubPc, msg, serveVars, since, got>>

(* One turn of the loop, in the order of a map: a full channel is skipped. *)
PublishSends(p, c) ==
  /\ pubPc[p] = "send" /\ c \in todo[p]
  /\ todo' = [todo EXCEPT ![p] = @ \ {c}]
  /\ buf' = IF HasRoom(c) THEN [buf EXCEPT ![c] = Append(@, msg[p])] ELSE buf
  /\ full' = IF Len(buf'[c]) >= Cap THEN full \cup {c} ELSE full
  /\ UNCHANGED <<locked, subs, closed, sent, pubPc, msg, serveVars, since, got>>

PublishEnds(p) ==
  /\ pubPc[p] = "send" /\ todo[p] = {}
  /\ locked' = FALSE
  /\ PubAt(p, "idle")
  /\ UNCHANGED <<subs, buf, closed, sent, msg, todo, serveVars, history>>

-----------------------------------------------------------------------------
(* Subscribe and Serve. *)

Connect(c) ==
  /\ pc[c] = "off" /\ c \notin subs
  /\ ~locked
  /\ subs' = subs \cup {c}
  /\ since' = [since EXCEPT ![c] = sent]
  /\ ServeAt(c, "retry")
  /\ UNCHANGED <<locked, buf, closed, pubVars, held, gone, got, full>>

Receive(c) ==
  /\ pc[c] = "serve"
  /\ buf[c] # <<>>
  /\ held' = [held EXCEPT ![c] = Head(buf[c])]
  /\ buf' = [buf EXCEPT ![c] = Tail(@)]
  /\ ServeAt(c, "write")
  /\ UNCHANGED <<locked, subs, closed, pubVars, gone, history>>

(* Mutant: quiet connections are left alone. *)
NoHeartbeat(c) == FALSE /\ UNCHANGED vars

Heartbeat(c) ==
  /\ pc[c] = "serve"
  /\ ServeAt(c, "beat")
  /\ UNCHANGED <<hubVars, pubVars, held, gone, history>>

(* A browser that stalls delays it; to one just gone it may succeed. *)
WriteSucceeds(c) ==
  /\ pc[c] \in Writing
  /\ got' = IF pc[c] = "write" THEN [got EXCEPT ![c] = Append(@, held[c])] ELSE got
  /\ ServeAt(c, "serve")
  /\ UNCHANGED <<hubVars, pubVars, held, gone, since, full>>

WriteFails(c) ==
  /\ pc[c] \in Writing /\ c \in gone
  /\ ServeAt(c, "leave")
  /\ UNCHANGED <<hubVars, pubVars, held, gone, history>>

(* ctx.Done: the server may notice by itself that the client left. *)
Cancelled(c) ==
  /\ pc[c] = "serve" /\ c \in gone
  /\ ServeAt(c, "leave")
  /\ UNCHANGED <<hubVars, pubVars, held, gone, history>>

(* Mutant: the channel is closed, then forgotten. *)
CloseFirst(c) ==
  /\ pc[c] = "leave"
  /\ closed' = closed \cup {c}
  /\ ServeAt(c, "close")
  /\ UNCHANGED <<locked, subs, buf, pubVars, held, gone, history>>

Unsubscribe(c) ==
  /\ pc[c] = "leave"
  /\ ~locked
  /\ subs' = subs \ {c}
  /\ ServeAt(c, "close")
  /\ UNCHANGED <<locked, buf, closed, pubVars, held, gone, history>>

(* The channel, and what was in it, is garbage now. *)
CloseChannel(c) ==
  /\ pc[c] = "close"
  /\ closed' = closed \cup {c}
  /\ buf' = [buf EXCEPT ![c] = <<>>]
  /\ held' = [held EXCEPT ![c] = 0]
  /\ got' = [got EXCEPT ![c] = <<>>]
  /\ full' = full \ {c}
  /\ ServeAt(c, "over")
  /\ UNCHANGED <<locked, subs, pubVars, gone, since>>

(* The browser. *)
Vanishes(c) ==
  /\ pc[c] # "off" /\ c \notin gone
  /\ gone' = gone \cup {c}
  /\ UNCHANGED <<hubVars, pubVars, pc, held, history>>

-----------------------------------------------------------------------------

PublisherStep(p) == PublishEnds(p) \/ \E c \in Clients : PublishSends(p, c)

ServeStep(c) == Receive(c) \/ Heartbeat(c) \/ Unsubscribe(c) \/ CloseChannel(c)

Next ==
  \/ \E p \in Publishers : Publish(p) \/ PublisherStep(p)
  \/ \E c \in Clients :
       \/ Connect(c) \/ ServeStep(c) \/ WriteSucceeds(c) \/ WriteFails(c)
       \/ Cancelled(c) \/ Vanishes(c)

Spec == Init /\ [][Next]_vars

(* Goroutines run on, a waiting Lock gets its turn, the ticker fires, and  *)
(* of the writes to a browser that is gone one fails in the end. Nobody    *)
(* has to publish, and a browser that is there may stall a write for ever. *)
Fairness ==
  /\ \A p \in Publishers : WF_vars(PublisherStep(p))
  /\ \A c \in Clients :
       /\ WF_vars(ServeStep(c)) /\ SF_vars(Heartbeat(c)) /\ SF_vars(Unsubscribe(c))
       /\ WF_vars(c \in gone /\ WriteSucceeds(c)) /\ SF_vars(WriteFails(c))

FairSpec == Spec /\ Fairness

-----------------------------------------------------------------------------
(* No Publish can meet a closed channel, which would crash the program:    *)
(* a connection forgets its channel before it closes it, and not while a   *)
(* Publish walks the map (sse.go:54-59, 67-74).                            *)
NoSendOnClosed ==
  /\ closed \cap subs = {}
  /\ \A p \in Publishers : closed \cap todo[p] = {}

Connected(c) == pc[c] = "serve" \/ pc[c] \in Writing

(* What a connected browser got or has coming. *)
Stream(c) == got[c] \o (IF pc[c] = "write" THEN <<held[c]>> ELSE <<>>) \o buf[c]

(* Nobody gets a message twice, out of order or from before its time: the  *)
(* pages append what they get to the console (html.templ:136).             *)
InOrder == \A c \in Clients : Connected(c) =>
  LET s == Stream(c)
  IN \A i \in DOMAIN s : s[i] > since[c] /\ (i > 1 => s[i] > s[i - 1])

(* A connection whose channel was never full misses nothing; only slow     *)
(* subscribers are skipped (sse.go:64).                                    *)
OnlySlowOnesMiss == \A c \in Clients : Connected(c) /\ c \notin full =>
  {Stream(c)[i] : i \in DOMAIN Stream(c)} =
    (since[c] + 1 .. sent) \ {msg[p] : p \in {q \in Publishers : c \in todo[q]}}

(* Publish returns, however long the browsers stall: a pump is never held  *)
(* up by a page (sse.go:65).                                               *)
PublishReturns == \A p \in Publishers : pubPc[p] = "send" ~> pubPc[p] = "idle"

(* The connection of a browser that is gone is given up, be it ever so     *)
(* quiet (sse.go:12).                                                      *)
GoneIsReaped == \A c \in Clients : c \in gone ~> pc[c] = "over"
=============================================================================
