------------------------------- MODULE IpcBus -------------------------------
(***************************************************************************)
(* The IPC bus: IpcService, driven by the supervisor's poll loop, and the  *)
(* IpcClient of every process that connects to its unix socket.            *)
(*                                                                         *)
(* A member of Conns is one connection, from connect() to disconnect();    *)
(* an element of Fds is a descriptor number of the server, which the       *)
(* kernel gives out again once it is closed.  Messages are frames: one     *)
(* that is received in part has not arrived, one that the server has sent  *)
(* in part is still queued, and one that a client has given up sending     *)
(* halfway is not whole.  The descriptors an event may carry are left out. *)
(***************************************************************************)
EXTENDS Naturals, Subsequences

CONSTANTS Conns,      \* the connections
          Fds,        \* the server's descriptor numbers
          Topics,     \* the topics
          NoConn,     \* the peer of a descriptor that is not open
          NoFd,       \* the loop is not inside on_fd_ready
          NoFrame,    \* no reply is awaited, or no event is published
          MaxEvents,  \* bound: events published in a behaviour
          MaxCalls,   \* bound: calls with a reply made on one connection
          SockCap     \* bound: frames a socket buffer holds

ASSUME BoundsAssumption == /\ MaxEvents \in Nat /\ MaxCalls \in Nat
                           /\ SockCap \in Nat \ {0}
ASSUME NoneAssumption == NoConn \notin Conns /\ NoFd \notin Fds /\ "none" \notin Topics

VARIABLES
  \* the kernel
  backlog,       \* connections waiting for accept4
  fdOf,          \* per descriptor, the connection it is the server's end of
  up, down,      \* per connection, frames on their way to the server, back
  \* the client of each connection
  mode,          \* "idle" before connect, "framed" or "legacy", then "closed"
  nextId,        \* nextId_
  waiting,       \* the reply a blocking call waits for
  cliBuf,        \* rbuf_: frames read and not decoded yet
  \* IpcService
  pending,       \* pending_: descriptors whose dialect is not known yet
  clients,       \* the keys of clients_
  srvBuf, out, wantPollOut,  \* per descriptor, the fields of its Client
  subscriptions, \* subscriptions_
  \* the poll loop
  pc,            \* where the loop is inside on_fd_ready
  accepting,     \* the listen descriptor was readable and is being served
  ready,         \* per descriptor, the revents not handled yet this round
  cur, rev,      \* the descriptor being handled, and its revents
  serial,        \* events published so far; numbers the events
  \* history
  unsent,        \* per connection, the ids of which nothing was sent
  swallowed      \* frames of it were taken for the rest of one cut short

kernel == <<backlog, fdOf, up, down>>
history == <<unsent, swallowed>>
client == <<mode, nextId, waiting, cliBuf, history>>
bus    == <<pending, clients, srvBuf, out, wantPollOut, subscriptions>>
loop   == <<pc, accepting, ready, cur, rev>>
vars   == <<kernel, client, bus, loop, serial>>

-----------------------------------------------------------------------------
(* Frames.                                                                  *)
NoTopic == "none"
Types == {"request", "response", "event", "ack", "subscribe", "unsubscribe",
          "line", "unknown", "corrupt"}
Frames == [type : Types, id : Nat, topic : Topics \cup {NoTopic}, whole : BOOLEAN]

Frame(type, id, topic) ==
  [type |-> type, id |-> id, topic |-> topic, whole |-> TRUE]
Event(topic, n) == Frame("event", n, topic)
UntypedResponse(id) == Frame("unset", id, NoTopic)
Response(id)    == Frame("response", id, NoTopic)
Ack(id)         == Frame("ack", id, NoTopic)
Unknown         == Frame("unknown", 0, NoTopic)  \* its version or type is garbled
Corrupt         == Frame("corrupt", 0, NoTopic)  \* too long, or not a frame
IsEvent(f)      == f.type = "event"

Attached(k)  == \E fd \in Fds : fdOf[fd] = k
Connected(k) == k \in backlog \/ Attached(k)
Opened(k)    == mode[k] \in {"framed", "legacy"}
Eof(k)       == Opened(k) /\ ~Connected(k)
Free         == {fd \in Fds : fdOf[fd] = NoConn}

Init ==
  /\ backlog = {} /\ fdOf = [fd \in Fds |-> NoConn]
  /\ up = [k \in Conns |-> <<>>] /\ down = [k \in Conns |-> <<>>]
  /\ mode = [k \in Conns |-> "idle"] /\ nextId = [k \in Conns |-> 1]
  /\ waiting = [k \in Conns |-> NoFrame] /\ cliBuf = [k \in Conns |-> <<>>]
  /\ pending = {} /\ clients = {}
  /\ srvBuf = [fd \in Fds |-> <<>>] /\ out = [fd \in Fds |-> <<>>]
  /\ wantPollOut = [fd \in Fds |-> FALSE]
  /\ subscriptions = [t \in Topics |-> {}]
  /\ unsent = [k \in Conns |-> {}] /\ swallowed = [k \in Conns |-> FALSE]
  /\ pc = "loop" /\ accepting = FALSE /\ ready = [fd \in Fds |-> {}]
  /\ cur = NoFd /\ rev = {}
  /\ serial = 0

-----------------------------------------------------------------------------
(* The clients.                                                             *)

(* connect(): the server's side of the connection waits in the backlog.     *)
Connect(k, m) ==
  /\ mode[k] = "idle" /\ pc # "stopped"
  /\ mode' = [mode EXCEPT ![k] = m]
  /\ backlog' = backlog \cup {k}
  /\ UNCHANGED <<fdOf, up, down, nextId, waiting, cliBuf, history, bus, loop,
                 serial>>

(* write_all of one frame by a client that is not inside a blocking call.   *)
(* It gives up when there is no room for its timeout, with a part of the    *)
(* frame sent or nothing, and when the connection is gone.                  *)
Full(k) == Len(up[k]) >= SockCap

Put(k, f) == up' = [up EXCEPT ![k] = Append(@, f)]

Send(k, f) ==
  /\ waiting[k] = NoFrame /\ Connected(k) /\ ~Full(k)
  /\ Put(k, f)
  /\ UNCHANGED <<backlog, fdOf, down, mode, cliBuf, history, bus, loop>>

SendPart(k, f) ==
  /\ waiting[k] = NoFrame /\ Connected(k)
  /\ Put(k, [f EXCEPT !.whole = FALSE])
  /\ UNCHANGED <<backlog, fdOf, down, mode, waiting, cliBuf, history, bus, loop>>

SendNothing(k) ==
  /\ waiting[k] = NoFrame /\ (Connected(k) => Full(k))
  /\ UNCHANGED <<kernel, mode, waiting, cliBuf, swallowed, bus, loop>>

(* A frame that carries the next id, which is taken also when the write     *)
(* fails; when it does not, a blocking call waits for the reply.            *)
Call(k, type, topic, reply) ==
  /\ mode[k] = "framed" /\ nextId[k] <= MaxCalls
  /\ nextId' = [nextId EXCEPT ![k] = @ + 1]
  /\ LET f == Frame(type, nextId[k], topic)
     IN  \/ Send(k, f) /\ waiting' = [waiting EXCEPT ![k] = reply]
         \/ SendPart(k, f)
         \/ SendNothing(k) /\ unsent' = [unsent EXCEPT ![k] = @ \cup {nextId[k]}]
  /\ UNCHANGED serial

Request(k)        == Call(k, "request", NoTopic, Response(nextId[k]))
Subscribe(k, t)   == Call(k, "subscribe", t, Ack(nextId[k]))
SubscribeAsync(k, t) == Call(k, "subscribe", t, NoFrame)
Unsubscribe(k, t) == Call(k, "unsubscribe", t, Ack(nextId[k]))

(* publish(): no id, no answer.  A body over kMaxFrameBody is sent all the  *)
(* same, and its length alone is enough for the server.                     *)
ClientPublish(k, t) ==
  /\ mode[k] = "framed" /\ serial < MaxEvents
  /\ \/ \E f \in {Event(t, serial + 1), Corrupt} : Send(k, f)
     \/ SendPart(k, Event(t, serial + 1))
     \/ SendNothing(k) /\ UNCHANGED history
  /\ serial' = serial + 1
  /\ UNCHANGED <<nextId, waiting>>

(* The one command line of a legacy connection.                             *)
LegacyCommand(k) ==
  /\ mode[k] = "legacy" /\ nextId[k] = 1
  /\ Send(k, Frame("line", 0, NoTopic))
  /\ nextId' = [nextId EXCEPT ![k] = 2]
  /\ UNCHANGED <<waiting, serial>>

(* disconnect(), or the death of the process.                               *)
Disconnected(k) ==
  /\ mode' = [mode EXCEPT ![k] = "closed"]
  /\ down' = [down EXCEPT ![k] = <<>>]
  /\ cliBuf' = [cliBuf EXCEPT ![k] = <<>>]
  /\ waiting' = [waiting EXCEPT ![k] = NoFrame]

Disconnect(k) ==
  /\ Opened(k)
  /\ Disconnected(k)
  /\ UNCHANGED <<backlog, fdOf, up, nextId, history, bus, loop, serial>>

(* Inside a blocking call, pump_frame takes one frame from rbuf_: the reply *)
(* ends the call, an event goes to the handler, another reply is dropped.   *)
TakesAnyReply(k) == Head(cliBuf[k]).type = waiting[k].type
TakesReply(k) == Head(cliBuf[k]) = waiting[k]

PumpFrame(k) ==
  /\ waiting[k] # NoFrame /\ cliBuf[k] # <<>>
  /\ waiting' = [waiting EXCEPT ![k] = IF TakesReply(k) THEN NoFrame ELSE @]
  /\ cliBuf' = [cliBuf EXCEPT ![k] = Tail(@)]
  /\ UNCHANGED <<kernel, mode, nextId, history, bus, loop, serial>>

(* When rbuf_ holds no frame it reads all there is; at the end of the file  *)
(* the call fails at once.                                                  *)
WaitsOn(k) == waiting[k]
AfterRead(k) == IF Eof(k) THEN NoFrame ELSE waiting[k]

PumpRead(k) ==
  /\ waiting[k] # NoFrame /\ cliBuf[k] = <<>>
  /\ down[k] # <<>> \/ Eof(k)
  /\ cliBuf' = [cliBuf EXCEPT ![k] = down[k]]
  /\ down' = [down EXCEPT ![k] = <<>>]
  /\ waiting' = [waiting EXCEPT ![k] = AfterRead(k)]
  /\ UNCHANGED <<backlog, fdOf, up, mode, nextId, history, bus, loop, serial>>

Timeout(k) ==
  /\ waiting[k] # NoFrame
  /\ waiting' = [waiting EXCEPT ![k] = NoFrame]
  /\ UNCHANGED <<kernel, mode, nextId, cliBuf, history, bus, loop, serial>>

(* The client's poll loop found the socket readable: every frame is         *)
(* decoded, the events among them go to the handler.  At the end of the     *)
(* file the client disconnects, before it decodes what it has just read.    *)
Framed(k) == mode[k] = "framed"
InPollLoop(k) == mode[k] = "framed" /\ waiting[k] = NoFrame

OnFdReady(k) ==
  /\ InPollLoop(k)
  /\ down[k] # <<>> \/ Eof(k)
  /\ IF Eof(k)
     THEN Disconnected(k)
     ELSE /\ down' = [down EXCEPT ![k] = <<>>]
          /\ cliBuf' = [cliBuf EXCEPT ![k] = <<>>]
          /\ UNCHANGED <<mode, waiting>>
  /\ UNCHANGED <<backlog, fdOf, up, nextId, history, bus, loop, serial>>

-----------------------------------------------------------------------------
(* The server's poll loop.  A round takes the revents of every descriptor   *)
(* at once, then handles them one by one: what it handles may be old.       *)
Readable(fd) == up[fdOf[fd]] # <<>> \/ mode[fdOf[fd]] = "closed"
Writable(fd) == Len(down[fdOf[fd]]) < SockCap \/ mode[fdOf[fd]] = "closed"

(* poll_interests: POLLOUT is asked for only while something is queued.     *)
WantsOutLate(fd) == fd \in clients /\ Len(out[fd]) > 1
WantsOut(fd) == fd \in clients /\ (wantPollOut[fd] \/ out[fd] # <<>>)

Revents(fd) ==
  IF fd \notin pending \cup clients THEN {}
  ELSE {r \in {"in", "out", "hup"} :
          \/ r = "in"  /\ Readable(fd)
          \/ r = "out" /\ WantsOut(fd) /\ Writable(fd)
          \/ r = "hup" /\ mode[fdOf[fd]] = "closed"}

RoundOver == pc = "loop" /\ ~accepting /\ \A fd \in Fds : ready[fd] = {}

Poll ==
  /\ RoundOver
  /\ backlog # {} \/ \E fd \in Fds : Revents(fd) # {}
  /\ accepting' = (backlog # {})
  /\ ready' = [fd \in Fds |-> Revents(fd)]
  /\ UNCHANGED <<kernel, client, bus, pc, cur, rev, serial>>

(* on_accept, one connection at a time; the listen descriptor is the first  *)
(* one handled.  It ends when nobody waits or no descriptor is left.        *)
Accept ==
  /\ accepting
  /\ \E k \in backlog, fd \in Free :
       /\ fdOf' = [fdOf EXCEPT ![fd] = k]
       /\ backlog' = backlog \ {k}
       /\ pending' = pending \cup {fd}
  /\ UNCHANGED <<up, down, client, clients, srvBuf, out, wantPollOut,
                 subscriptions, loop, serial>>

AcceptEnds ==
  /\ accepting /\ (backlog = {} \/ Free = {})
  /\ accepting' = FALSE
  /\ UNCHANGED <<kernel, client, bus, pc, ready, cur, rev, serial>>

(* close() of descriptors: unread input is lost with them.                  *)
Leak(S) == UNCHANGED <<fdOf, up>>
Close(S) ==
  /\ fdOf' = [fd \in Fds |-> IF fd \in S THEN NoConn ELSE fdOf[fd]]
  /\ up' = [k \in Conns |-> IF \E fd \in S : fdOf[fd] = k THEN <<>>
                                                          ELSE up[k]]

Return == pc' = "loop" /\ cur' = NoFd /\ rev' = {}

(* on_fd_ready starts by closing the parked connections older than 10 s,    *)
(* which may be any of them.                                                *)
Expire(fd) ==
  /\ pc = "loop" /\ ~accepting /\ ready[fd] # {}
  /\ \E expired \in SUBSET pending :
       /\ pending' = pending \ expired
       /\ Close(expired)
  /\ pc' = "resolve" /\ cur' = fd /\ rev' = ready[fd]
  /\ ready' = [ready EXCEPT ![fd] = {}]
  /\ UNCHANGED <<backlog, down, client, clients, srvBuf, out, wantPollOut,
                 subscriptions, accepting, serial>>

(* Then a parked connection chooses its dialect by its first byte, unless   *)
(* the peer has hung up.                                                    *)
ParkedHungUp ==
  /\ pc = "resolve" /\ cur \in pending /\ "hup" \in rev
  /\ pending' = pending \ {cur}
  /\ Close({cur})
  /\ Return
  /\ UNCHANGED <<backlog, down, client, clients, srvBuf, out, wantPollOut,
                 subscriptions, accepting, ready, serial>>

IsLine(k) == up[k] # <<>> /\ Head(up[k]).type = "line"

ParkedFramed ==
  /\ pc = "resolve" /\ cur \in pending /\ "hup" \notin rev
  /\ ~IsLine(fdOf[cur])
  /\ pending' = pending \ {cur}
  /\ clients' = clients \cup {cur}
  /\ UNCHANGED <<kernel, client, srvBuf, out, wantPollOut, subscriptions, loop,
                 serial>>

(* publish: the event is queued for every subscriber, or nothing happens.   *)
NewEvents == {NoFrame} \cup
  {Event(t, serial + 1) : t \in IF serial < MaxEvents THEN Topics ELSE {}}
Everyone(e) == IF e = NoFrame THEN {} ELSE clients
Recipients(e) == IF e = NoFrame \/ e.topic \notin Topics THEN {}
                 ELSE clients \cap subscriptions[e.topic]
Published(e) == [fd \in Fds |-> IF fd \in Recipients(e) THEN Append(out[fd], e)
                                                        ELSE out[fd]]
Woken(e)     == [fd \in Fds |-> wantPollOut[fd] \/ fd \in Recipients(e)]
Numbered(e)  == serial' = IF e = NoFrame THEN serial ELSE serial + 1

(* dispatch_legacy: process_command, whose handler may publish, one answer, *)
(* and the connection is closed.                                            *)
ParkedLegacy ==
  /\ pc = "resolve" /\ cur \in pending /\ "hup" \notin rev
  /\ IsLine(fdOf[cur])
  /\ pending' = pending \ {cur}
  /\ Close({cur})
  /\ \E e \in NewEvents :
       out' = Published(e) /\ wantPollOut' = Woken(e) /\ Numbered(e)
  /\ down' = [down EXCEPT ![fdOf[cur]] = IF mode[fdOf[cur]] = "closed" THEN @
                                         ELSE Append(@, Response(0))]
  /\ Return
  /\ UNCHANGED <<backlog, client, clients, srvBuf, subscriptions, accepting,
                 ready>>

(* A descriptor closed since the round began is ignored.                    *)
Ignore ==
  /\ pc = "resolve" /\ cur \notin pending \cup clients
  /\ Return
  /\ UNCHANGED <<kernel, client, bus, accepting, ready, serial>>

(* close_client.                                                            *)
SubscriptionsKept(fd) == subscriptions
Unsubscribed(fd) == [t \in Topics |-> subscriptions[t] \ {fd}]

DropClient(fd) ==
  /\ clients' = clients \ {fd}
  /\ subscriptions' = Unsubscribed(fd)
  /\ srvBuf' = [srvBuf EXCEPT ![fd] = <<>>]
  /\ out' = [out EXCEPT ![fd] = <<>>]
  /\ wantPollOut' = [wantPollOut EXCEPT ![fd] = FALSE]
  /\ Close({fd})
  /\ Return
  /\ UNCHANGED <<backlog, down, client, pending, accepting, ready, serial>>

HungUp == pc = "resolve" /\ cur \in clients /\ "hup" \in rev /\ DropClient(cur)

(* recv of up to 64 KiB: some of the frames that have arrived.              *)
Receive ==
  /\ pc = "resolve" /\ cur \in clients /\ "hup" \notin rev /\ "in" \in rev
  /\ LET k == fdOf[cur] IN
     \E n \in 1 .. Len(up[k]) :
       /\ srvBuf' = [srvBuf EXCEPT ![cur] = @ \o SubSeq(up[k], 1, n)]
       /\ up' = [up EXCEPT ![k] = SubSeq(@, n + 1, Len(@))]
  /\ pc' = "frames"
  /\ UNCHANGED <<backlog, fdOf, down, client, pending, clients, out,
                 wantPollOut, subscriptions, accepting, ready, cur, rev, serial>>

NothingToRead ==
  /\ pc = "resolve" /\ cur \in clients /\ rev = {"out"}
  /\ pc' = "flush"
  /\ UNCHANGED <<kernel, client, bus, accepting, ready, cur, rev, serial>>

(* The decode loop takes the frames one by one; after the last one comes    *)
(* the flush, if POLLOUT was reported.                                      *)
frame == Head(srvBuf[cur])

FramesEnd == IF "out" \in rev THEN pc' = "flush" /\ UNCHANGED <<cur, rev>>
                              ELSE Return

TakeFrame ==
  /\ srvBuf' = [srvBuf EXCEPT ![cur] = Tail(@)]
  /\ IF Len(srvBuf[cur]) > 1 THEN UNCHANGED <<pc, cur, rev>> ELSE FramesEnd
  /\ UNCHANGED <<kernel, client, pending, clients, accepting, ready>>

AtFrame(type) == pc = "frames" /\ frame.whole /\ frame.type = type

(* A frame cut short waits for more bytes.  What the client has sent after  *)
(* it will be taken for its rest, to the end of a frame or to the middle of *)
(* one, where no frame begins.  By then its body is another, in which at    *)
(* most the topic of an event is left, and so may be its header.            *)
FrameWaits ==
  /\ pc = "frames" /\ ~frame.whole
  /\ FramesEnd
  /\ UNCHANGED <<kernel, client, bus, accepting, ready, serial>>

Completed(f) == IF IsEvent(f) THEN [f EXCEPT !.whole = TRUE]
                ELSE [f EXCEPT !.whole = TRUE, !.topic = NoTopic]

FrameCompletes ==
  /\ pc = "frames" /\ ~frame.whole
  /\ \E n \in 2 .. Len(srvBuf[cur]), f \in {Completed(frame), Unknown, Corrupt},
        rest \in {<<>>, <<Corrupt>>} :
       srvBuf' = [srvBuf EXCEPT
                    ![cur] = <<f>> \o rest \o SubSeq(@, n + 1, Len(@))]
  /\ swallowed' = [swallowed EXCEPT ![fdOf[cur]] = TRUE]
  /\ UNCHANGED <<kernel, mode, nextId, waiting, cliBuf, unsent, pending, clients,
                 out, wantPollOut, subscriptions, loop, serial>>

ReplyFirst(o, f) == out' = [o EXCEPT ![cur] = <<f>> \o @]
Reply(o, f) == out' = [o EXCEPT ![cur] = Append(@, f)]

(* process_command may publish before it answers.                           *)
HandleRequest ==
  /\ AtFrame("request") /\ TakeFrame
  /\ \E e \in NewEvents :
       /\ Reply(Published(e), Response(frame.id))
       /\ wantPollOut' = [Woken(e) EXCEPT ![cur] = TRUE]
       /\ Numbered(e)
  /\ UNCHANGED subscriptions

Acknowledge ==
  /\ Reply(out, Ack(frame.id))
  /\ wantPollOut' = [wantPollOut EXCEPT ![cur] = TRUE]
  /\ UNCHANGED serial

HandleSubscribe ==
  /\ AtFrame("subscribe") /\ TakeFrame
  /\ subscriptions' = [t \in Topics |-> IF t = frame.topic
                                        THEN subscriptions[t] \cup {cur}
                                        ELSE subscriptions[t]]
  /\ Acknowledge

HandleUnsubscribe ==
  /\ AtFrame("unsubscribe") /\ TakeFrame
  /\ subscriptions' = [t \in Topics |-> IF t = frame.topic
                                        THEN subscriptions[t] \ {cur}
                                        ELSE subscriptions[t]]
  /\ Acknowledge

HandleEvent ==
  /\ AtFrame("event") /\ TakeFrame
  /\ out' = Published(frame) /\ wantPollOut' = Woken(frame)
  /\ UNCHANGED <<subscriptions, serial>>

HandleUnknown ==
  /\ AtFrame("unknown") /\ TakeFrame
  /\ UNCHANGED <<out, wantPollOut, subscriptions, serial>>

(* decode_frame finds no frame or rejects its length: the connection is     *)
(* dropped.                                                                 *)
HandleCorrupt == AtFrame("corrupt") /\ DropClient(cur)

(* flush_client: sendmsg until the queue is empty or the socket is full.    *)
Sent == LET room == SockCap - Len(down[fdOf[cur]])
        IN IF room < Len(out[cur]) THEN room ELSE Len(out[cur])

StaysWanted(n) == TRUE
StillWanted(n) == n < Len(out[cur])

Flush ==
  /\ pc = "flush" /\ mode[fdOf[cur]] # "closed"
  /\ down' = [down EXCEPT ![fdOf[cur]] = @ \o SubSeq(out[cur], 1, Sent)]
  /\ out' = [out EXCEPT ![cur] = SubSeq(@, Sent + 1, Len(@))]
  /\ wantPollOut' = [wantPollOut EXCEPT ![cur] = StillWanted(Sent)]
  /\ Return
  /\ UNCHANGED <<backlog, fdOf, up, client, pending, clients, srvBuf,
                 subscriptions, accepting, ready, serial>>

FlushFails == pc = "flush" /\ mode[fdOf[cur]] = "closed" /\ DropClient(cur)

(* publish, called in the supervisor by a handler of another descriptor or  *)
(* by another thread: busMtx_ lets it in between any two steps of the loop. *)
Publish ==
  /\ pc # "stopped"
  /\ \E e \in NewEvents \ {NoFrame} :
       out' = Published(e) /\ wantPollOut' = Woken(e) /\ Numbered(e)
  /\ UNCHANGED <<kernel, client, pending, clients, srvBuf, subscriptions, loop>>

(* stop(), after the loop has ended: everything is closed, queued or not.   *)
Stop ==
  /\ RoundOver
  /\ pc' = "stopped"
  /\ fdOf' = [fd \in Fds |-> NoConn] /\ backlog' = {}
  /\ up' = [k \in Conns |-> <<>>]
  /\ pending' = {} /\ clients' = {}
  /\ srvBuf' = [fd \in Fds |-> <<>>] /\ out' = [fd \in Fds |-> <<>>]
  /\ wantPollOut' = [fd \in Fds |-> FALSE]
  /\ subscriptions' = [t \in Topics |-> {}]
  /\ UNCHANGED <<down, client, accepting, ready, cur, rev, serial>>

-----------------------------------------------------------------------------
Parked == ParkedHungUp \/ ParkedFramed \/ ParkedLegacy
Handle == HandleRequest \/ HandleSubscribe \/ HandleUnsubscribe \/ HandleEvent
          \/ HandleUnknown \/ HandleCorrupt \/ FrameWaits \/ FrameCompletes
Loop == \/ Poll \/ Accept \/ AcceptEnds
        \/ \E fd \in Fds : Expire(fd)
        \/ Parked \/ Ignore \/ HungUp \/ Receive \/ NothingToRead
        \/ Handle \/ Flush \/ FlushFails

Reads(k) == PumpFrame(k) \/ PumpRead(k) \/ OnFdReady(k)
Calls(k) == \/ Request(k) \/ LegacyCommand(k)
            \/ \E t \in Topics : \/ Subscribe(k, t) \/ SubscribeAsync(k, t)
                                 \/ Unsubscribe(k, t) \/ ClientPublish(k, t)
Client(k) == \/ \E m \in {"framed", "legacy"} : Connect(k, m)
             \/ Calls(k) \/ Reads(k) \/ Timeout(k) \/ Disconnect(k)

Next == Loop \/ Publish \/ Stop \/ \E k \in Conns : Client(k)

Spec == Init /\ [][Next]_vars

(* The supervisor's loop runs while the bus is up, and every client's own   *)
(* loop reads what is readable.  Nothing makes a client call, a process     *)
(* exit, a call time out or the supervisor stop, nor the bytes come that a  *)
(* frame cut short waits for.                                               *)
Fairness == WF_vars(Loop) /\ \A k \in Conns : WF_vars(Reads(k))
FairSpec == Spec /\ Fairness

-----------------------------------------------------------------------------
TypeOK ==
  /\ backlog \subseteq Conns
  /\ fdOf \in [Fds -> Conns \cup {NoConn}]
  /\ up \in [Conns -> Seq(Frames)] /\ down \in [Conns -> Seq(Frames)]
  /\ mode \in [Conns -> {"idle", "framed", "legacy", "closed"}]
  /\ nextId \in [Conns -> Nat]
  /\ waiting \in [Conns -> Frames \cup {NoFrame}]
  /\ cliBuf \in [Conns -> Seq(Frames)]
  /\ pending \subseteq Fds /\ clients \subseteq Fds
  /\ srvBuf \in [Fds -> Seq(Frames)] /\ out \in [Fds -> Seq(Frames)]
  /\ wantPollOut \in [Fds -> BOOLEAN]
  /\ subscriptions \in [Topics -> SUBSET Fds]
  /\ pc \in {"loop", "resolve", "frames", "flush", "stopped"}
  /\ accepting \in BOOLEAN
  /\ ready \in [Fds -> SUBSET {"in", "out", "hup"}]
  /\ cur \in Fds \cup {NoFd} /\ rev \in SUBSET {"in", "out", "hup"}
  /\ serial \in Nat
  /\ unsent \in [Conns -> SUBSET Nat] /\ swallowed \in [Conns -> BOOLEAN]

(* No descriptor leaks and none is used after close: the open ones are the  *)
(* parked ones and the framed clients, never both, one per connection.      *)
DescriptorsAccounted ==
  /\ pending \cap clients = {}
  /\ pending \cup clients = Fds \ Free
  /\ \A f, g \in Fds \ Free : fdOf[f] = fdOf[g] => f = g
  /\ \A fd \in Fds \ Free : fdOf[fd] \notin backlog

(* A reused descriptor inherits nothing: only framed clients are subscribed *)
(* and a descriptor that is none has no queue, no input and no POLLOUT.     *)
NothingInherited ==
  /\ \A t \in Topics : subscriptions[t] \subseteq clients
  /\ \A fd \in Fds \ clients : /\ out[fd] = <<>> /\ srvBuf[fd] = <<>>
                               /\ ~wantPollOut[fd]

(* POLLOUT is asked for exactly while output is queued: queued output is    *)
(* never forgotten, and an idle client does not make ppoll spin.            *)
PollOutMatchesQueue == \A fd \in clients : wantPollOut[fd] <=> out[fd] # <<>>

(* The calls of a connected client and their answers are on their way in    *)
(* the order of the calls, none of them twice; and from the first of them   *)
(* on, none is missing but those of which nothing could be sent, unless     *)
(* frames were taken for the rest of one that the client had cut short.     *)
OutOf(k) == IF Attached(k) THEN out[CHOOSE fd \in Fds : fdOf[fd] = k] ELSE <<>>
InOf(k)  == IF Attached(k) THEN srvBuf[CHOOSE fd \in Fds : fdOf[fd] = k]
                           ELSE <<>>
Back(k)  == cliBuf[k] \o down[k] \o OutOf(k)
Forth(k) == InOf(k) \o up[k]
WithId   == {f \in Frames : f.type \in {"request", "response", "subscribe",
                                       "unsubscribe", "ack"}}
InFlight(k) == Only(Back(k) \o Forth(k), WithId)
RepliesInOrder ==
  \A k \in Conns :
    mode[k] = "framed" /\ Connected(k) =>
      LET q == InFlight(k)
          M == 1 .. Len(q)
      IN /\ \A i \in M : /\ q[i].id < nextId[k]
                         /\ \A j \in M : i < j => q[i].id < q[j].id
         /\ ~swallowed[k] =>
              \A i \in M : \A id \in q[i].id .. nextId[k] - 1 :
                id \in unsent[k] \/ \E j \in M : q[j].id = id

(* While a call blocks on a live connection, its answer can still come,     *)
(* unless its frame may have been taken for the rest of one cut short.      *)
AnswerStillComing ==
  \A k \in Conns :
    waiting[k] # NoFrame /\ Connected(k) /\ ~swallowed[k] =>
      \E i \in 1 .. Len(InFlight(k)) : InFlight(k)[i].id = waiting[k].id

(* A call that ends on a frame has taken its own answer: neither the answer *)
(* nor the call itself is still on its way, whatever timed out before it.   *)
OnlyOwnAnswer ==
  [][\A k \in Conns :
       PumpFrame(k) /\ waiting'[k] = NoFrame =>
         \A i \in 1 .. Len(InFlight(k)') : InFlight(k)'[i].id # waiting[k].id
    ]_vars

(* A framed connection that is cut off or closed is lost to the bus.        *)
Lost(k) == mode[k] = "closed" \/ (mode[k] = "framed" /\ ~Connected(k))
EventFrames == {Event(t, n) : t \in Topics, n \in 1 .. MaxEvents}
AnEvent == {f \in Frames : IsEvent(f)}
Owed(k) == IF mode[k] = "closed" THEN <<>> ELSE Only(Back(k), AnEvent)

Member(k, t) == /\ mode[k] # "closed"
                /\ \E fd \in subscriptions[t] : fdOf[fd] = k
Members == {m \in Conns \X Topics : Member(m[1], m[2])}
Debts   == [k \in Conns |-> Owed(k)]
Gone    == {k \in Conns : Lost(k)}

Bus == INSTANCE PubSub WITH
         Events <- EventFrames, member <- Members, owed <- Debts, gone <- Gone

(* The bus implements publish/subscribe: exactly the subscribers, each      *)
(* event once, in the order of publication.                                 *)
ImplementsPubSub == Bus!Spec

(* What is queued for a client leaves the queue.                            *)
OutputDrains == \A fd \in Fds : out[fd] # <<>> ~> out[fd] = <<>>

(* A blocking call ends without its timeout, answered or cut off, unless a  *)
(* frame cut short is before it, for whose rest it may be taken.            *)
Behind(k) == \E i \in 1 .. Len(Forth(k)) : ~Forth(k)[i].whole
CallsReturn ==
  \A k \in Conns :
    waiting[k] # NoFrame ~> waiting[k] = NoFrame \/ swallowed[k] \/ Behind(k)
=============================================================================
