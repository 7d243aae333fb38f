---------------------------- MODULE IpcBusProofs ----------------------------
(* The invariants of the IPC bus, for every number of connections, server   *)
(* descriptors, topics, calls and events, and every socket buffer size.     *)
EXTENDS IpcBus, SequenceTheorems, TLAPS

(* While a frame is taken or a queue flushed, cur is a framed client, and a *)
(* frame is there to be taken.                                              *)
LoopShape ==
  /\ pc = "resolve" => cur \in Fds
  /\ pc \in {"frames", "flush"} => cur \in clients
  /\ pc = "frames" => srvBuf[cur] # <<>>

(* Only a connection that was opened has a peer or waits for one.           *)
PeersOpened ==
  /\ \A k \in backlog : mode[k] # "idle"
  /\ \A fd \in Fds \ Free : mode[fdOf[fd]] # "idle"

(* No connection that flush_client may still write to holds more than its   *)
(* socket buffer does.                                                      *)
DownBounded ==
  \A k \in Conns : mode[k] = "idle" \/ Connected(k) => Len(down[k]) <= SockCap

(* The bookkeeping of the descriptors, and of the queues behind them.       *)
Bookkeeping == LoopShape /\ DescriptorsAccounted /\ PeersOpened /\ DownBounded
IInv == TypeOK /\ Bookkeeping /\ NothingInherited /\ PollOutMatchesQueue

USE BoundsAssumption, NoneAssumption

-----------------------------------------------------------------------------
(* What the helpers of the model return.                                    *)

LEMMA FrameTypes ==
  /\ \A n \in Nat : Response(n) \in Frames /\ Ack(n) \in Frames
  /\ \A t \in Topics, n \in Nat : Event(t, n) \in Frames
  /\ \A type \in Types, n \in Nat, t \in Topics \cup {NoTopic} :
       Frame(type, n, t) \in Frames
  /\ Unknown \in Frames /\ Corrupt \in Frames
BY DEF Response, Ack, Event, Unknown, Corrupt, Frame, Frames, Types

(* A frame that is cut short, and what the server may take it for.          *)
LEMMA CutTypes ==
  ASSUME NEW f \in Frames
  PROVE  [f EXCEPT !.whole = FALSE] \in Frames /\ Completed(f) \in Frames
BY DEF Completed, Frames

(* The two halves of a queue cut after n frames.                            *)
LEMMA CutQueue ==
  ASSUME NEW q \in Seq(Frames), NEW n \in 0 .. Len(q)
  PROVE  /\ SubSeq(q, 1, n) \in Seq(Frames) /\ Len(SubSeq(q, 1, n)) = n
         /\ SubSeq(q, n + 1, Len(q)) \in Seq(Frames)
         /\ Len(SubSeq(q, n + 1, Len(q))) = Len(q) - n
<1>1. Len(q) \in Nat /\ \A i \in 1 .. Len(q) : q[i] \in Frames
  BY LenProperties, ElementOfSeq
<1>2. \A i \in 1 .. n : q[i] \in Frames
  BY <1>1
<1>3. \A i \in n + 1 .. Len(q) : q[i] \in Frames
  BY <1>1
<1>4. SubSeq(q, 1, n) \in Seq(Frames) /\ Len(SubSeq(q, 1, n)) = n
  BY <1>1, <1>2, SubSeqProperties
<1>5. /\ SubSeq(q, n + 1, Len(q)) \in Seq(Frames)
      /\ Len(SubSeq(q, n + 1, Len(q))) = Len(q) - n
  BY <1>1, <1>3, SubSeqProperties
<1> QED
  BY <1>4, <1>5

(* flush_client sends a part of the queue that the socket has room for.     *)
LEMMA SentBound ==
  ASSUME TypeOK, DownBounded, DescriptorsAccounted, cur \in clients
  PROVE  /\ fdOf[cur] \in Conns /\ Sent \in 0 .. Len(out[cur])
         /\ Len(down[fdOf[cur]]) + Sent <= SockCap
<1>1. fdOf[cur] \in Conns /\ cur \in Fds
  BY DEF TypeOK, DescriptorsAccounted, Free
<1>2. Len(down[fdOf[cur]]) <= SockCap
  BY <1>1 DEF DownBounded, Connected, Attached
<1>3. Len(out[cur]) \in Nat /\ Len(down[fdOf[cur]]) \in Nat
  BY <1>1 DEF TypeOK
<1> DEFINE held == Len(down[fdOf[cur]])
           queued == Len(out[cur])
<1>4. Sent = IF SockCap - held < queued THEN SockCap - held ELSE queued
  BY DEF Sent
<1>5. SockCap \in Nat /\ held \in Nat /\ queued \in Nat /\ held <= SockCap
  BY <1>2, <1>3
<1> HIDE DEF held, queued
<1>6. Sent \in 0 .. queued /\ held + Sent <= SockCap
  BY <1>4, <1>5
<1> QED
  BY <1>1, <1>6 DEF held, queued

LEMMA PublishedTypes ==
  ASSUME TypeOK, NEW e, e = NoFrame \/ e \in Frames
  PROVE  Published(e) \in [Fds -> Seq(Frames)] /\ Woken(e) \in [Fds -> BOOLEAN]
BY DEF TypeOK, Published, Woken, Recipients

LEMMA NewEventTypes ==
  ASSUME TypeOK, NEW e \in NewEvents
  PROVE  e = NoFrame \/ e \in Frames
<1>1. serial + 1 \in Nat
  BY DEF TypeOK
<1>2. \A t \in Topics : Event(t, serial + 1) \in Frames
  BY <1>1, FrameTypes
<1> QED
  BY <1>2 DEF NewEvents

LEMMA CloseTypes ==
  ASSUME TypeOK, NEW S, Close(S)
  PROVE  fdOf' \in [Fds -> Conns \cup {NoConn}] /\ up' \in [Conns -> Seq(Frames)]
BY DEF TypeOK, Close

LEMMA TakenFrame ==
  ASSUME TypeOK, LoopShape, pc = "frames"
  PROVE  /\ cur \in Fds /\ cur \in clients /\ frame \in Frames
         /\ frame.id \in Nat /\ frame.type \in Types
         /\ Tail(srvBuf[cur]) \in Seq(Frames)
         /\ Len(srvBuf[cur]) > 1 => Tail(srvBuf[cur]) # <<>>
<1>1. cur \in Fds /\ cur \in clients /\ srvBuf[cur] \in Seq(Frames)
      /\ srvBuf[cur] # <<>>
  BY DEF TypeOK, LoopShape
<1>2. /\ Head(srvBuf[cur]) \in Frames /\ Tail(srvBuf[cur]) \in Seq(Frames)
      /\ Len(Tail(srvBuf[cur])) = Len(srvBuf[cur]) - 1
  BY <1>1, HeadTailProperties
<1>3. Len(srvBuf[cur]) > 1 => Tail(srvBuf[cur]) # <<>>
  <2> DEFINE rest == Tail(srvBuf[cur])
             n == Len(srvBuf[cur])
  <2>1. Len(<<>>) = 0 /\ n \in Nat /\ Len(rest) = n - 1
    BY <1>1, <1>2, LenProperties
  <2> HIDE DEF rest, n
  <2>2. n > 1 => rest # <<>>
    BY <2>1
  <2> QED
    BY <2>2 DEF rest, n
<1> QED
  BY <1>1, <1>2, <1>3 DEF frame, Frames

-----------------------------------------------------------------------------
(* Type correctness is preserved by every step.                             *)

LEMMA InitTypes == Init => TypeOK
<1> SUFFICES ASSUME Init PROVE TypeOK
  OBVIOUS
<1> USE DEF Init
<1>1. /\ up \in [Conns -> Seq(Frames)] /\ down \in [Conns -> Seq(Frames)]
      /\ cliBuf \in [Conns -> Seq(Frames)]
      /\ srvBuf \in [Fds -> Seq(Frames)] /\ out \in [Fds -> Seq(Frames)]
  OBVIOUS
<1>2. /\ fdOf \in [Fds -> Conns \cup {NoConn}]
      /\ mode \in [Conns -> {"idle", "framed", "legacy", "closed"}]
      /\ nextId \in [Conns -> Nat] /\ waiting \in [Conns -> Frames \cup {NoFrame}]
  OBVIOUS
<1>3. /\ wantPollOut \in [Fds -> BOOLEAN]
      /\ subscriptions \in [Topics -> SUBSET Fds]
      /\ ready \in [Fds -> SUBSET {"in", "out", "hup"}]
  OBVIOUS
<1>4. /\ backlog \subseteq Conns /\ pending \subseteq Fds /\ clients \subseteq Fds
      /\ pc \in {"loop", "resolve", "frames", "flush", "stopped"}
      /\ accepting \in BOOLEAN /\ serial \in Nat
      /\ cur \in Fds \cup {NoFd} /\ rev \in SUBSET {"in", "out", "hup"}
  OBVIOUS
<1>5. unsent \in [Conns -> SUBSET Nat] /\ swallowed \in [Conns -> BOOLEAN]
  OBVIOUS
<1> QED
  BY <1>1, <1>2, <1>3, <1>4, <1>5 DEF TypeOK

LEMMA ClientTypes ==
  ASSUME TypeOK, NEW k \in Conns, Client(k)
  PROVE  TypeOK'
<1> USE DEF TypeOK, kernel, client, history, bus, loop
<1>1. ASSUME NEW m \in {"framed", "legacy"}, Connect(k, m) PROVE TypeOK'
  BY <1>1 DEF Connect
<1>2. ASSUME NEW type \in Types, NEW t \in Topics \cup {NoTopic},
             NEW reply \in Frames \cup {NoFrame}, Call(k, type, t, reply)
      PROVE  TypeOK'
  <2> DEFINE f == Frame(type, nextId[k], t)
  <2>1. f \in Frames /\ [f EXCEPT !.whole = FALSE] \in Frames
    BY FrameTypes, CutTypes
  <2>2. /\ nextId' \in [Conns -> Nat] /\ serial' = serial
        /\ \/ Send(k, f) /\ waiting' = [waiting EXCEPT ![k] = reply]
           \/ SendPart(k, f)
           \/ SendNothing(k) /\ unsent' = [unsent EXCEPT ![k] = @ \cup {nextId[k]}]
    BY <1>2 DEF Call
  <2> HIDE DEF f
  <2>3. CASE Send(k, f) /\ waiting' = [waiting EXCEPT ![k] = reply]
    BY <2>1, <2>2, <2>3 DEF Send, Put
  <2>4. CASE SendPart(k, f)
    BY <2>1, <2>2, <2>4 DEF SendPart, Put
  <2>5. CASE SendNothing(k) /\ unsent' = [unsent EXCEPT ![k] = @ \cup {nextId[k]}]
    BY <2>2, <2>5 DEF SendNothing
  <2> QED
    BY <2>2, <2>3, <2>4, <2>5
<1>3. CASE Calls(k)
  <2>1. nextId[k] \in Nat
    OBVIOUS
  <2>2. Response(nextId[k]) \in Frames /\ Ack(nextId[k]) \in Frames
    BY <2>1, FrameTypes
  <2>3. CASE Request(k)
    BY <2>2, <2>3, <1>2 DEF Request, Types
  <2>4. ASSUME NEW t \in Topics,
               Subscribe(k, t) \/ SubscribeAsync(k, t) \/ Unsubscribe(k, t)
        PROVE  TypeOK'
    BY <2>2, <2>4, <1>2 DEF Subscribe, SubscribeAsync, Unsubscribe, Types
  <2>5. ASSUME NEW t \in Topics, ClientPublish(k, t) PROVE TypeOK'
    <3> DEFINE e == Event(t, serial + 1)
    <3>0. e \in Frames /\ Corrupt \in Frames
      BY FrameTypes
    <3>1. e \in Frames /\ Corrupt \in Frames /\ [e EXCEPT !.whole = FALSE] \in Frames
      BY <3>0, CutTypes
    <3>2. serial' \in Nat /\ UNCHANGED <<nextId, waiting>>
      BY <2>5 DEF ClientPublish
    <3>3. ASSUME NEW f \in Frames, Send(k, f) PROVE TypeOK'
      BY <3>2, <3>3 DEF Send, Put
    <3>4. CASE SendPart(k, Event(t, serial + 1))
      BY <3>1, <3>2, <3>4 DEF SendPart, Put
    <3>5. CASE SendNothing(k) /\ UNCHANGED history
      BY <3>2, <3>5 DEF SendNothing
    <3> QED
      BY <2>5, <3>1, <3>3, <3>4, <3>5 DEF ClientPublish
  <2>6. CASE LegacyCommand(k)
    <3>1. Frame("line", 0, NoTopic) \in Frames
      BY FrameTypes DEF Types
    <3>2. /\ nextId' \in [Conns -> Nat] /\ up' \in [Conns -> Seq(Frames)]
      BY <2>6, <3>1 DEF LegacyCommand, Send, Put
    <3> QED
      BY <2>6, <3>2 DEF LegacyCommand, Send
  <2> QED
    BY <1>3, <2>3, <2>4, <2>5, <2>6 DEF Calls
<1>4. CASE Reads(k)
  <2>1. CASE PumpFrame(k)
    <3>1. Tail(cliBuf[k]) \in Seq(Frames)
      BY <2>1, HeadTailProperties DEF PumpFrame
    <3> QED
      BY <2>1, <3>1 DEF PumpFrame
  <2>2. CASE PumpRead(k)
    BY <2>2 DEF PumpRead, AfterRead
  <2>3. CASE OnFdReady(k)
    <3>0. UNCHANGED <<backlog, fdOf, up, nextId, history, bus, loop, serial>>
      BY <2>3 DEF OnFdReady
    <3>1. CASE Eof(k)
      <4>1. Disconnected(k)
        BY <2>3, <3>1 DEF OnFdReady
      <4> QED
        BY <3>0, <4>1 DEF Disconnected
    <3>2. CASE ~Eof(k)
      <4>1. /\ down' = [down EXCEPT ![k] = <<>>]
            /\ cliBuf' = [cliBuf EXCEPT ![k] = <<>>]
            /\ UNCHANGED <<mode, waiting>>
        BY <2>3, <3>2 DEF OnFdReady
      <4> QED
        BY <3>0, <4>1
    <3> QED
      BY <3>1, <3>2
  <2> QED
    BY <1>4, <2>1, <2>2, <2>3 DEF Reads
<1>5. CASE Timeout(k)
  BY <1>5 DEF Timeout
<1>6. CASE Disconnect(k)
  BY <1>6 DEF Disconnect, Disconnected
<1> QED
  BY <1>1, <1>3, <1>4, <1>5, <1>6 DEF Client

LEMMA LoopTypes ==
  ASSUME TypeOK, LoopShape, DescriptorsAccounted, DownBounded, Loop
  PROVE  TypeOK'
<1> USE DEF TypeOK, kernel, client, history, bus, loop, Return
<1>1. CASE Poll
  BY <1>1 DEF Poll, RoundOver, Revents
<1>2. CASE Accept
  BY <1>2 DEF Accept, Free
<1>3. CASE AcceptEnds
  BY <1>3 DEF AcceptEnds
<1>4. ASSUME NEW fd \in Fds, Expire(fd) PROVE TypeOK'
  <2>1. PICK expired \in SUBSET pending : pending' = pending \ expired /\ Close(expired)
    BY <1>4 DEF Expire
  <2> QED
    BY <1>4, <2>1, CloseTypes DEF Expire
<1>5. CASE ParkedHungUp
  <2>1. Close({cur})
    BY <1>5 DEF ParkedHungUp
  <2> QED
    BY <1>5, <2>1, CloseTypes DEF ParkedHungUp
<1>6. CASE ParkedFramed
  BY <1>6 DEF ParkedFramed
<1>7. CASE ParkedLegacy
  <2>1. Close({cur})
    BY <1>7 DEF ParkedLegacy
  <2>2. PICK e \in NewEvents :
          out' = Published(e) /\ wantPollOut' = Woken(e) /\ Numbered(e)
    BY <1>7 DEF ParkedLegacy
  <2>3. out' \in [Fds -> Seq(Frames)] /\ wantPollOut' \in [Fds -> BOOLEAN]
    BY <2>2, NewEventTypes, PublishedTypes
  <2>4. serial' \in Nat
    BY <2>2 DEF Numbered
  <2>5. down' \in [Conns -> Seq(Frames)]
    <3>1. cur \in Fds /\ fdOf[cur] \in Conns
      BY <1>7 DEF ParkedLegacy, DescriptorsAccounted, Free
    <3>2. Append(down[fdOf[cur]], Response(0)) \in Seq(Frames)
      BY <3>1, FrameTypes
    <3>3. CASE mode[fdOf[cur]] = "closed"
      BY <1>7, <3>1, <3>3 DEF ParkedLegacy
    <3>4. CASE mode[fdOf[cur]] # "closed"
      BY <1>7, <3>1, <3>2, <3>4 DEF ParkedLegacy
    <3> QED
      BY <3>3, <3>4
  <2> QED
    BY <1>7, <2>1, <2>3, <2>4, <2>5, CloseTypes DEF ParkedLegacy
<1>8. CASE Ignore
  BY <1>8 DEF Ignore
<1>9. ASSUME cur \in clients, DropClient(cur) PROVE TypeOK'
  <2>1. Close({cur})
    BY <1>9 DEF DropClient
  <2>2. subscriptions' \in [Topics -> SUBSET Fds]
    BY <1>9 DEF DropClient, Unsubscribed
  <2>3. /\ srvBuf' \in [Fds -> Seq(Frames)] /\ out' \in [Fds -> Seq(Frames)]
        /\ wantPollOut' \in [Fds -> BOOLEAN]
    BY <1>9 DEF DropClient
  <2> QED
    BY <1>9, <2>1, <2>2, <2>3, CloseTypes DEF DropClient
<1>10. CASE HungUp
  BY <1>9, <1>10 DEF HungUp
<1>11. CASE Receive
  <2>1. cur \in Fds /\ fdOf[cur] \in Conns
    BY <1>11 DEF Receive, DescriptorsAccounted, Free
  <2>2. PICK n \in 1 .. Len(up[fdOf[cur]]) :
          /\ srvBuf' = [srvBuf EXCEPT ![cur] = @ \o SubSeq(up[fdOf[cur]], 1, n)]
          /\ up' = [up EXCEPT ![fdOf[cur]] = SubSeq(@, n + 1, Len(@))]
    BY <1>11 DEF Receive
  <2>3. up[fdOf[cur]] \in Seq(Frames) /\ n \in 0 .. Len(up[fdOf[cur]])
    BY <2>1, <2>2
  <2>4. /\ SubSeq(up[fdOf[cur]], 1, n) \in Seq(Frames)
        /\ SubSeq(up[fdOf[cur]], n + 1, Len(up[fdOf[cur]])) \in Seq(Frames)
    BY <2>3, CutQueue
  <2>5. srvBuf[cur] \o SubSeq(up[fdOf[cur]], 1, n) \in Seq(Frames)
    BY <2>1, <2>4, ConcatProperties
  <2>6. srvBuf' \in [Fds -> Seq(Frames)] /\ up' \in [Conns -> Seq(Frames)]
    BY <2>2, <2>4, <2>5
  <2> QED
    BY <1>11, <2>6 DEF Receive
<1>12. CASE NothingToRead
  BY <1>12 DEF NothingToRead
<1>13. CASE Handle
  <2>1. pc = "frames"
    BY <1>13 DEF Handle, HandleRequest, HandleSubscribe, HandleUnsubscribe,
                 HandleEvent, HandleUnknown, HandleCorrupt, FrameWaits,
                 FrameCompletes, AtFrame
  <2>2. /\ cur \in Fds /\ cur \in clients /\ frame \in Frames /\ frame.id \in Nat
        /\ Tail(srvBuf[cur]) \in Seq(Frames)
    BY <2>1, TakenFrame
  <2>3. Response(frame.id) \in Frames /\ Ack(frame.id) \in Frames
    BY <2>2, FrameTypes
  <2>4. ASSUME TakeFrame
        PROVE  /\ srvBuf' \in [Fds -> Seq(Frames)]
               /\ pc' \in {"loop", "resolve", "frames", "flush", "stopped"}
               /\ cur' \in Fds \cup {NoFd} /\ rev' \in SUBSET {"in", "out", "hup"}
               /\ UNCHANGED <<kernel, client, pending, clients, accepting, ready>>
    BY <2>2, <2>4 DEF TakeFrame, FramesEnd
  <2>5. ASSUME NEW o \in [Fds -> Seq(Frames)], NEW f \in Frames, Reply(o, f)
        PROVE  out' \in [Fds -> Seq(Frames)]
    <3>1. o[cur] \in Seq(Frames)
      BY <2>2
    <3>2. Append(o[cur], f) \in Seq(Frames)
      BY <3>1
    <3>3. out' = [o EXCEPT ![cur] = Append(o[cur], f)]
      BY <2>5 DEF Reply
    <3> QED
      BY <3>2, <3>3
  <2>6. CASE HandleRequest
    <3>1. PICK e \in NewEvents :
            /\ Reply(Published(e), Response(frame.id))
            /\ wantPollOut' = [Woken(e) EXCEPT ![cur] = TRUE]
            /\ Numbered(e)
      BY <2>6 DEF HandleRequest
    <3>2. Published(e) \in [Fds -> Seq(Frames)] /\ Woken(e) \in [Fds -> BOOLEAN]
      BY NewEventTypes, PublishedTypes
    <3>3. out' \in [Fds -> Seq(Frames)] /\ wantPollOut' \in [Fds -> BOOLEAN]
      BY <3>1, <3>2, <2>3, <2>5
    <3>4. serial' \in Nat
      BY <3>1 DEF Numbered
    <3> QED
      BY <2>4, <2>6, <3>3, <3>4 DEF HandleRequest
  <2>7. ASSUME Acknowledge
        PROVE  /\ out' \in [Fds -> Seq(Frames)] /\ wantPollOut' \in [Fds -> BOOLEAN]
               /\ serial' = serial
    BY <2>3, <2>5, <2>7 DEF Acknowledge
  <2>8. CASE HandleSubscribe
    <3>1. subscriptions' \in [Topics -> SUBSET Fds]
      BY <2>2, <2>8 DEF HandleSubscribe
    <3> QED
      BY <2>4, <2>7, <2>8, <3>1 DEF HandleSubscribe
  <2>9. CASE HandleUnsubscribe
    <3>1. subscriptions' \in [Topics -> SUBSET Fds]
      BY <2>2, <2>9 DEF HandleUnsubscribe
    <3> QED
      BY <2>4, <2>7, <2>9, <3>1 DEF HandleUnsubscribe
  <2>10. CASE HandleEvent
    <3>1. out' \in [Fds -> Seq(Frames)] /\ wantPollOut' \in [Fds -> BOOLEAN]
      BY <2>2, <2>10, PublishedTypes DEF HandleEvent
    <3> QED
      BY <2>4, <2>10, <3>1 DEF HandleEvent
  <2>11. CASE HandleCorrupt
    BY <1>9, <2>2, <2>11 DEF HandleCorrupt
  <2>12. CASE HandleUnknown
    BY <2>4, <2>12 DEF HandleUnknown
  <2>13. CASE FrameWaits
    BY <2>13 DEF FrameWaits, FramesEnd
  <2>14. CASE FrameCompletes
    <3>1. PICK n \in 2 .. Len(srvBuf[cur]), f \in {Completed(frame), Unknown, Corrupt},
               rest \in {<<>>, <<Corrupt>>} :
            srvBuf' = [srvBuf EXCEPT
                         ![cur] = <<f>> \o rest \o SubSeq(@, n + 1, Len(@))]
      BY <2>14 DEF FrameCompletes
    <3>2. f \in Frames /\ rest \in Seq(Frames)
      <4>1. Completed(frame) \in Frames /\ Unknown \in Frames /\ Corrupt \in Frames
        BY <2>2, FrameTypes, CutTypes
      <4>2. f \in Frames
        BY <4>1, Zenon
      <4>3. <<>> \in Seq(Frames) /\ <<Corrupt>> \in Seq(Frames)
        BY <4>1
      <4> QED
        BY <4>2, <4>3, Zenon
    <3>3. SubSeq(srvBuf[cur], n + 1, Len(srvBuf[cur])) \in Seq(Frames)
      <4>1. n \in 0 .. Len(srvBuf[cur]) /\ srvBuf[cur] \in Seq(Frames)
        BY <2>2
      <4> QED
        BY <4>1, CutQueue
    <3>4. srvBuf' \in [Fds -> Seq(Frames)]
      <4> DEFINE behind == SubSeq(srvBuf[cur], n + 1, Len(srvBuf[cur]))
      <4>1. srvBuf' = [srvBuf EXCEPT ![cur] = (<<f>> \o rest) \o behind]
        BY <3>1
      <4>2. behind \in Seq(Frames)
        BY <3>3
      <4> HIDE DEF behind
      <4>3. <<f>> \o rest \in Seq(Frames)
        BY <3>2, ConcatProperties
      <4>4. (<<f>> \o rest) \o behind \in Seq(Frames)
        BY <4>2, <4>3, ConcatProperties
      <4> QED
        BY <4>1, <4>4
    <3>5. swallowed' \in [Conns -> BOOLEAN]
      BY <2>14 DEF FrameCompletes
    <3>6. UNCHANGED <<kernel, mode, nextId, waiting, cliBuf, unsent, pending,
                      clients, out, wantPollOut, subscriptions, loop, serial>>
      BY <2>14 DEF FrameCompletes
    <3> QED
      BY <3>4, <3>5, <3>6
  <2> QED
    BY <1>13, <2>6, <2>8, <2>9, <2>10, <2>11, <2>12, <2>13, <2>14 DEF Handle
<1>14. CASE Flush
  <2>1. cur \in clients /\ cur \in Fds
    BY <1>14 DEF Flush, LoopShape
  <2>2. fdOf[cur] \in Conns /\ Sent \in 0 .. Len(out[cur])
    BY <2>1, SentBound
  <2>3. out[cur] \in Seq(Frames) /\ down[fdOf[cur]] \in Seq(Frames)
    BY <2>1, <2>2
  <2>4. /\ SubSeq(out[cur], 1, Sent) \in Seq(Frames)
        /\ SubSeq(out[cur], Sent + 1, Len(out[cur])) \in Seq(Frames)
    BY <2>2, <2>3, CutQueue
  <2>5. down[fdOf[cur]] \o SubSeq(out[cur], 1, Sent) \in Seq(Frames)
    BY <2>3, <2>4, ConcatProperties
  <2>6. down' \in [Conns -> Seq(Frames)] /\ out' \in [Fds -> Seq(Frames)]
    BY <1>14, <2>4, <2>5 DEF Flush
  <2>7. wantPollOut' \in [Fds -> BOOLEAN]
    <3>1. StillWanted(Sent) \in BOOLEAN
      BY DEF StillWanted
    <3> QED
      BY <1>14, <3>1 DEF Flush
  <2> QED
    BY <1>14, <2>6, <2>7 DEF Flush
<1>15. CASE FlushFails
  BY <1>9, <1>15 DEF FlushFails, LoopShape
<1> QED
  BY <1>1, <1>2, <1>3, <1>4, <1>5, <1>6, <1>7, <1>8, <1>10, <1>11, <1>12, <1>13,
     <1>14, <1>15 DEF Loop, Parked

LEMMA TypeStep == IInv /\ [Next]_vars => TypeOK'
<1> SUFFICES ASSUME IInv, [Next]_vars PROVE TypeOK'
  OBVIOUS
<1> USE DEF IInv, Bookkeeping
<1>1. CASE UNCHANGED vars
  BY <1>1 DEF vars, kernel, client, history, bus, loop, TypeOK
<1>2. CASE Loop
  BY <1>2, LoopTypes
<1>3. CASE Publish
  <2>1. PICK e \in NewEvents :
          out' = Published(e) /\ wantPollOut' = Woken(e) /\ Numbered(e)
    BY <1>3 DEF Publish
  <2>2. out' \in [Fds -> Seq(Frames)] /\ wantPollOut' \in [Fds -> BOOLEAN]
    BY <2>1, NewEventTypes, PublishedTypes
  <2>3. serial' \in Nat
    BY <2>1 DEF Numbered, TypeOK
  <2> QED
    BY <1>3, <2>2, <2>3 DEF Publish, TypeOK, kernel, client, history, loop
<1>4. CASE Stop
  <2>1. /\ up' \in [Conns -> Seq(Frames)] /\ srvBuf' \in [Fds -> Seq(Frames)]
        /\ out' \in [Fds -> Seq(Frames)]
    BY <1>4 DEF Stop
  <2> QED
    BY <1>4, <2>1 DEF Stop, TypeOK, client, history
<1>5. ASSUME NEW k \in Conns, Client(k) PROVE TypeOK'
  BY <1>5, ClientTypes
<1> QED
  BY <1>1, <1>2, <1>3, <1>4, <1>5 DEF Next

-----------------------------------------------------------------------------
(* The bookkeeping is preserved by every step.                              *)

(* Descriptors that are closed and struck off the books.                    *)
LEMMA CloseBooks ==
  ASSUME TypeOK, DescriptorsAccounted, PeersOpened,
         NEW S \in SUBSET (pending \cup clients), Close(S),
         pending' = pending \ S, clients' = clients \ S,
         UNCHANGED <<backlog, mode>>
  PROVE  /\ DescriptorsAccounted' /\ PeersOpened'
         /\ \A k \in Conns : Connected(k)' => Connected(k) /\ up'[k] = up[k]
         /\ \A fd \in S, k \in Conns : fdOf[fd] = k => ~Connected(k)'
<1>1. \A fd \in Fds : fdOf'[fd] = IF fd \in S THEN NoConn ELSE fdOf[fd]
  BY DEF Close
<1>2. Free' = Free \cup S /\ S \subseteq Fds \ Free
  BY <1>1 DEF Free, TypeOK, DescriptorsAccounted
<1>3. \A fd \in Fds \ Free' : fd \in Fds \ Free /\ fd \notin S /\ fdOf'[fd] = fdOf[fd]
  BY <1>1, <1>2
<1>4. DescriptorsAccounted'
  BY <1>2, <1>3 DEF DescriptorsAccounted
<1>5. PeersOpened'
  BY <1>3 DEF PeersOpened
<1>6. ASSUME NEW k \in Conns, Connected(k)'
      PROVE  Connected(k) /\ up'[k] = up[k]
  <2>1. k \in backlog \/ \E fd \in Fds : fdOf'[fd] = k
    BY <1>6 DEF Connected, Attached
  <2>2. ASSUME NEW fd \in Fds, fdOf'[fd] = k PROVE Connected(k) /\ fd \notin S
    BY <1>1, <2>2 DEF Connected, Attached
  <2>3. \A fd \in S : fdOf[fd] # k
    BY <1>1, <1>2, <2>1 DEF DescriptorsAccounted, Free
  <2> QED
    BY <2>1, <2>2, <2>3 DEF Connected, Close
<1>7. ASSUME NEW fd \in S, NEW k \in Conns, fdOf[fd] = k PROVE ~Connected(k)'
  <2>1. k \notin backlog /\ fd \in Fds \ Free
    BY <1>2, <1>7 DEF DescriptorsAccounted
  <2>2. ASSUME NEW g \in Fds, fdOf'[g] = k PROVE FALSE
    <3>1. g \notin S /\ fdOf[g] = k
      BY <1>1, <2>2
    <3> QED
      BY <1>7, <2>1, <3>1 DEF DescriptorsAccounted, Free
  <2> QED
    BY <2>1, <2>2 DEF Connected, Attached
<1> QED
  BY <1>4, <1>5, <1>6, <1>7

(* A step that closes nothing, accepts nobody and sends nothing down.       *)
LEMMA SameBooks ==
  ASSUME Bookkeeping, UNCHANGED <<backlog, fdOf, down, mode, pending, clients>>
  PROVE  DescriptorsAccounted' /\ PeersOpened' /\ DownBounded'
BY DEF Bookkeeping, DescriptorsAccounted, PeersOpened, DownBounded, Connected,
       Attached, Free

(* What a client does leaves the loop where it is.                          *)
LEMMA ClientBooks ==
  ASSUME TypeOK, Bookkeeping, NEW k \in Conns, Client(k)
  PROVE  Bookkeeping'
<1> USE DEF kernel, client, history, bus, loop
<1>1. UNCHANGED <<bus, loop>>
  BY DEF Client, Connect, Calls, Request, LegacyCommand, Subscribe,
         SubscribeAsync, Unsubscribe, ClientPublish, Call, Send, SendPart,
         SendNothing, Reads, PumpFrame, PumpRead, OnFdReady, Timeout, Disconnect
<1>2. LoopShape'
  BY <1>1 DEF Bookkeeping, LoopShape
<1>3. ASSUME NEW m \in {"framed", "legacy"}, Connect(k, m)
      PROVE  DescriptorsAccounted' /\ PeersOpened' /\ DownBounded'
  <2>1. /\ mode[k] = "idle" /\ mode' = [mode EXCEPT ![k] = m]
        /\ backlog' = backlog \cup {k} /\ UNCHANGED <<fdOf, down, pending, clients>>
    BY <1>3 DEF Connect
  <2>2. \A fd \in Fds \ Free : fdOf[fd] \in Conns /\ fdOf[fd] # k
    BY <2>1 DEF Bookkeeping, PeersOpened, Free, TypeOK
  <2>3. DescriptorsAccounted'
    BY <2>1, <2>2 DEF Bookkeeping, DescriptorsAccounted, Free
  <2>4. PeersOpened'
    BY <2>1, <2>2 DEF Bookkeeping, PeersOpened, Free, TypeOK
  <2>5. DownBounded'
    BY <2>1 DEF Bookkeeping, DownBounded, Connected, Attached, TypeOK
  <2> QED
    BY <2>3, <2>4, <2>5
<1>4. ASSUME UNCHANGED <<backlog, fdOf, pending, clients>>,
             mode[k] # "idle", down' = [down EXCEPT ![k] = <<>>],
             mode' = mode \/ mode' = [mode EXCEPT ![k] = "closed"]
      PROVE  DescriptorsAccounted' /\ PeersOpened' /\ DownBounded'
  <2>1. \A j \in Conns : mode'[j] = "idle" <=> mode[j] = "idle"
    BY <1>4 DEF TypeOK
  <2>2. DescriptorsAccounted'
    BY <1>4 DEF Bookkeeping, DescriptorsAccounted, Free
  <2>3. PeersOpened'
    BY <1>4, <2>1 DEF Bookkeeping, PeersOpened, Free, TypeOK
  <2>4. DownBounded'
    <3>1. Len(<<>>) = 0
      OBVIOUS
    <3>2. \A j \in Conns : down'[j] = IF j = k THEN <<>> ELSE down[j]
      BY <1>4 DEF TypeOK
    <3>3. \A j \in Conns : Connected(j)' <=> Connected(j)
      BY <1>4 DEF Connected, Attached
    <3> QED
      BY <2>1, <3>1, <3>2, <3>3 DEF Bookkeeping, DownBounded
  <2> QED
    BY <2>2, <2>3, <2>4
<1>5. CASE Calls(k) \/ PumpFrame(k) \/ Timeout(k)
  <2>1. UNCHANGED <<backlog, fdOf, down, mode, pending, clients>>
    BY <1>1, <1>5 DEF Calls, Request, LegacyCommand, Subscribe, SubscribeAsync,
         Unsubscribe, ClientPublish, Call, Send, SendPart, SendNothing, PumpFrame,
         Timeout
  <2> QED
    BY <1>2, <2>1, SameBooks DEF Bookkeeping
<1>6. CASE PumpRead(k)
  <2>1. down' = [down EXCEPT ![k] = <<>>] /\ mode' = mode /\ UNCHANGED <<backlog, fdOf>>
    BY <1>6 DEF PumpRead
  <2>2. CASE mode[k] # "idle"
    BY <1>1, <1>2, <1>4, <2>1, <2>2 DEF Bookkeeping
  <2>3. CASE mode[k] = "idle"
    <3>1. DescriptorsAccounted' /\ PeersOpened'
      BY <1>1, <2>1 DEF Bookkeeping, DescriptorsAccounted, PeersOpened, Free
    <3>2. Len(<<>>) = 0
      OBVIOUS
    <3>3. \A j \in Conns : down'[j] = IF j = k THEN <<>> ELSE down[j]
      BY <2>1 DEF TypeOK
    <3>4. DownBounded'
      BY <2>1, <3>2, <3>3 DEF Bookkeeping, DownBounded, Connected, Attached
    <3> QED
      BY <1>2, <3>1, <3>4 DEF Bookkeeping
  <2> QED
    BY <2>2, <2>3
<1>7. CASE OnFdReady(k)
  <2>1. mode[k] # "idle" /\ UNCHANGED <<backlog, fdOf>>
    BY <1>7 DEF OnFdReady, InPollLoop
  <2>2. CASE Eof(k)
    <3>1. Disconnected(k)
      BY <1>7, <2>2 DEF OnFdReady
    <3> QED
      BY <1>1, <1>2, <1>4, <2>1, <3>1 DEF Bookkeeping, Disconnected
  <2>3. CASE ~Eof(k)
    <3>1. down' = [down EXCEPT ![k] = <<>>] /\ mode' = mode
      BY <1>7, <2>3 DEF OnFdReady
    <3> QED
      BY <1>1, <1>2, <1>4, <2>1, <3>1 DEF Bookkeeping
  <2> QED
    BY <2>2, <2>3
<1>8. CASE Disconnect(k)
  <2>1. mode[k] # "idle" /\ Disconnected(k) /\ UNCHANGED <<backlog, fdOf>>
    BY <1>8 DEF Disconnect, Opened
  <2> QED
    BY <1>1, <1>2, <1>4, <2>1 DEF Bookkeeping, Disconnected
<1> QED
  BY <1>2, <1>3, <1>5, <1>6, <1>7, <1>8 DEF Client, Reads, Bookkeeping

LEMMA LoopBooks ==
  ASSUME TypeOK, Bookkeeping, Loop
  PROVE  Bookkeeping'
<1> USE DEF kernel, client, history, bus, loop
<1> DEFINE Books == DescriptorsAccounted /\ PeersOpened /\ DownBounded
<1>0. Books
  BY DEF Bookkeeping
<1>1. CASE Poll \/ AcceptEnds \/ Ignore \/ NothingToRead
  <2>1. UNCHANGED <<backlog, fdOf, down, mode, pending, clients, srvBuf>>
    BY <1>1 DEF Poll, AcceptEnds, Ignore, NothingToRead
  <2>2. LoopShape'
    BY <1>1, <2>1 DEF Bookkeeping, LoopShape, Poll, AcceptEnds, Ignore,
         NothingToRead, Return
  <2> QED
    BY <2>1, <2>2, SameBooks DEF Bookkeeping
<1>2. CASE Accept
  <2>1. PICK k \in backlog, fd \in Free :
          /\ fdOf' = [fdOf EXCEPT ![fd] = k] /\ backlog' = backlog \ {k}
          /\ pending' = pending \cup {fd}
    BY <1>2 DEF Accept
  <2>2. UNCHANGED <<down, mode, clients, srvBuf, pc, cur>>
    BY <1>2 DEF Accept
  <2>3. k \in Conns /\ fd \in Fds
    BY DEF TypeOK, Free
  <2>4. \A g \in Fds : fdOf'[g] = IF g = fd THEN k ELSE fdOf[g]
    BY <2>1, <2>3 DEF TypeOK
  <2>5. Free' = Free \ {fd}
    BY <2>3, <2>4 DEF Free
  <2>6. DescriptorsAccounted'
    BY <1>0, <2>1, <2>2, <2>3, <2>4, <2>5 DEF DescriptorsAccounted
  <2>7. PeersOpened'
    BY <1>0, <2>1, <2>2, <2>3, <2>4, <2>5 DEF PeersOpened
  <2>8. \A j \in Conns : Connected(j)' => Connected(j)
    BY <2>1, <2>3, <2>4 DEF Connected, Attached
  <2>9. DownBounded'
    BY <1>0, <2>2, <2>8 DEF DownBounded
  <2>10. LoopShape'
    BY <2>2 DEF Bookkeeping, LoopShape
  <2> QED
    BY <2>6, <2>7, <2>9, <2>10 DEF Bookkeeping
<1>3. ASSUME NEW S \in SUBSET (pending \cup clients), Close(S),
             pending' = pending \ S, clients' = clients \ S,
             UNCHANGED <<backlog, mode>>,
             \A k \in Conns : down'[k] = down[k] \/ \E fd \in S : fdOf[fd] = k
      PROVE  Books'
  <2>1. /\ DescriptorsAccounted' /\ PeersOpened'
        /\ \A k \in Conns : Connected(k)' => Connected(k)
        /\ \A fd \in S, k \in Conns : fdOf[fd] = k => ~Connected(k)'
    BY <1>0, <1>3, CloseBooks
  <2>2. \A fd \in S : mode[fdOf[fd]] # "idle"
    BY <1>0, <1>3 DEF PeersOpened, DescriptorsAccounted, Free, TypeOK
  <2>3. DownBounded'
    BY <1>0, <1>3, <2>1, <2>2 DEF DownBounded
  <2> QED
    BY <2>1, <2>3
<1>4. ASSUME NEW fd \in Fds, Expire(fd) PROVE Bookkeeping'
  <2>1. PICK expired \in SUBSET pending : pending' = pending \ expired /\ Close(expired)
    BY <1>4 DEF Expire
  <2>2. clients' = clients \ expired /\ UNCHANGED <<backlog, mode, down>>
    BY <1>0, <1>4 DEF Expire, DescriptorsAccounted
  <2>3. Books'
    BY <1>3, <2>1, <2>2
  <2>4. LoopShape'
    BY <1>4 DEF Expire, LoopShape
  <2> QED
    BY <2>3, <2>4 DEF Bookkeeping
<1>5. CASE ParkedHungUp
  <2>1. /\ {cur} \in SUBSET (pending \cup clients) /\ Close({cur})
        /\ pending' = pending \ {cur} /\ clients' = clients \ {cur}
        /\ UNCHANGED <<backlog, mode, down>>
    BY <1>0, <1>5 DEF ParkedHungUp, DescriptorsAccounted
  <2>2. Books'
    BY <1>3, <2>1
  <2>3. LoopShape'
    BY <1>5 DEF ParkedHungUp, Return, LoopShape
  <2> QED
    BY <2>2, <2>3 DEF Bookkeeping
<1>6. CASE ParkedFramed
  <2>1. /\ cur \in pending /\ pending' = pending \ {cur} /\ clients' = clients \cup {cur}
        /\ UNCHANGED <<backlog, fdOf, down, mode, srvBuf, pc, cur>>
    BY <1>6 DEF ParkedFramed
  <2>2. DescriptorsAccounted' /\ PeersOpened' /\ DownBounded'
    BY <1>0, <2>1 DEF DescriptorsAccounted, PeersOpened, DownBounded, Connected,
                      Attached, Free
  <2>3. LoopShape'
    BY <1>6, <2>1 DEF ParkedFramed, Bookkeeping, LoopShape
  <2> QED
    BY <2>2, <2>3 DEF Bookkeeping
<1>7. CASE ParkedLegacy
  <2>1. /\ {cur} \in SUBSET (pending \cup clients) /\ Close({cur})
        /\ pending' = pending \ {cur} /\ clients' = clients \ {cur}
        /\ UNCHANGED <<backlog, mode>>
    BY <1>0, <1>7 DEF ParkedLegacy, DescriptorsAccounted
  <2>2. \A k \in Conns : down'[k] = down[k] \/ fdOf[cur] = k
    BY <1>7 DEF ParkedLegacy, TypeOK
  <2>3. Books'
    BY <1>3, <2>1, <2>2
  <2>4. LoopShape'
    BY <1>7 DEF ParkedLegacy, Return, LoopShape
  <2> QED
    BY <2>3, <2>4 DEF Bookkeeping
<1>8. ASSUME cur \in clients, DropClient(cur) PROVE Bookkeeping'
  <2>1. /\ {cur} \in SUBSET (pending \cup clients) /\ Close({cur})
        /\ pending' = pending \ {cur} /\ clients' = clients \ {cur}
        /\ UNCHANGED <<backlog, mode, down>>
    BY <1>0, <1>8 DEF DropClient, DescriptorsAccounted
  <2>2. Books'
    BY <1>3, <2>1
  <2>3. LoopShape'
    BY <1>8 DEF DropClient, Return, LoopShape
  <2> QED
    BY <2>2, <2>3 DEF Bookkeeping
<1>9. CASE HungUp
  BY <1>8, <1>9 DEF HungUp
<1>10. CASE FlushFails
  BY <1>8, <1>10 DEF FlushFails, Bookkeeping, LoopShape
<1>11. CASE Receive
  <2>1. /\ cur \in Fds /\ cur \in clients /\ fdOf[cur] \in Conns
        /\ srvBuf[cur] \in Seq(Frames) /\ up[fdOf[cur]] \in Seq(Frames)
    BY <1>0, <1>11 DEF Receive, DescriptorsAccounted, Free, TypeOK
  <2>2. PICK n \in 1 .. Len(up[fdOf[cur]]) :
          srvBuf' = [srvBuf EXCEPT ![cur] = @ \o SubSeq(up[fdOf[cur]], 1, n)]
    BY <1>11 DEF Receive
  <2> DEFINE read == SubSeq(up[fdOf[cur]], 1, n)
  <2>3. read \in Seq(Frames) /\ Len(read) = n /\ n \in Nat /\ n > 0
    BY <2>1, <2>2, CutQueue
  <2>4. srvBuf'[cur] = srvBuf[cur] \o read
    BY <2>1, <2>2 DEF TypeOK
  <2> HIDE DEF read
  <2>5. srvBuf'[cur] # <<>>
    <3>1. Len(srvBuf[cur]) \in Nat /\ Len(srvBuf'[cur]) = Len(srvBuf[cur]) + n
      BY <2>1, <2>3, <2>4, ConcatProperties, LenProperties
    <3>2. Len(<<>>) = 0
      OBVIOUS
    <3> QED
      BY <2>3, <3>1, <3>2
  <2>6. /\ pc' = "frames" /\ cur' = cur /\ clients' = clients
        /\ UNCHANGED <<backlog, fdOf, down, mode, pending>>
    BY <1>11 DEF Receive
  <2>7. LoopShape'
    BY <2>1, <2>5, <2>6 DEF LoopShape
  <2> QED
    BY <2>6, <2>7, SameBooks DEF Bookkeeping
<1>12. ASSUME pc = "frames", TakeFrame, UNCHANGED <<backlog, fdOf, down, mode, pending>>
       PROVE  Bookkeeping'
  <2>1. /\ cur \in Fds /\ cur \in clients
        /\ Len(srvBuf[cur]) > 1 => Tail(srvBuf[cur]) # <<>>
    BY <1>12, TakenFrame DEF Bookkeeping
  <2>2. clients' = clients /\ srvBuf'[cur] = Tail(srvBuf[cur])
    BY <1>12, <2>1 DEF TakeFrame, TypeOK
  <2>3. \/ Len(srvBuf[cur]) > 1 /\ UNCHANGED <<pc, cur>>
        \/ pc' = "flush" /\ cur' = cur
        \/ pc' = "loop"
    BY <1>12 DEF TakeFrame, FramesEnd, Return
  <2>4. LoopShape'
    BY <1>12, <2>1, <2>2, <2>3 DEF LoopShape
  <2> QED
    BY <1>12, <2>2, <2>4, SameBooks DEF Bookkeeping
<1>13. CASE Handle
  <2>1. pc = "frames"
    BY <1>13 DEF Handle, HandleRequest, HandleSubscribe, HandleUnsubscribe,
                 HandleEvent, HandleUnknown, HandleCorrupt, FrameWaits,
                 FrameCompletes, AtFrame
  <2>2. CASE HandleCorrupt
    BY <1>8, <2>1, <2>2 DEF HandleCorrupt, Bookkeeping, LoopShape
  <2>3. CASE TakeFrame
    BY <1>12, <2>1, <2>3 DEF TakeFrame
  <2>4. CASE FrameWaits
    <3>1. UNCHANGED <<backlog, fdOf, down, mode, pending, clients, srvBuf>>
      BY <2>4 DEF FrameWaits
    <3>2. (pc' = "flush" /\ cur' = cur) \/ pc' = "loop"
      BY <2>4 DEF FrameWaits, FramesEnd, Return
    <3>3. LoopShape'
      BY <2>1, <3>1, <3>2 DEF Bookkeeping, LoopShape
    <3> QED
      BY <3>1, <3>3, SameBooks DEF Bookkeeping
  <2>5. CASE FrameCompletes
    <3>1. cur \in Fds /\ cur \in clients /\ frame \in Frames
      BY <2>1, TakenFrame DEF Bookkeeping
    <3>2. PICK n \in 2 .. Len(srvBuf[cur]), f \in {Completed(frame), Unknown, Corrupt},
               rest \in {<<>>, <<Corrupt>>} :
            srvBuf' = [srvBuf EXCEPT
                         ![cur] = <<f>> \o rest \o SubSeq(@, n + 1, Len(@))]
      BY <2>5 DEF FrameCompletes
    <3> DEFINE behind == SubSeq(srvBuf[cur], n + 1, Len(srvBuf[cur]))
               tail == rest \o behind
    <3>3. f \in Frames /\ rest \in Seq(Frames)
      <4>1. Completed(frame) \in Frames /\ Unknown \in Frames /\ Corrupt \in Frames
        BY <3>1, FrameTypes, CutTypes
      <4>2. f \in Frames
        BY <4>1, Zenon
      <4>3. <<>> \in Seq(Frames) /\ <<Corrupt>> \in Seq(Frames)
        BY <4>1
      <4> QED
        BY <4>2, <4>3, Zenon
    <3>4. behind \in Seq(Frames)
      <4>1. n \in 0 .. Len(srvBuf[cur]) /\ srvBuf[cur] \in Seq(Frames)
        BY <3>1 DEF TypeOK
      <4> QED
        BY <4>1, CutQueue
    <3>5. tail \in Seq(Frames)
      <4> HIDE DEF behind
      <4> QED
        BY <3>3, <3>4, ConcatProperties
    <3>6. srvBuf'[cur] = <<f>> \o rest \o behind
      BY <3>1, <3>2 DEF TypeOK
    <3> HIDE DEF behind
    <3>7. srvBuf'[cur] # <<>>
      <4>1. /\ <<f>> \in Seq(Frames) /\ Len(<<f>>) = 1
            /\ <<f>> \o rest \in Seq(Frames)
            /\ Len(<<f>> \o rest) = 1 + Len(rest) /\ Len(rest) \in Nat
        BY <3>3, ConcatProperties
      <4>2. Len(srvBuf'[cur]) = Len(<<f>> \o rest) + Len(behind) /\ Len(behind) \in Nat
        BY <3>4, <3>6, <4>1, ConcatProperties
      <4>3. Len(<<>>) = 0
        OBVIOUS
      <4> QED
        BY <4>1, <4>2, <4>3
    <3>8. UNCHANGED <<backlog, fdOf, down, mode, pending, clients, pc, cur>>
      BY <2>5 DEF FrameCompletes
    <3>9. LoopShape'
      BY <2>1, <3>1, <3>7, <3>8 DEF LoopShape
    <3> QED
      BY <3>8, <3>9, SameBooks DEF Bookkeeping
  <2> QED
    BY <1>13, <2>2, <2>3, <2>4, <2>5 DEF Handle, HandleRequest, HandleSubscribe,
       HandleUnsubscribe, HandleEvent, HandleUnknown
<1>14. CASE Flush
  <2>1. cur \in clients /\ cur \in Fds /\ out[cur] \in Seq(Frames)
    BY <1>14 DEF Flush, Bookkeeping, LoopShape, TypeOK
  <2>2. /\ fdOf[cur] \in Conns /\ Sent \in 0 .. Len(out[cur])
        /\ Len(down[fdOf[cur]]) + Sent <= SockCap
    BY <2>1, SentBound DEF Bookkeeping
  <2> DEFINE part == SubSeq(out[cur], 1, Sent)
  <2>3. part \in Seq(Frames) /\ Len(part) = Sent
    BY <2>1, <2>2, CutQueue
  <2>4. down' = [down EXCEPT ![fdOf[cur]] = @ \o part]
    BY <1>14 DEF Flush
  <2> HIDE DEF part
  <2>5. Len(down'[fdOf[cur]]) <= SockCap
    <3>1. down[fdOf[cur]] \in Seq(Frames) /\ down'[fdOf[cur]] = down[fdOf[cur]] \o part
      BY <2>2, <2>4 DEF TypeOK
    <3>2. Len(down'[fdOf[cur]]) = Len(down[fdOf[cur]]) + Sent
      BY <2>3, <3>1, ConcatProperties
    <3> QED
      BY <2>2, <3>2
  <2>6. \A k \in Conns : k # fdOf[cur] => down'[k] = down[k]
    BY <2>4 DEF TypeOK
  <2>7. UNCHANGED <<backlog, fdOf, mode, pending, clients>> /\ pc' = "loop"
    BY <1>14 DEF Flush, Return
  <2>8. DescriptorsAccounted' /\ PeersOpened'
    BY <1>0, <2>7 DEF DescriptorsAccounted, PeersOpened, Free
  <2>9. \A k \in Conns : Connected(k)' <=> Connected(k)
    BY <2>7 DEF Connected, Attached
  <2>10. DownBounded'
    BY <1>0, <2>5, <2>6, <2>7, <2>9 DEF DownBounded
  <2>11. LoopShape'
    BY <2>7 DEF LoopShape
  <2> QED
    BY <2>8, <2>10, <2>11 DEF Bookkeeping
<1> QED
  BY <1>1, <1>2, <1>4, <1>5, <1>6, <1>7, <1>9, <1>10, <1>11, <1>13, <1>14
     DEF Loop, Parked

LEMMA BooksStep == IInv /\ [Next]_vars => Bookkeeping'
<1> SUFFICES ASSUME IInv, [Next]_vars PROVE Bookkeeping'
  OBVIOUS
<1> USE DEF kernel, client, history, bus, loop
<1>0. TypeOK /\ Bookkeeping
  BY DEF IInv
<1>1. CASE UNCHANGED vars \/ Publish
  <2>1. UNCHANGED <<backlog, fdOf, down, mode, pending, clients, srvBuf, pc, cur>>
    BY <1>1 DEF vars, Publish
  <2>2. LoopShape'
    BY <1>0, <2>1 DEF Bookkeeping, LoopShape
  <2> QED
    BY <1>0, <2>1, <2>2, SameBooks DEF Bookkeeping
<1>2. CASE Loop
  BY <1>0, <1>2, LoopBooks
<1>3. CASE Stop
  <2>1. /\ pc' = "stopped" /\ \A fd \in Fds : fdOf'[fd] = NoConn
        /\ backlog' = {} /\ pending' = {} /\ clients' = {}
        /\ UNCHANGED <<mode, down>>
    BY <1>3 DEF Stop
  <2>2. LoopShape'
    BY <2>1 DEF LoopShape
  <2>3. DescriptorsAccounted' /\ PeersOpened'
    BY <2>1 DEF DescriptorsAccounted, PeersOpened, Free
  <2>4. DownBounded'
    BY <1>0, <2>1 DEF Bookkeeping, DownBounded, Connected, Attached
  <2> QED
    BY <2>2, <2>3, <2>4 DEF Bookkeeping
<1>4. ASSUME NEW k \in Conns, Client(k) PROVE Bookkeeping'
  BY <1>0, <1>4, ClientBooks
<1> QED
  BY <1>1, <1>2, <1>3, <1>4 DEF Next

-----------------------------------------------------------------------------
(* What a descriptor's next client finds, and when POLLOUT is asked for.    *)

(* An event that is queued wakes its recipients, who are framed clients.    *)
LEMMA PublishedQueues ==
  ASSUME TypeOK, NothingInherited, PollOutMatchesQueue,
         NEW e, e = NoFrame \/ e \in Frames
  PROVE  /\ \A fd \in Fds \ clients : /\ Published(e)[fd] = <<>>
                                      /\ ~Woken(e)[fd]
         /\ \A fd \in clients : Woken(e)[fd] <=> Published(e)[fd] # <<>>
<1>1. \A fd \in Fds : /\ Published(e)[fd] = IF fd \in Recipients(e)
                                            THEN Append(out[fd], e) ELSE out[fd]
                      /\ Woken(e)[fd] <=> wantPollOut[fd] \/ fd \in Recipients(e)
  BY DEF Published, Woken, TypeOK
<1>2. Recipients(e) \subseteq clients /\ (e = NoFrame => Recipients(e) = {})
  BY DEF Recipients
<1>3. ASSUME NEW fd \in Recipients(e) PROVE Append(out[fd], e) # <<>>
  <2>1. e \in Frames /\ out[fd] \in Seq(Frames)
    BY <1>2, <1>3 DEF TypeOK
  <2> QED
    BY <2>1, AppendProperties
<1>4. clients \subseteq Fds
  BY DEF TypeOK
<1> QED
  BY <1>1, <1>2, <1>3, <1>4 DEF NothingInherited, PollOutMatchesQueue

LEMMA QueuesKept ==
  ASSUME NothingInherited, PollOutMatchesQueue,
         UNCHANGED <<clients, srvBuf, out, wantPollOut, subscriptions>>
  PROVE  NothingInherited' /\ PollOutMatchesQueue'
BY DEF NothingInherited, PollOutMatchesQueue

LEMMA LoopQueues ==
  ASSUME TypeOK, Bookkeeping, NothingInherited, PollOutMatchesQueue, Loop
  PROVE  NothingInherited' /\ PollOutMatchesQueue'
<1> USE DEF kernel, client, history, bus, loop
<1> DEFINE Subscribed == \A t \in Topics : subscriptions[t] \subseteq clients
           Empty == \A fd \in Fds \ clients :
                      out[fd] = <<>> /\ srvBuf[fd] = <<>> /\ ~wantPollOut[fd]
<1>0. clients \subseteq Fds /\ Subscribed /\ Empty
  BY DEF TypeOK, NothingInherited
<1>1. CASE Poll \/ Accept \/ AcceptEnds \/ Ignore \/ ParkedHungUp \/ NothingToRead
  BY <1>1, QueuesKept DEF Poll, Accept, AcceptEnds, Ignore, ParkedHungUp,
     NothingToRead
<1>2. ASSUME NEW fd \in Fds, Expire(fd)
      PROVE  NothingInherited' /\ PollOutMatchesQueue'
  BY <1>2, QueuesKept DEF Expire
<1>3. CASE ParkedFramed
  <2>1. /\ cur \in Fds \ clients /\ clients' = clients \cup {cur}
        /\ UNCHANGED <<srvBuf, out, wantPollOut, subscriptions>>
    BY <1>3 DEF ParkedFramed, Bookkeeping, DescriptorsAccounted, TypeOK
  <2>2. NothingInherited'
    BY <1>0, <2>1 DEF NothingInherited
  <2>3. PollOutMatchesQueue'
    BY <1>0, <2>1 DEF PollOutMatchesQueue
  <2> QED
    BY <2>2, <2>3
<1>4. ASSUME NEW e, e = NoFrame \/ e \in Frames,
             out' = Published(e), wantPollOut' = Woken(e),
             UNCHANGED <<clients, srvBuf, subscriptions>>
      PROVE  NothingInherited' /\ PollOutMatchesQueue'
  <2>1. /\ \A fd \in Fds \ clients : out'[fd] = <<>> /\ ~wantPollOut'[fd]
        /\ \A fd \in clients : wantPollOut'[fd] <=> out'[fd] # <<>>
    BY <1>4, PublishedQueues
  <2>2. NothingInherited'
    BY <1>0, <1>4, <2>1 DEF NothingInherited
  <2>3. PollOutMatchesQueue'
    BY <1>4, <2>1 DEF PollOutMatchesQueue
  <2> QED
    BY <2>2, <2>3
<1>5. CASE ParkedLegacy
  <2>1. PICK e \in NewEvents :
          out' = Published(e) /\ wantPollOut' = Woken(e) /\ Numbered(e)
    BY <1>5 DEF ParkedLegacy
  <2>2. UNCHANGED <<clients, srvBuf, subscriptions>>
    BY <1>5 DEF ParkedLegacy
  <2> QED
    BY <1>4, <2>1, <2>2, NewEventTypes
<1>6. ASSUME cur \in clients, DropClient(cur)
      PROVE  NothingInherited' /\ PollOutMatchesQueue'
  <2>1. clients' = clients \ {cur}
    BY <1>6 DEF DropClient
  <2>2. \A t \in Topics : subscriptions'[t] = subscriptions[t] \ {cur}
    BY <1>6 DEF DropClient, Unsubscribed
  <2>3. \A fd \in Fds :
          /\ srvBuf'[fd] = IF fd = cur THEN <<>> ELSE srvBuf[fd]
          /\ out'[fd] = IF fd = cur THEN <<>> ELSE out[fd]
    BY <1>6 DEF DropClient, TypeOK
  <2>4. \A fd \in Fds : wantPollOut'[fd] = IF fd = cur THEN FALSE ELSE wantPollOut[fd]
    BY <1>6 DEF DropClient, TypeOK
  <2>5. NothingInherited'
    BY <1>0, <2>1, <2>2, <2>3, <2>4 DEF NothingInherited
  <2>6. PollOutMatchesQueue'
    BY <1>0, <2>1, <2>3, <2>4 DEF PollOutMatchesQueue
  <2> QED
    BY <2>5, <2>6
<1>7. CASE HungUp
  BY <1>6, <1>7 DEF HungUp
<1>8. CASE FlushFails
  BY <1>6, <1>8 DEF FlushFails, Bookkeeping, LoopShape
<1>9. CASE Receive
  <2>1. /\ cur \in clients /\ UNCHANGED <<clients, out, wantPollOut, subscriptions>>
        /\ \A fd \in Fds \ {cur} : srvBuf'[fd] = srvBuf[fd]
    BY <1>9 DEF Receive, TypeOK
  <2>2. NothingInherited'
    BY <1>0, <2>1 DEF NothingInherited
  <2>3. PollOutMatchesQueue'
    BY <2>1 DEF PollOutMatchesQueue
  <2> QED
    BY <2>2, <2>3
<1>10. ASSUME pc = "frames", TakeFrame
       PROVE  /\ cur \in clients /\ cur \in Fds /\ frame.id \in Nat
              /\ frame \in Frames /\ clients' = clients
              /\ \A fd \in Fds \ clients : srvBuf'[fd] = <<>>
  <2>1. cur \in clients /\ cur \in Fds /\ frame.id \in Nat /\ frame \in Frames
    BY <1>10, TakenFrame DEF Bookkeeping
  <2>2. clients' = clients /\ \A fd \in Fds \ {cur} : srvBuf'[fd] = srvBuf[fd]
    BY <1>10, <2>1 DEF TakeFrame, TypeOK
  <2> QED
    BY <1>0, <2>1, <2>2
<1>11. ASSUME pc = "frames", TakeFrame, NEW o \in [Fds -> Seq(Frames)],
              NEW w \in [Fds -> BOOLEAN], NEW f \in Frames, Reply(o, f),
              wantPollOut' = [w EXCEPT ![cur] = TRUE],
              \A fd \in Fds \ clients : o[fd] = <<>> /\ ~w[fd],
              \A fd \in clients : w[fd] <=> o[fd] # <<>>,
              \A t \in Topics : subscriptions'[t] \subseteq clients
       PROVE  NothingInherited' /\ PollOutMatchesQueue'
  <2>1. /\ cur \in clients /\ cur \in Fds /\ clients' = clients
        /\ \A fd \in Fds \ clients : srvBuf'[fd] = <<>>
    BY <1>10, <1>11
  <2>2. out' = [o EXCEPT ![cur] = Append(o[cur], f)]
    BY <1>11 DEF Reply
  <2>3. Append(o[cur], f) # <<>>
    <3>1. o[cur] \in Seq(Frames)
      BY <2>1
    <3> QED
      BY <3>1, AppendProperties
  <2>4. \A fd \in Fds : out'[fd] = IF fd = cur THEN Append(o[cur], f) ELSE o[fd]
    BY <2>2
  <2>5. \A fd \in Fds : wantPollOut'[fd] = IF fd = cur THEN TRUE ELSE w[fd]
    BY <1>11
  <2>6. NothingInherited'
    BY <1>11, <2>1, <2>4, <2>5 DEF NothingInherited
  <2>7. PollOutMatchesQueue'
    BY <1>0, <1>11, <2>1, <2>3, <2>4, <2>5 DEF PollOutMatchesQueue
  <2> QED
    BY <2>6, <2>7
<1>12. CASE Handle
  <2>1. pc = "frames"
    BY <1>12 DEF Handle, HandleRequest, HandleSubscribe, HandleUnsubscribe,
                 HandleEvent, HandleUnknown, HandleCorrupt, FrameWaits,
                 FrameCompletes, AtFrame
  <2>2. out \in [Fds -> Seq(Frames)] /\ wantPollOut \in [Fds -> BOOLEAN]
    BY DEF TypeOK
  <2>3. CASE HandleRequest
    <3>1. PICK e \in NewEvents :
            /\ Reply(Published(e), Response(frame.id))
            /\ wantPollOut' = [Woken(e) EXCEPT ![cur] = TRUE]
            /\ Numbered(e)
      BY <2>3 DEF HandleRequest
    <3>2. TakeFrame /\ subscriptions' = subscriptions
      BY <2>3 DEF HandleRequest
    <3>3. Response(frame.id) \in Frames
      BY <1>10, <2>1, <3>2, FrameTypes
    <3>4. e = NoFrame \/ e \in Frames
      BY NewEventTypes
    <3>5. Published(e) \in [Fds -> Seq(Frames)] /\ Woken(e) \in [Fds -> BOOLEAN]
      BY <3>4, PublishedTypes
    <3>6. /\ \A fd \in Fds \ clients : Published(e)[fd] = <<>> /\ ~Woken(e)[fd]
          /\ \A fd \in clients : Woken(e)[fd] <=> Published(e)[fd] # <<>>
      BY <3>4, PublishedQueues
    <3> QED
      BY <1>0, <1>11, <2>1, <3>1, <3>2, <3>3, <3>5, <3>6
  <2>4. ASSUME TakeFrame, Acknowledge,
               \A t \in Topics : subscriptions'[t] \subseteq clients
        PROVE  NothingInherited' /\ PollOutMatchesQueue'
    <3>1. Ack(frame.id) \in Frames
      BY <1>10, <2>1, <2>4, FrameTypes
    <3>2. Reply(out, Ack(frame.id)) /\ wantPollOut' = [wantPollOut EXCEPT ![cur] = TRUE]
      BY <2>4 DEF Acknowledge
    <3>3. \A fd \in clients : wantPollOut[fd] <=> out[fd] # <<>>
      BY DEF PollOutMatchesQueue
    <3> QED
      BY <1>0, <1>11, <2>1, <2>2, <2>4, <3>1, <3>2, <3>3
  <2>5. CASE HandleSubscribe
    <3>1. TakeFrame /\ Acknowledge /\ cur \in clients
      BY <1>10, <2>1, <2>5 DEF HandleSubscribe
    <3>2. \A t \in Topics : subscriptions'[t] \subseteq subscriptions[t] \cup {cur}
      BY <2>5 DEF HandleSubscribe, TypeOK
    <3> QED
      BY <1>0, <2>4, <3>1, <3>2
  <2>6. CASE HandleUnsubscribe
    <3>1. TakeFrame /\ Acknowledge
      BY <2>6 DEF HandleUnsubscribe
    <3>2. \A t \in Topics : subscriptions'[t] \subseteq subscriptions[t]
      BY <2>6 DEF HandleUnsubscribe, TypeOK
    <3> QED
      BY <1>0, <2>4, <3>1, <3>2
  <2>7. CASE HandleEvent
    <3>1. /\ TakeFrame /\ out' = Published(frame) /\ wantPollOut' = Woken(frame)
          /\ subscriptions' = subscriptions
      BY <2>7 DEF HandleEvent
    <3>2. /\ frame \in Frames /\ clients' = clients /\ clients \subseteq Fds
          /\ \A fd \in Fds \ clients : srvBuf'[fd] = <<>>
      BY <1>0, <1>10, <2>1, <3>1
    <3>3. /\ \A fd \in Fds \ clients : out'[fd] = <<>> /\ ~wantPollOut'[fd]
          /\ \A fd \in clients : wantPollOut'[fd] <=> out'[fd] # <<>>
      BY <3>1, <3>2, PublishedQueues
    <3>4. NothingInherited'
      BY <1>0, <3>1, <3>2, <3>3 DEF NothingInherited
    <3>5. PollOutMatchesQueue'
      BY <3>2, <3>3 DEF PollOutMatchesQueue
    <3> QED
      BY <3>4, <3>5
  <2>8. CASE HandleCorrupt
    BY <1>6, <2>1, <2>8 DEF HandleCorrupt, Bookkeeping, LoopShape
  <2>9. CASE HandleUnknown
    <3>1. TakeFrame /\ UNCHANGED <<out, wantPollOut, subscriptions>>
      BY <2>9 DEF HandleUnknown
    <3>2. clients' = clients /\ \A fd \in Fds \ clients : srvBuf'[fd] = <<>>
      BY <1>10, <2>1, <3>1
    <3>3. NothingInherited'
      BY <1>0, <3>1, <3>2 DEF NothingInherited
    <3>4. PollOutMatchesQueue'
      BY <3>1, <3>2 DEF PollOutMatchesQueue
    <3> QED
      BY <3>3, <3>4
  <2>10. CASE FrameWaits
    BY <2>10, QueuesKept DEF FrameWaits
  <2>11. CASE FrameCompletes
    <3>1. /\ cur \in clients /\ UNCHANGED <<clients, out, wantPollOut, subscriptions>>
          /\ \A fd \in Fds \ {cur} : srvBuf'[fd] = srvBuf[fd]
      <4>1. cur \in clients
        BY <2>1 DEF Bookkeeping, LoopShape
      <4>2. \A fd \in Fds \ {cur} : srvBuf'[fd] = srvBuf[fd]
        BY <2>11 DEF FrameCompletes, TypeOK
      <4> QED
        BY <2>11, <4>1, <4>2 DEF FrameCompletes
    <3>2. NothingInherited'
      BY <1>0, <3>1 DEF NothingInherited
    <3>3. PollOutMatchesQueue'
      BY <3>1 DEF PollOutMatchesQueue
    <3> QED
      BY <3>2, <3>3
  <2> QED
    BY <1>12, <2>3, <2>5, <2>6, <2>7, <2>8, <2>9, <2>10, <2>11 DEF Handle
<1>13. CASE Flush
  <2>1. cur \in clients /\ cur \in Fds /\ out[cur] \in Seq(Frames)
    BY <1>13 DEF Flush, Bookkeeping, LoopShape, TypeOK
  <2>2. Sent \in 0 .. Len(out[cur])
    BY <2>1, SentBound DEF Bookkeeping
  <2> DEFINE rest == SubSeq(out[cur], Sent + 1, Len(out[cur]))
             n == Sent
  <2>3. /\ out' = [out EXCEPT ![cur] = rest]
        /\ wantPollOut' = [wantPollOut EXCEPT ![cur] = n < Len(out[cur])]
        /\ UNCHANGED <<clients, srvBuf, subscriptions>>
    BY <1>13 DEF Flush, StillWanted
  <2>4. /\ rest \in Seq(Frames) /\ Len(rest) = Len(out[cur]) - n
        /\ n \in Nat /\ n <= Len(out[cur]) /\ Len(out[cur]) \in Nat
    BY <2>1, <2>2, CutQueue
  <2> HIDE DEF rest, n
  <2>5. n < Len(out[cur]) <=> rest # <<>>
    <3>1. rest # <<>> <=> Len(rest) # 0
      BY <2>4, EmptySeq
    <3> QED
      BY <2>4, <3>1
  <2>6. \A fd \in Fds : out'[fd] = IF fd = cur THEN rest ELSE out[fd]
    BY <2>3 DEF TypeOK
  <2>7. wantPollOut'[cur] = (n < Len(out[cur]))
        /\ \A fd \in Fds \ {cur} : wantPollOut'[fd] = wantPollOut[fd]
    BY <2>1, <2>3 DEF TypeOK
  <2>8. NothingInherited'
    BY <1>0, <2>1, <2>3, <2>6, <2>7 DEF NothingInherited
  <2>9. PollOutMatchesQueue'
    <3>1. wantPollOut'[cur] <=> rest # <<>>
      BY <2>5, <2>7, Zenon
    <3>2. out'[cur] = rest /\ clients' = clients
      BY <2>1, <2>3, <2>6
    <3>3. ASSUME NEW fd \in clients, fd # cur
          PROVE  wantPollOut'[fd] = wantPollOut[fd] /\ out'[fd] = out[fd]
      BY <1>0, <2>6, <2>7, <3>3
    <3> QED
      BY <3>1, <3>2, <3>3 DEF PollOutMatchesQueue
  <2> QED
    BY <2>8, <2>9
<1> QED
  BY <1>1, <1>2, <1>3, <1>5, <1>7, <1>8, <1>9, <1>12, <1>13 DEF Loop, Parked

LEMMA QueuesStep == IInv /\ [Next]_vars => NothingInherited' /\ PollOutMatchesQueue'
<1> SUFFICES ASSUME IInv, [Next]_vars PROVE NothingInherited' /\ PollOutMatchesQueue'
  OBVIOUS
<1>0. TypeOK /\ Bookkeeping /\ NothingInherited /\ PollOutMatchesQueue
  BY DEF IInv
<1>1. CASE UNCHANGED vars
  BY <1>0, <1>1, QueuesKept DEF vars, bus
<1>2. CASE Loop
  BY <1>0, <1>2, LoopQueues
<1>3. CASE Publish
  <2>1. PICK e \in NewEvents :
          out' = Published(e) /\ wantPollOut' = Woken(e) /\ Numbered(e)
    BY <1>3 DEF Publish
  <2>2. UNCHANGED <<clients, srvBuf, subscriptions>>
    BY <1>3 DEF Publish
  <2>3. /\ \A fd \in Fds \ clients : out'[fd] = <<>> /\ ~wantPollOut'[fd]
        /\ \A fd \in clients : wantPollOut'[fd] <=> out'[fd] # <<>>
    BY <1>0, <2>1, NewEventTypes, PublishedQueues
  <2>4. NothingInherited'
    BY <1>0, <2>2, <2>3 DEF NothingInherited
  <2>5. PollOutMatchesQueue'
    BY <2>2, <2>3 DEF PollOutMatchesQueue
  <2> QED
    BY <2>4, <2>5
<1>4. CASE Stop
  BY <1>4 DEF Stop, NothingInherited, PollOutMatchesQueue
<1>5. ASSUME NEW k \in Conns, Client(k) PROVE NothingInherited' /\ PollOutMatchesQueue'
  <2>1. UNCHANGED bus
    BY <1>5 DEF Client, Connect, Calls, Request, LegacyCommand, Subscribe,
         SubscribeAsync, Unsubscribe, ClientPublish, Call, Send, SendPart,
         SendNothing, Reads, PumpFrame, PumpRead, OnFdReady, Timeout, Disconnect
  <2> QED
    BY <1>0, <2>1, QueuesKept DEF bus
<1> QED
  BY <1>1, <1>2, <1>3, <1>4, <1>5 DEF Next

-----------------------------------------------------------------------------
LEMMA InitInv == Init => IInv
<1> SUFFICES ASSUME Init PROVE IInv
  OBVIOUS
<1>1. TypeOK
  BY InitTypes
<1>2. LoopShape /\ DescriptorsAccounted /\ PeersOpened
  BY DEF Init, LoopShape, DescriptorsAccounted, PeersOpened, Free
<1>3. DownBounded
  <2>1. Len(<<>>) = 0
    OBVIOUS
  <2> QED
    BY <2>1 DEF Init, DownBounded
<1>4. NothingInherited /\ PollOutMatchesQueue
  BY DEF Init, NothingInherited, PollOutMatchesQueue
<1> QED
  BY <1>1, <1>2, <1>3, <1>4 DEF IInv, Bookkeeping

(* The inductive invariant holds in every reachable state of the bus.       *)
THEOREM Invariance == Spec => []IInv
<1>1. Init => IInv
  BY InitInv
<1>2. IInv /\ [Next]_vars => IInv'
  BY TypeStep, BooksStep, QueuesStep DEF IInv
<1> QED
  BY <1>1, <1>2, PTL DEF Spec

(* Every field of the clients, the server and the loop keeps its range: in  *)
(* particular only typed frames are ever queued.                            *)
THEOREM TypeCorrect == Spec => []TypeOK
<1>1. IInv => TypeOK
  BY DEF IInv
<1> QED
  BY <1>1, Invariance, PTL

(* No path of on_fd_ready, expiry and failure included, leaks a descriptor, *)
(* keeps one that is closed or has it both parked and framed.               *)
THEOREM NoDescriptorLeaks == Spec => []DescriptorsAccounted
<1>1. IInv => DescriptorsAccounted
  BY DEF IInv, Bookkeeping
<1> QED
  BY <1>1, Invariance, PTL

(* A client that is given the descriptor number of an earlier one finds no  *)
(* subscription, no queue and no input of it.                               *)
THEOREM ReuseIsClean == Spec => []NothingInherited
<1>1. IInv => NothingInherited
  BY DEF IInv
<1> QED
  BY <1>1, Invariance, PTL

(* The poll interest of a client is exact: no output is stranded and no     *)
(* idle client keeps the loop spinning.                                     *)
THEOREM PollInterestExact == Spec => []PollOutMatchesQueue
<1>1. IInv => PollOutMatchesQueue
  BY DEF IInv
<1> QED
  BY <1>1, Invariance, PTL

=============================================================================
