------------------------- MODULE IpcDeliveryProofs -------------------------
(* What the IPC bus delivers: every call is answered once and in turn, and  *)
(* the bus implements publish/subscribe.  Each step is reduced to what it   *)
(* does to the two queues of a connection, all the frames on their way back *)
(* to the client and all those on their way forth to the server.            *)
EXTENDS IpcBusProofs, SubsequenceProofs

(* A step leaves both queues of k alone; lets the client send f; takes the  *)
(* first frames r off the way back; queues the frames r for the client;     *)
(* serves the frame the loop is at, with the frames r for an answer; takes  *)
(* it for f, with what follows it for its rest and for r; or cuts k off,    *)
(* losing r and all the server has not read.                                *)
Kept(k)      == Back(k)' = Back(k) /\ Forth(k)' = Forth(k)
Asked(k, f)  == Back(k)' = Back(k) /\ Forth(k)' = Cat(Forth(k), One(f))
Taken(k, r)  == Back(k) = Cat(r, Back(k)') /\ Forth(k)' = Forth(k)
Queued(k, r) == Back(k)' = Cat(Back(k), r) /\ Forth(k)' = Forth(k)
Served(k, r) == /\ frame \in Frames
                /\ Back(k)' = Cat(Back(k), r) /\ Forth(k) = Cat(One(frame), Forth(k)')
Mistaken(k, f, r) ==
  /\ Back(k)' = Back(k)
  /\ \E g, w \in Seq(Frames) : /\ Forth(k) = Cat(One(frame), Cat(g, w))
                              /\ Forth(k)' = Cat(One(f), Cat(r, w))
Severed(k, r) == /\ Back(k) = Cat(Back(k)', r) /\ Forth(k)' = <<>>
                 /\ ~Connected(k)'

USE BoundsAssumption, NoneAssumption

-----------------------------------------------------------------------------
(* The queues of a connection are those of its two ends and of the socket.  *)

Lanes(k) ==
  /\ cliBuf[k] \in Seq(Frames) /\ down[k] \in Seq(Frames) /\ up[k] \in Seq(Frames)
  /\ OutOf(k) \in Seq(Frames) /\ InOf(k) \in Seq(Frames)
  /\ Back(k) = Cat(Cat(cliBuf[k], down[k]), OutOf(k))
  /\ Forth(k) = Cat(InOf(k), up[k])
  /\ Back(k) \in Seq(Frames) /\ Forth(k) \in Seq(Frames)
  /\ ~Attached(k) => OutOf(k) = <<>> /\ InOf(k) = <<>>
  /\ \A fd \in Fds : fdOf[fd] = k => /\ Attached(k)
                                     /\ OutOf(k) = out[fd] /\ InOf(k) = srvBuf[fd]

AllLanes == \A k \in Conns : Lanes(k)

LEMMA LanesNow == IInv => AllLanes
<1> SUFFICES ASSUME IInv, NEW k \in Conns PROVE Lanes(k)
  BY DEF AllLanes
<1>1. cliBuf[k] \in Seq(Frames) /\ down[k] \in Seq(Frames) /\ up[k] \in Seq(Frames)
  BY DEF IInv, TypeOK
<1>2. ~Attached(k) => OutOf(k) = <<>> /\ InOf(k) = <<>>
  BY DEF OutOf, InOf
<1>3. ASSUME NEW fd \in Fds, fdOf[fd] = k
      PROVE  /\ Attached(k) /\ OutOf(k) = out[fd] /\ InOf(k) = srvBuf[fd]
             /\ OutOf(k) \in Seq(Frames) /\ InOf(k) \in Seq(Frames)
  <2>1. Attached(k)
    BY <1>3 DEF Attached
  <2>2. k # NoConn
    OBVIOUS
  <2>3. ASSUME NEW g \in Fds, fdOf[g] = k PROVE g = fd
    BY <1>3, <2>2, <2>3 DEF IInv, Bookkeeping, DescriptorsAccounted, Free
  <2>4. (CHOOSE g \in Fds : fdOf[g] = k) = fd
    BY <1>3, <2>3
  <2>5. OutOf(k) = out[fd] /\ InOf(k) = srvBuf[fd]
    BY <2>1, <2>4 DEF OutOf, InOf
  <2>6. out[fd] \in Seq(Frames) /\ srvBuf[fd] \in Seq(Frames)
    BY DEF IInv, TypeOK
  <2> QED
    BY <2>1, <2>5, <2>6
<1>4. OutOf(k) \in Seq(Frames) /\ InOf(k) \in Seq(Frames)
  <2>1. CASE Attached(k)
    BY <1>3, <2>1 DEF Attached
  <2>2. CASE ~Attached(k)
    BY <1>2, <2>2, EmptySeq
  <2> QED
    BY <2>1, <2>2
<1>5. Back(k) = Cat(Cat(cliBuf[k], down[k]), OutOf(k)) /\ Forth(k) = Cat(InOf(k), up[k])
  BY DEF Back, Forth, Cat
<1>6. \A s, t \in Seq(Frames) : Cat(s, t) \in Seq(Frames)
  BY ONLY CatType
<1>7. Back(k) \in Seq(Frames) /\ Forth(k) \in Seq(Frames)
  BY <1>1, <1>4, <1>5, <1>6
<1> QED
  BY <1>1, <1>2, <1>3, <1>4, <1>5, <1>7 DEF Lanes

LEMMA LanesLater == IInv' => AllLanes'
BY LanesNow, PTL

(* While no descriptor is opened or closed, the ends stay the same.         *)
LEMMA SameEnds ==
  ASSUME IInv, IInv', fdOf' = fdOf, NEW k \in Conns
  PROVE  /\ Lanes(k) /\ Lanes(k)'
         /\ Attached(k)' <=> Attached(k)
         /\ (\A fd \in Fds : fdOf[fd] = k => out'[fd] = out[fd]) => OutOf(k)' = OutOf(k)
         /\ (\A fd \in Fds : fdOf[fd] = k => srvBuf'[fd] = srvBuf[fd])
              => InOf(k)' = InOf(k)
<1>1. Lanes(k) /\ Lanes(k)'
  BY LanesNow, LanesLater DEF AllLanes
<1>2. Attached(k)' <=> Attached(k)
  BY DEF Attached
<1>3. CASE Attached(k)
  <2>1. PICK fd \in Fds : fdOf[fd] = k
    BY <1>3 DEF Attached
  <2>2. /\ OutOf(k) = out[fd] /\ InOf(k) = srvBuf[fd]
        /\ OutOf(k)' = out'[fd] /\ InOf(k)' = srvBuf'[fd]
    BY <1>1, <2>1 DEF Lanes
  <2> QED
    BY <1>1, <1>2, <2>1, <2>2
<1>4. CASE ~Attached(k)
  BY <1>1, <1>2, <1>4 DEF Lanes
<1> QED
  BY <1>3, <1>4

(* The two queues, once the three pieces of each are known.                 *)
LEMMA Same ==
  ASSUME NEW k \in Conns, Lanes(k), Lanes(k)', cliBuf'[k] = cliBuf[k],
         down'[k] = down[k], OutOf(k)' = OutOf(k), InOf(k)' = InOf(k), up'[k] = up[k]
  PROVE  Kept(k)
BY DEF Lanes, Kept

-----------------------------------------------------------------------------
(* What the steps of a client do to the queues.                             *)

LEMMA SendPaths ==
  ASSUME IInv, IInv', NEW j \in Conns, NEW f \in Frames, Put(j, f),
         UNCHANGED <<fdOf, down, cliBuf, bus>>
  PROVE  Asked(j, f) /\ \A k \in Conns \ {j} : Kept(k)
<1> USE DEF Put, bus
<1>1. ASSUME NEW k \in Conns
      PROVE  /\ Lanes(k) /\ Lanes(k)' /\ cliBuf'[k] = cliBuf[k] /\ down'[k] = down[k]
             /\ OutOf(k)' = OutOf(k) /\ InOf(k)' = InOf(k)
  BY SameEnds
<1>2. \A k \in Conns : up'[k] = IF k = j THEN Append(up[j], f) ELSE up[k]
  BY DEF IInv, TypeOK
<1>3. \A k \in Conns \ {j} : Kept(k)
  BY <1>1, <1>2, Same
<1>4. Append(up[j], f) = Cat(up[j], One(f)) /\ One(f) \in Seq(Frames)
  <2>1. \A s \in Seq(Frames), e \in Frames :
          One(e) \in Seq(Frames) /\ Append(s, e) = Cat(s, One(e))
    BY ONLY CatOne
  <2> QED
    BY <1>1, <2>1 DEF Lanes
<1>5. Cat(Cat(InOf(j), up[j]), One(f)) = Cat(InOf(j), Cat(up[j], One(f)))
  <2>1. \A s, t, u \in Seq(Frames) : Cat(Cat(s, t), u) = Cat(s, Cat(t, u))
    BY ONLY CatAssoc
  <2>2. InOf(j) \in Seq(Frames) /\ up[j] \in Seq(Frames)
    BY <1>1 DEF Lanes
  <2> QED
    BY <1>4, <2>1, <2>2
<1>6. /\ Forth(j) = Cat(InOf(j), up[j]) /\ Forth(j)' = Cat(InOf(j), up'[j])
      /\ Back(j)' = Back(j)
  BY <1>1 DEF Lanes
<1>7. Asked(j, f)
  BY <1>2, <1>4, <1>5, <1>6 DEF Asked
<1> QED
  BY <1>3, <1>7

(* A client that reads or disconnects takes what it has read, or all of it. *)
LEMMA ReadPaths ==
  ASSUME IInv, IInv', NEW j \in Conns, UNCHANGED <<fdOf, up, bus>>,
         \A k \in Conns \ {j} : cliBuf'[k] = cliBuf[k] /\ down'[k] = down[k]
  PROVE  /\ \A k \in Conns \ {j} : Kept(k)
         /\ cliBuf[j] # <<>> /\ cliBuf'[j] = Tail(cliBuf[j]) /\ down'[j] = down[j]
              => Taken(j, One(Head(cliBuf[j]))) /\ Head(cliBuf[j]) \in Frames
         /\ cliBuf[j] = <<>> /\ cliBuf'[j] = down[j] /\ down'[j] = <<>> => Kept(j)
         /\ cliBuf'[j] = <<>> /\ down'[j] = <<>>
              => \E r \in Seq(Frames) : Taken(j, r)
<1> USE DEF bus
<1>1. ASSUME NEW k \in Conns
      PROVE  /\ Lanes(k) /\ Lanes(k)' /\ OutOf(k)' = OutOf(k) /\ InOf(k)' = InOf(k)
             /\ up'[k] = up[k] /\ Forth(k)' = Forth(k)
             /\ Back(k) = Cat(Cat(cliBuf[k], down[k]), OutOf(k))
             /\ Back(k)' = Cat(Cat(cliBuf'[k], down'[k]), OutOf(k))
  BY SameEnds DEF Lanes
<1>2. \A k \in Conns \ {j} : Kept(k)
  BY <1>1 DEF Kept
<1> DEFINE c == cliBuf[j]
           d == down[j]
           o == OutOf(j)
<1>3. c \in Seq(Frames) /\ d \in Seq(Frames) /\ o \in Seq(Frames)
  BY <1>1 DEF Lanes
<1>4. Back(j) = Cat(Cat(c, d), o) /\ Back(j)' = Cat(Cat(cliBuf'[j], down'[j]), o)
  BY <1>1
<1>5. \A s, t \in Seq(Frames) : Cat(s, t) \in Seq(Frames)
  BY ONLY CatType
<1>6. \A s, t, u \in Seq(Frames) : Cat(Cat(s, t), u) = Cat(s, Cat(t, u))
  BY ONLY CatAssoc
<1>7. /\ <<>> \in Seq(Frames)
      /\ \A s \in Seq(Frames) : Cat(s, <<>>) = s /\ Cat(<<>>, s) = s
  BY ONLY CatEmpty
<1>8. \A s \in Seq(Frames) : s # <<>> =>
           /\ s = Cat(One(Head(s)), Tail(s)) /\ Head(s) \in Frames
           /\ One(Head(s)) \in Seq(Frames) /\ Tail(s) \in Seq(Frames)
  BY ONLY CatHead
<1> HIDE DEF c, d, o
<1>9. ASSUME c # <<>>, cliBuf'[j] = Tail(c), down'[j] = d
      PROVE  Taken(j, One(Head(c))) /\ Head(c) \in Frames
  <2>1. PICK h \in Seq(Frames), t \in Seq(Frames) :
          h = One(Head(c)) /\ t = Tail(c) /\ c = Cat(h, t) /\ Head(c) \in Frames
    BY <1>3, <1>8, <1>9
  <2>2. Cat(t, d) \in Seq(Frames) /\ Cat(Cat(h, t), d) = Cat(h, Cat(t, d))
    BY <1>3, <1>5, <1>6
  <2>3. Cat(Cat(Cat(h, t), d), o) = Cat(h, Cat(Cat(t, d), o))
    BY <1>3, <1>6, <2>2
  <2>4. Back(j) = Cat(h, Back(j)')
    BY <1>4, <1>9, <2>1, <2>3
  <2> QED
    BY <1>1, <2>1, <2>4 DEF Taken
<1>10. ASSUME c = <<>>, cliBuf'[j] = d, down'[j] = <<>>
       PROVE  Kept(j)
  BY <1>1, <1>3, <1>4, <1>7, <1>10 DEF Kept
<1>11. ASSUME cliBuf'[j] = <<>>, down'[j] = <<>>
       PROVE  \E r \in Seq(Frames) : Taken(j, r)
  <2>1. Back(j)' = o
    BY <1>3, <1>4, <1>7, <1>11
  <2>2. Cat(c, d) \in Seq(Frames) /\ Taken(j, Cat(c, d))
    BY <1>1, <1>3, <1>4, <1>5, <2>1 DEF Taken
  <2> QED
    BY <2>2
<1> QED
  BY <1>2, <1>9, <1>10, <1>11 DEF c, d

(* A step that touches no queue.                                            *)
LEMMA StillPaths ==
  ASSUME IInv, IInv', UNCHANGED <<fdOf, up, down, cliBuf, srvBuf, out>>
  PROVE  \A k \in Conns : Kept(k)
BY SameEnds, Same

-----------------------------------------------------------------------------
(* What the steps of the loop do to them.                                   *)

(* An accepted connection has neither queue yet but what it sent itself.    *)
LEMMA AcceptPaths ==
  ASSUME IInv, IInv', Accept
  PROVE  \A k \in Conns : Kept(k) /\ (Connected(k)' <=> Connected(k))
<1>1. PICK j \in backlog, g \in Free :
        fdOf' = [fdOf EXCEPT ![g] = j] /\ backlog' = backlog \ {j}
  BY DEF Accept
<1>2. /\ j \in Conns /\ g \in Fds /\ fdOf[g] = NoConn
      /\ out[g] = <<>> /\ srvBuf[g] = <<>>
  BY DEF IInv, TypeOK, Free, Bookkeeping, DescriptorsAccounted, NothingInherited
<1>3. \A fd \in Fds : fdOf'[fd] = IF fd = g THEN j ELSE fdOf[fd]
  BY <1>1, <1>2 DEF IInv, TypeOK
<1>4. UNCHANGED <<up, down, cliBuf, srvBuf, out>>
  BY DEF Accept, client
<1>5. ~Attached(j)
  <2>1. \A fd \in Fds : fdOf[fd] = j => fd \notin Free
    BY <1>2 DEF Free
  <2> QED
    BY <1>1, <2>1 DEF IInv, Bookkeeping, DescriptorsAccounted, Attached
<1> SUFFICES ASSUME NEW k \in Conns
             PROVE  Kept(k) /\ (Connected(k)' <=> Connected(k))
  OBVIOUS
<1>6. Lanes(k) /\ Lanes(k)'
  BY LanesNow, LanesLater DEF AllLanes
<1>7. CASE k = j
  <2>1. fdOf'[g] = k
    BY <1>2, <1>3, <1>7
  <2>2. OutOf(k)' = <<>> /\ InOf(k)' = <<>> /\ Attached(k)'
    BY <1>2, <1>4, <1>6, <2>1 DEF Lanes
  <2>3. OutOf(k) = <<>> /\ InOf(k) = <<>>
    BY <1>5, <1>6, <1>7 DEF Lanes
  <2> QED
    BY <1>1, <1>4, <1>6, <1>7, <2>2, <2>3, Same DEF Connected
<1>8. CASE k # j
  <2>1. \A fd \in Fds : fdOf'[fd] = k <=> fdOf[fd] = k
    BY <1>2, <1>3, <1>8
  <2>2. Attached(k)' <=> Attached(k)
    BY <2>1 DEF Attached
  <2>3. OutOf(k)' = OutOf(k) /\ InOf(k)' = InOf(k)
    <3>1. CASE Attached(k)
      <4>1. PICK fd \in Fds : fdOf[fd] = k /\ fdOf'[fd] = k
        BY <2>1, <3>1 DEF Attached
      <4> QED
        BY <1>4, <1>6, <4>1 DEF Lanes
    <3>2. CASE ~Attached(k)
      BY <1>6, <2>2, <3>2 DEF Lanes
    <3> QED
      BY <3>1, <3>2
  <2> QED
    BY <1>1, <1>4, <1>6, <1>8, <2>2, <2>3, Same DEF Connected
<1> QED
  BY <1>7, <1>8

(* The ends of a connection when the descriptors of S are closed.           *)
LEMMA CloseEnds ==
  ASSUME IInv, IInv', NEW S \in SUBSET (pending \cup clients), Close(S),
         backlog' = backlog, NEW k \in Conns
  PROVE  /\ Lanes(k) /\ Lanes(k)'
         /\ (\E fd \in S : fdOf[fd] = k) =>
              /\ ~Connected(k)' /\ up'[k] = <<>>
              /\ OutOf(k)' = <<>> /\ InOf(k)' = <<>>
         /\ ~(\E fd \in S : fdOf[fd] = k) =>
              /\ up'[k] = up[k] /\ (Connected(k)' <=> Connected(k))
              /\ \/ /\ OutOf(k) = <<>> /\ InOf(k) = <<>> /\ ~Attached(k)
                    /\ OutOf(k)' = <<>> /\ InOf(k)' = <<>>
                 \/ \E fd \in Fds \ S :
                      /\ fdOf[fd] = k
                      /\ OutOf(k) = out[fd] /\ InOf(k) = srvBuf[fd]
                      /\ OutOf(k)' = out'[fd] /\ InOf(k)' = srvBuf'[fd]
<1>1. Lanes(k) /\ Lanes(k)'
  BY LanesNow, LanesLater DEF AllLanes
<1>2. \A fd \in Fds : fdOf'[fd] = IF fd \in S THEN NoConn ELSE fdOf[fd]
  BY DEF Close
<1>3. up'[k] = IF \E fd \in S : fdOf[fd] = k THEN <<>> ELSE up[k]
  BY DEF Close
<1>4. S \subseteq Fds \ Free
  BY DEF IInv, Bookkeeping, DescriptorsAccounted
<1>5. k # NoConn
  OBVIOUS
<1>6. ASSUME NEW fd \in S, fdOf[fd] = k
      PROVE  ~Attached(k)' /\ k \notin backlog
  <2>1. \A g \in Fds : fdOf[g] = k => g = fd
    BY <1>4, <1>5, <1>6 DEF IInv, Bookkeeping, DescriptorsAccounted, Free
  <2>2. \A g \in Fds : fdOf'[g] # k
    BY <1>2, <1>5, <2>1
  <2>3. k \notin backlog
    BY <1>4, <1>6 DEF IInv, Bookkeeping, DescriptorsAccounted
  <2> QED
    BY <2>2, <2>3 DEF Attached
<1>7. CASE \E fd \in S : fdOf[fd] = k
  <2>1. ~Attached(k)' /\ k \notin backlog
    BY <1>6, <1>7
  <2>2. ~Connected(k)'
    BY <2>1 DEF Connected
  <2>3. OutOf(k)' = <<>> /\ InOf(k)' = <<>>
    BY <1>1, <2>1 DEF Lanes
  <2> QED
    BY <1>1, <1>3, <1>7, <2>2, <2>3
<1>8. CASE ~\E fd \in S : fdOf[fd] = k
  <2>1. \A fd \in Fds : fdOf'[fd] = k <=> fdOf[fd] = k
    BY <1>2, <1>5, <1>8
  <2>2. (Attached(k)' <=> Attached(k)) /\ (Connected(k)' <=> Connected(k))
    BY <2>1 DEF Attached, Connected
  <2>3. CASE Attached(k)
    <3>1. PICK fd \in Fds \ S : fdOf[fd] = k /\ fdOf'[fd] = k
      BY <1>8, <2>1, <2>3 DEF Attached
    <3>2. /\ OutOf(k) = out[fd] /\ InOf(k) = srvBuf[fd]
          /\ OutOf(k)' = out'[fd] /\ InOf(k)' = srvBuf'[fd]
      BY <1>1, <3>1 DEF Lanes
    <3> QED
      BY <1>1, <1>3, <1>8, <2>2, <3>1, <3>2
  <2>4. CASE ~Attached(k)
    <3>1. /\ OutOf(k) = <<>> /\ InOf(k) = <<>>
          /\ OutOf(k)' = <<>> /\ InOf(k)' = <<>>
      BY <1>1, <2>2, <2>4 DEF Lanes
    <3> QED
      BY <1>1, <1>3, <1>8, <2>2, <2>4, <3>1
  <2> QED
    BY <2>3, <2>4
<1> QED
  BY <1>7, <1>8

(* Connections that are closed lose what is queued; the others keep all.    *)
LEMMA CutPaths ==
  ASSUME IInv, IInv', NEW S \in SUBSET (pending \cup clients), Close(S),
         UNCHANGED <<backlog, cliBuf, down>>,
         \A fd \in Fds \ S : out'[fd] = out[fd] /\ srvBuf'[fd] = srvBuf[fd]
  PROVE  \A k \in Conns :
           IF \E fd \in S : fdOf[fd] = k
           THEN Severed(k, OutOf(k)) /\ OutOf(k) \in Seq(Frames)
           ELSE Kept(k) /\ (Connected(k)' <=> Connected(k))
<1> SUFFICES ASSUME NEW k \in Conns
             PROVE  IF \E fd \in S : fdOf[fd] = k
                    THEN Severed(k, OutOf(k)) /\ OutOf(k) \in Seq(Frames)
                    ELSE Kept(k) /\ (Connected(k)' <=> Connected(k))
  OBVIOUS
<1>1. Lanes(k) /\ Lanes(k)'
  BY CloseEnds
<1>2. CASE \E fd \in S : fdOf[fd] = k
  <2>1. /\ ~Connected(k)' /\ up'[k] = <<>>
        /\ OutOf(k)' = <<>> /\ InOf(k)' = <<>>
    BY <1>2, CloseEnds
  <2>2. /\ <<>> \in Seq(Frames)
        /\ \A t \in Seq(Frames) : Cat(t, <<>>) = t /\ Cat(<<>>, t) = t
    BY ONLY CatEmpty
  <2>3. \A t, u \in Seq(Frames) : Cat(t, u) \in Seq(Frames)
    BY ONLY CatType
  <2>4. /\ Back(k)' = Cat(Cat(cliBuf[k], down[k]), <<>>) /\ Forth(k)' = <<>>
        /\ Back(k) = Cat(Cat(cliBuf[k], down[k]), OutOf(k))
        /\ Cat(cliBuf[k], down[k]) \in Seq(Frames) /\ OutOf(k) \in Seq(Frames)
    BY <1>1, <2>1, <2>2, <2>3 DEF Lanes
  <2> QED
    BY <1>2, <2>1, <2>2, <2>4 DEF Severed
<1>3. CASE ~\E fd \in S : fdOf[fd] = k
  <2>1. up'[k] = up[k] /\ (Connected(k)' <=> Connected(k))
    BY <1>3, CloseEnds
  <2>2. OutOf(k)' = OutOf(k) /\ InOf(k)' = InOf(k)
    BY <1>3, CloseEnds
  <2>3. Kept(k)
    BY <1>1, <2>1, <2>2, Same
  <2> QED
    BY <1>3, <2>1, <2>3
<1> QED
  BY <1>2, <1>3

(* What publish of e queues for k.                                          *)
Copy(k, e) == IF \E fd \in Recipients(e) : fdOf[fd] = k THEN One(e) ELSE <<>>

LEMMA CopyTypes ==
  ASSUME IInv, NEW e, e = NoFrame \/ e \in Frames, NEW k \in Conns
  PROVE  /\ Copy(k, e) \in Seq(Frames)
         /\ Recipients(e) \subseteq clients
         /\ Copy(k, e) # <<>> => e \in Frames /\ Copy(k, e) = One(e)
         /\ ~Attached(k) => Copy(k, e) = <<>>
         /\ e = NoFrame => Copy(k, e) = <<>>
<1>1. Recipients(e) \subseteq clients /\ clients \subseteq Fds
  BY DEF Recipients, IInv, TypeOK
<1>2. e = NoFrame => Recipients(e) = {}
  BY DEF Recipients
<1>3. \A f \in Frames : One(f) \in Seq(Frames)
  <2>1. \A t \in Seq(Frames), f \in Frames :
          One(f) \in Seq(Frames) /\ Append(t, f) = Cat(t, One(f))
    BY ONLY CatOne
  <2>2. <<>> \in Seq(Frames)
    BY EmptySeq
  <2> QED
    BY <2>1, <2>2
<1>4. <<>> \in Seq(Frames)
  BY EmptySeq
<1>5. CASE \E fd \in Recipients(e) : fdOf[fd] = k
  <2>1. Copy(k, e) = One(e) /\ e \in Frames /\ Attached(k)
    BY <1>1, <1>2, <1>5 DEF Copy, Attached
  <2> QED
    BY <1>1, <1>2, <1>3, <1>5, <2>1
<1>6. CASE ~\E fd \in Recipients(e) : fdOf[fd] = k
  <2>1. Copy(k, e) = <<>>
    BY <1>6 DEF Copy
  <2> QED
    BY <1>1, <1>4, <2>1
<1> QED
  BY <1>5, <1>6

LEMMA PublishedCopy ==
  ASSUME IInv, NEW e, e = NoFrame \/ e \in Frames, NEW k \in Conns,
         NEW fd \in Fds, fdOf[fd] = k
  PROVE  Published(e)[fd] = Cat(out[fd], Copy(k, e))
<1>1. Published(e)[fd] = IF fd \in Recipients(e) THEN Append(out[fd], e) ELSE out[fd]
  BY DEF Published
<1>2. \A g \in Fds : fdOf[g] = k => g = fd
  BY DEF IInv, Bookkeeping, DescriptorsAccounted, Free
<1>3. Recipients(e) \subseteq Fds /\ (e = NoFrame => Recipients(e) = {})
  BY DEF Recipients, IInv, TypeOK
<1>4. fd \in Recipients(e) <=> \E g \in Recipients(e) : fdOf[g] = k
  BY <1>2, <1>3
<1>5. out[fd] \in Seq(Frames)
  BY DEF IInv, TypeOK
<1>6. CASE fd \in Recipients(e)
  <2>1. Copy(k, e) = One(e) /\ e \in Frames
    BY <1>3, <1>4, <1>6 DEF Copy
  <2>2. \A t \in Seq(Frames), f \in Frames :
          One(f) \in Seq(Frames) /\ Append(t, f) = Cat(t, One(f))
    BY ONLY CatOne
  <2> QED
    BY <1>1, <1>5, <1>6, <2>1, <2>2
<1>7. CASE fd \notin Recipients(e)
  <2>1. Copy(k, e) = <<>>
    BY <1>4, <1>7 DEF Copy
  <2>2. \A t \in Seq(Frames) : Cat(t, <<>>) = t /\ Cat(<<>>, t) = t
    BY ONLY CatEmpty
  <2> QED
    BY <1>1, <1>5, <1>7, <2>1, <2>2
<1> QED
  BY <1>6, <1>7

(* Frames queued behind what is queued already.                             *)
LEMMA Longer ==
  ASSUME NEW k \in Conns, Lanes(k), Lanes(k)', NEW r \in Seq(Frames),
         cliBuf'[k] = cliBuf[k], down'[k] = down[k],
         OutOf(k)' = Cat(OutOf(k), r)
  PROVE  Back(k)' = Cat(Back(k), r)
<1>1. \A t, u \in Seq(Frames) : Cat(t, u) \in Seq(Frames)
  BY ONLY CatType
<1>2. \A t, u, v \in Seq(Frames) : Cat(Cat(t, u), v) = Cat(t, Cat(u, v))
  BY ONLY CatAssoc
<1>3. cliBuf[k] \in Seq(Frames) /\ down[k] \in Seq(Frames) /\ OutOf(k) \in Seq(Frames)
  BY DEF Lanes
<1>4. Back(k) = Cat(Cat(cliBuf[k], down[k]), OutOf(k))
      /\ Back(k)' = Cat(Cat(cliBuf[k], down[k]), Cat(OutOf(k), r))
  BY DEF Lanes
<1>5. Cat(cliBuf[k], down[k]) \in Seq(Frames)
  BY <1>1, <1>3
<1> QED
  BY <1>2, <1>3, <1>4, <1>5

LEMMA PublishPaths ==
  ASSUME IInv, IInv', NEW e, e = NoFrame \/ e \in Frames, out' = Published(e),
         UNCHANGED <<fdOf, up, down, cliBuf, srvBuf>>
  PROVE  \A k \in Conns : Queued(k, Copy(k, e)) /\ Copy(k, e) \in Seq(Frames)
<1> SUFFICES ASSUME NEW k \in Conns
             PROVE  Queued(k, Copy(k, e)) /\ Copy(k, e) \in Seq(Frames)
  OBVIOUS
<1>1. /\ Lanes(k) /\ Lanes(k)' /\ InOf(k)' = InOf(k)
      /\ Attached(k)' <=> Attached(k)
  BY SameEnds
<1>2. Copy(k, e) \in Seq(Frames) /\ (~Attached(k) => Copy(k, e) = <<>>)
  BY CopyTypes
<1>3. OutOf(k)' = Cat(OutOf(k), Copy(k, e))
  <2>1. CASE Attached(k)
    <3>1. PICK fd \in Fds : fdOf[fd] = k
      BY <2>1 DEF Attached
    <3>2. out'[fd] = Cat(out[fd], Copy(k, e))
      BY <3>1, PublishedCopy
    <3>3. OutOf(k) = out[fd] /\ OutOf(k)' = out'[fd]
      BY <1>1, <3>1 DEF Lanes
    <3> QED
      BY <3>2, <3>3
  <2>2. CASE ~Attached(k)
    <3>1. OutOf(k) = <<>> /\ OutOf(k)' = <<>> /\ OutOf(k) \in Seq(Frames)
      BY <1>1, <2>2 DEF Lanes
    <3>2. \A t \in Seq(Frames) : Cat(t, <<>>) = t /\ Cat(<<>>, t) = t
      BY ONLY CatEmpty
    <3> QED
      BY <1>2, <2>2, <3>1, <3>2
  <2> QED
    BY <2>1, <2>2
<1>4. Back(k)' = Cat(Back(k), Copy(k, e))
  BY <1>1, <1>2, <1>3, Longer
<1>5. Forth(k)' = Forth(k)
  BY <1>1 DEF Lanes
<1> QED
  BY <1>2, <1>4, <1>5 DEF Queued

(* The loop takes a frame of cur and queues r[k] for every connection k.    *)
LEMMA ServePaths ==
  ASSUME IInv, IInv', pc = "frames", TakeFrame, NEW r \in [Conns -> Seq(Frames)],
         \A fd \in Fds, k \in Conns : fdOf[fd] = k => out'[fd] = Cat(out[fd], r[k]),
         \A k \in Conns : ~Attached(k) => r[k] = <<>>
  PROVE  /\ fdOf[cur] \in Conns /\ Attached(fdOf[cur])
         /\ frame \in Frames
         /\ \A k \in Conns : IF k = fdOf[cur] THEN Served(k, r[k]) ELSE Queued(k, r[k])
<1>1. /\ cur \in Fds /\ cur \in clients /\ frame \in Frames
      /\ srvBuf[cur] \in Seq(Frames) /\ srvBuf[cur] # <<>>
  BY TakenFrame DEF IInv, Bookkeeping, LoopShape, TypeOK
<1>2. fdOf[cur] \in Conns /\ Attached(fdOf[cur])
  BY <1>1 DEF IInv, TypeOK, Bookkeeping, DescriptorsAccounted, Free, Attached
<1>3. /\ UNCHANGED <<fdOf, up, down, cliBuf>>
      /\ \A fd \in Fds : srvBuf'[fd] = IF fd = cur THEN Tail(srvBuf[cur])
                                                  ELSE srvBuf[fd]
  BY <1>1 DEF TakeFrame, kernel, client, IInv, TypeOK
<1>4. ASSUME NEW k \in Conns
      PROVE  Back(k)' = Cat(Back(k), r[k]) /\ Lanes(k) /\ Lanes(k)'
  <2>1. Lanes(k) /\ Lanes(k)' /\ (Attached(k)' <=> Attached(k))
    BY <1>3, SameEnds
  <2>2. r[k] \in Seq(Frames)
    OBVIOUS
  <2>3. OutOf(k)' = Cat(OutOf(k), r[k])
    <3>1. CASE Attached(k)
      <4>1. PICK fd \in Fds : fdOf[fd] = k
        BY <3>1 DEF Attached
      <4>2. OutOf(k) = out[fd] /\ OutOf(k)' = out'[fd]
        BY <1>3, <2>1, <4>1 DEF Lanes
      <4>3. out'[fd] = Cat(out[fd], r[k])
        BY <4>1
      <4> QED
        BY <4>2, <4>3
    <3>2. CASE ~Attached(k)
      <4>1. OutOf(k) = <<>> /\ OutOf(k)' = <<>> /\ OutOf(k) \in Seq(Frames)
        BY <2>1, <3>2 DEF Lanes
      <4>2. \A t \in Seq(Frames) : Cat(t, <<>>) = t /\ Cat(<<>>, t) = t
        BY ONLY CatEmpty
      <4> QED
        BY <3>2, <4>1, <4>2
    <3> QED
      BY <3>1, <3>2
  <2> QED
    BY <1>3, <2>1, <2>2, <2>3, Longer
<1>5. ASSUME NEW k \in Conns, k # fdOf[cur] PROVE Forth(k)' = Forth(k)
  <2>1. \A fd \in Fds : fdOf[fd] = k => srvBuf'[fd] = srvBuf[fd]
    BY <1>3, <1>5
  <2>2. InOf(k)' = InOf(k)
    BY <1>3, <2>1, SameEnds
  <2> QED
    BY <1>3, <1>4, <2>2 DEF Lanes
<1>6. ASSUME NEW k \in Conns, k = fdOf[cur] PROVE Forth(k) = Cat(One(frame), Forth(k)')
  <2> DEFINE h == One(frame)
             t == Tail(srvBuf[cur])
             u == up[k]
  <2>1. InOf(k) = srvBuf[cur] /\ InOf(k)' = t /\ u \in Seq(Frames)
    BY <1>1, <1>3, <1>4, <1>6 DEF Lanes
  <2>2. /\ srvBuf[cur] = Cat(h, t)
        /\ h \in Seq(Frames) /\ t \in Seq(Frames)
    <3>1. \A q \in Seq(Frames) : q # <<>> =>
            /\ q = Cat(One(Head(q)), Tail(q)) /\ Head(q) \in Frames
            /\ One(Head(q)) \in Seq(Frames) /\ Tail(q) \in Seq(Frames)
      BY ONLY CatHead
    <3> QED
      BY <1>1, <3>1 DEF frame
  <2>3. Forth(k) = Cat(InOf(k), u) /\ Forth(k)' = Cat(InOf(k)', u)
    BY <1>3, <1>4 DEF Lanes
  <2>4. \A a, b, c \in Seq(Frames) : Cat(Cat(a, b), c) = Cat(a, Cat(b, c))
    BY ONLY CatAssoc
  <2> HIDE DEF h, t, u
  <2> QED
    BY <2>1, <2>2, <2>3, <2>4 DEF h
<1>7. ASSUME NEW k \in Conns
      PROVE  IF k = fdOf[cur] THEN Served(k, r[k]) ELSE Queued(k, r[k])
  BY <1>1, <1>4, <1>5, <1>6 DEF Served, Queued
<1> QED
  BY <1>1, <1>2, <1>7

LEMMA RequestPaths ==
  ASSUME IInv, IInv', HandleRequest
  PROVE  /\ fdOf[cur] \in Conns /\ Attached(fdOf[cur])
         /\ frame \in Frames /\ frame.type = "request"
         /\ \E e \in NewEvents :
              /\ Numbered(e)
              /\ \A k \in Conns :
                   IF k = fdOf[cur]
                   THEN Served(k, Cat(Copy(k, e), One(Response(frame.id))))
                   ELSE Queued(k, Copy(k, e))
<1>1. PICK e \in NewEvents :
        Reply(Published(e), Response(frame.id)) /\ Numbered(e)
  BY DEF HandleRequest
<1>2. pc = "frames" /\ TakeFrame /\ frame.type = "request"
  BY DEF HandleRequest, AtFrame
<1>3. e = NoFrame \/ e \in Frames
  BY NewEventTypes DEF IInv
<1>4. Response(frame.id) \in Frames /\ cur \in Fds
  BY <1>2, TakenFrame, FrameTypes DEF IInv, Bookkeeping
<1>5. \A k \in Conns : /\ Copy(k, e) \in Seq(Frames)
                       /\ ~Attached(k) => Copy(k, e) = <<>>
  BY <1>3, CopyTypes
<1> DEFINE answer == One(Response(frame.id))
           r == [k \in Conns |-> IF k = fdOf[cur] THEN Cat(Copy(k, e), answer)
                                                  ELSE Copy(k, e)]
<1>6. \A t, u \in Seq(Frames) : Cat(t, u) \in Seq(Frames)
  BY ONLY CatType
<1>7. \A t, u, v \in Seq(Frames) : Cat(Cat(t, u), v) = Cat(t, Cat(u, v))
  BY ONLY CatAssoc
<1>8. \A t \in Seq(Frames), f \in Frames :
        One(f) \in Seq(Frames) /\ Append(t, f) = Cat(t, One(f))
  BY ONLY CatOne
<1>9. answer \in Seq(Frames)
  <2>1. <<>> \in Seq(Frames)
    BY EmptySeq
  <2> QED
    BY <1>4, <1>8, <2>1
<1>10. r \in [Conns -> Seq(Frames)]
  BY <1>5, <1>6, <1>9
<1>11. \A fd \in Fds : out'[fd] = IF fd = cur THEN Append(Published(e)[cur], Response(frame.id))
                                             ELSE Published(e)[fd]
  BY <1>1, <1>4 DEF Reply, Published
<1>12. ASSUME NEW fd \in Fds, NEW k \in Conns, fdOf[fd] = k
       PROVE  out'[fd] = Cat(out[fd], r[k])
  <2>1. Published(e)[fd] = Cat(out[fd], Copy(k, e)) /\ out[fd] \in Seq(Frames)
    BY <1>3, <1>12, PublishedCopy DEF IInv, TypeOK
  <2>2. CASE fd = cur
    <3>1. out'[fd] = Append(Cat(out[fd], Copy(k, e)), Response(frame.id))
      BY <1>11, <2>1, <2>2
    <3>2. out'[fd] = Cat(Cat(out[fd], Copy(k, e)), answer)
      BY <1>4, <1>5, <1>6, <1>8, <2>1, <3>1
    <3>3. r[k] = Cat(Copy(k, e), answer)
      BY <1>12, <2>2
    <3> QED
      BY <1>5, <1>7, <1>9, <2>1, <3>2, <3>3
  <2>3. CASE fd # cur
    <3>1. k # fdOf[cur]
      BY <1>4, <1>12, <2>3 DEF IInv, Bookkeeping, DescriptorsAccounted, Free
    <3> QED
      BY <1>11, <2>1, <2>3, <3>1
  <2> QED
    BY <2>2, <2>3
<1>13. ASSUME NEW k \in Conns, ~Attached(k) PROVE r[k] = <<>>
  <2>1. k # fdOf[cur]
    BY <1>4, <1>13 DEF Attached
  <2> QED
    BY <1>5, <1>13, <2>1
<1>14. /\ fdOf[cur] \in Conns /\ Attached(fdOf[cur]) /\ frame \in Frames
       /\ \A k \in Conns : IF k = fdOf[cur] THEN Served(k, r[k]) ELSE Queued(k, r[k])
  <2> HIDE DEF r
  <2> QED
    BY <1>2, <1>10, <1>12, <1>13, ServePaths
<1>15. ASSUME NEW k \in Conns
       PROVE  IF k = fdOf[cur]
              THEN Served(k, Cat(Copy(k, e), One(Response(frame.id))))
              ELSE Queued(k, Copy(k, e))
  BY <1>14
<1> QED
  BY <1>1, <1>2, <1>14, <1>15

LEMMA AckPaths ==
  ASSUME IInv, IInv', pc = "frames", TakeFrame, Acknowledge
  PROVE  /\ fdOf[cur] \in Conns /\ Attached(fdOf[cur]) /\ frame \in Frames
         /\ \A k \in Conns : IF k = fdOf[cur] THEN Served(k, One(Ack(frame.id)))
                              ELSE Kept(k)
<1>1. Ack(frame.id) \in Frames /\ cur \in Fds
  BY TakenFrame, FrameTypes DEF IInv, Bookkeeping
<1> DEFINE answer == One(Ack(frame.id))
           r == [k \in Conns |-> IF k = fdOf[cur] THEN answer ELSE <<>>]
<1>2. \A t \in Seq(Frames), f \in Frames :
        One(f) \in Seq(Frames) /\ Append(t, f) = Cat(t, One(f))
  BY ONLY CatOne
<1>3. <<>> \in Seq(Frames) /\ \A t \in Seq(Frames) : Cat(t, <<>>) = t /\ Cat(<<>>, t) = t
  BY ONLY CatEmpty
<1>4. answer \in Seq(Frames)
  BY <1>1, <1>2, <1>3
<1>5. r \in [Conns -> Seq(Frames)]
  BY <1>3, <1>4
<1>6. \A fd \in Fds : out'[fd] = IF fd = cur THEN Append(out[cur], Ack(frame.id))
                                            ELSE out[fd]
  BY <1>1 DEF Acknowledge, Reply, IInv, TypeOK
<1>7. ASSUME NEW fd \in Fds, NEW k \in Conns, fdOf[fd] = k
      PROVE  out'[fd] = Cat(out[fd], r[k])
  <2>1. out[fd] \in Seq(Frames)
    BY DEF IInv, TypeOK
  <2>2. CASE fd = cur
    <3>1. out'[fd] = Cat(out[fd], answer) /\ r[k] = answer
      BY <1>1, <1>2, <1>6, <1>7, <2>1, <2>2
    <3> QED
      BY <3>1
  <2>3. CASE fd # cur
    <3>1. k # fdOf[cur]
      BY <1>1, <1>7, <2>3 DEF IInv, Bookkeeping, DescriptorsAccounted, Free
    <3>2. r[k] = <<>>
      BY <3>1
    <3> QED
      BY <1>3, <1>6, <2>1, <2>3, <3>2
  <2> QED
    BY <2>2, <2>3
<1>8. ASSUME NEW k \in Conns, ~Attached(k) PROVE r[k] = <<>>
  BY <1>1, <1>8 DEF Attached
<1>9. /\ fdOf[cur] \in Conns /\ Attached(fdOf[cur]) /\ frame \in Frames
      /\ \A k \in Conns : IF k = fdOf[cur] THEN Served(k, r[k]) ELSE Queued(k, r[k])
  <2> HIDE DEF r
  <2> QED
    BY <1>5, <1>7, <1>8, ServePaths
<1>10. ASSUME NEW k \in Conns
       PROVE  IF k = fdOf[cur] THEN Served(k, answer) ELSE Kept(k)
  <2>1. CASE k = fdOf[cur]
    BY <1>9, <2>1
  <2>2. CASE k # fdOf[cur]
    <3>1. Queued(k, <<>>) /\ Back(k) \in Seq(Frames)
      BY <1>9, <2>2, LanesNow DEF AllLanes, Lanes
    <3> QED
      BY <1>3, <2>2, <3>1 DEF Queued, Kept
  <2> QED
    BY <2>1, <2>2
<1> QED
  BY <1>9, <1>10

LEMMA EventPaths ==
  ASSUME IInv, IInv', HandleEvent
  PROVE  /\ fdOf[cur] \in Conns /\ Attached(fdOf[cur])
         /\ frame \in Frames /\ frame.type = "event" /\ frame.whole
         /\ \A k \in Conns : IF k = fdOf[cur] THEN Served(k, Copy(k, frame))
                              ELSE Queued(k, Copy(k, frame))
<1>1. /\ pc = "frames" /\ TakeFrame /\ frame.type = "event" /\ frame.whole
      /\ out' = Published(frame)
  BY DEF HandleEvent, AtFrame
<1>2. frame \in Frames
  BY <1>1, TakenFrame DEF IInv, Bookkeeping
<1> DEFINE r == [k \in Conns |-> Copy(k, frame)]
<1>3. \A k \in Conns : /\ Copy(k, frame) \in Seq(Frames)
                       /\ ~Attached(k) => Copy(k, frame) = <<>>
  BY <1>2, CopyTypes
<1>4. /\ r \in [Conns -> Seq(Frames)]
      /\ \A k \in Conns : r[k] = Copy(k, frame)
  BY <1>3
<1>5. \A fd \in Fds, k \in Conns : fdOf[fd] = k => out'[fd] = Cat(out[fd], r[k])
  BY <1>1, <1>2, <1>4, PublishedCopy
<1> HIDE DEF r
<1>6. \A k \in Conns : ~Attached(k) => r[k] = <<>>
  BY <1>3, <1>4
<1>7. /\ fdOf[cur] \in Conns /\ Attached(fdOf[cur])
      /\ \A k \in Conns : IF k = fdOf[cur] THEN Served(k, r[k]) ELSE Queued(k, r[k])
  BY <1>1, <1>4, <1>5, <1>6, ServePaths
<1> QED
  BY <1>1, <1>2, <1>4, <1>7

LEMMA UnknownPaths ==
  ASSUME IInv, IInv', HandleUnknown
  PROVE  /\ fdOf[cur] \in Conns /\ frame \in Frames /\ frame.type = "unknown"
         /\ \A k \in Conns : IF k = fdOf[cur] THEN Served(k, <<>>) ELSE Kept(k)
<1>1. pc = "frames" /\ TakeFrame /\ frame.type = "unknown" /\ out' = out
  BY DEF HandleUnknown, AtFrame
<1> DEFINE r == [k \in Conns |-> <<>>]
<1>2. <<>> \in Seq(Frames) /\ \A t \in Seq(Frames) : Cat(t, <<>>) = t /\ Cat(<<>>, t) = t
  BY ONLY CatEmpty
<1>3. r \in [Conns -> Seq(Frames)] /\ \A k \in Conns : r[k] = <<>>
  BY <1>2
<1> HIDE DEF r
<1>4. ASSUME NEW fd \in Fds, NEW k \in Conns, fdOf[fd] = k
      PROVE  out'[fd] = Cat(out[fd], r[k])
  <2>1. out[fd] \in Seq(Frames)
    BY DEF IInv, TypeOK
  <2> QED
    BY <1>1, <1>2, <1>3, <2>1
<1>5. /\ fdOf[cur] \in Conns /\ frame \in Frames
      /\ \A k \in Conns : IF k = fdOf[cur] THEN Served(k, r[k]) ELSE Queued(k, r[k])
  BY <1>1, <1>3, <1>4, ServePaths
<1>6. ASSUME NEW k \in Conns
      PROVE  IF k = fdOf[cur] THEN Served(k, <<>>) ELSE Kept(k)
  <2>1. CASE k = fdOf[cur]
    BY <1>3, <1>5, <2>1
  <2>2. CASE k # fdOf[cur]
    <3>1. Queued(k, <<>>) /\ Back(k) \in Seq(Frames)
      BY <1>3, <1>5, <2>2, LanesNow DEF AllLanes, Lanes
    <3> QED
      BY <1>2, <2>2, <3>1 DEF Queued, Kept
  <2> QED
    BY <2>1, <2>2
<1> QED
  BY <1>1, <1>5, <1>6

LEMMA ReceivePaths ==
  ASSUME IInv, IInv', Receive
  PROVE  \A k \in Conns : Kept(k)
<1> DEFINE j == fdOf[cur]
<1>1. cur \in clients /\ cur \in Fds /\ j \in Conns
  BY DEF Receive, IInv, TypeOK, Bookkeeping, DescriptorsAccounted, Free
<1>2. PICK n \in 1 .. Len(up[j]) :
        /\ srvBuf' = [srvBuf EXCEPT ![cur] = @ \o SubSeq(up[j], 1, n)]
        /\ up' = [up EXCEPT ![j] = SubSeq(@, n + 1, Len(@))]
  BY DEF Receive
<1>3. UNCHANGED <<fdOf, down, cliBuf, out>>
  BY DEF Receive, client
<1> DEFINE x == SubSeq(up[j], 1, n)
           y == SubSeq(up[j], n + 1, Len(up[j]))
           b == srvBuf[cur]
<1>4. up[j] \in Seq(Frames) /\ b \in Seq(Frames)
  BY <1>1 DEF IInv, TypeOK
<1>5. up[j] = Cat(x, y) /\ x \in Seq(Frames) /\ y \in Seq(Frames)
  <2>1. \A t \in Seq(Frames) : \A m \in 0 .. Len(t) :
           /\ t = Cat(SubSeq(t, 1, m), SubSeq(t, m + 1, Len(t)))
           /\ SubSeq(t, 1, m) \in Seq(Frames) /\ Len(SubSeq(t, 1, m)) = m
           /\ SubSeq(t, m + 1, Len(t)) \in Seq(Frames)
    BY ONLY CatHalves
  <2>2. n \in 0 .. Len(up[j])
    OBVIOUS
  <2> QED
    BY <1>4, <2>1, <2>2
<1>6. /\ \A fd \in Fds : srvBuf'[fd] = IF fd = cur THEN Cat(b, x) ELSE srvBuf[fd]
      /\ \A k \in Conns : up'[k] = IF k = j THEN y ELSE up[k]
  BY <1>1, <1>2 DEF IInv, TypeOK, Cat
<1> HIDE DEF x, y, b
<1> SUFFICES ASSUME NEW k \in Conns PROVE Kept(k)
  OBVIOUS
<1>7. Lanes(k) /\ Lanes(k)' /\ OutOf(k)' = OutOf(k) /\ cliBuf'[k] = cliBuf[k]
      /\ down'[k] = down[k]
  BY <1>3, SameEnds
<1>8. CASE k = j
  <2>1. InOf(k) = b /\ InOf(k)' = Cat(b, x) /\ up[k] = Cat(x, y) /\ up'[k] = y
    BY <1>1, <1>3, <1>5, <1>6, <1>7, <1>8 DEF Lanes, b
  <2>2. \A t, u, v \in Seq(Frames) : Cat(Cat(t, u), v) = Cat(t, Cat(u, v))
    BY ONLY CatAssoc
  <2>3. Forth(k) = Cat(b, Cat(x, y)) /\ Forth(k)' = Cat(Cat(b, x), y)
    BY <1>7, <2>1 DEF Lanes
  <2>4. Forth(k)' = Forth(k)
    BY <1>4, <1>5, <2>2, <2>3
  <2> QED
    BY <1>7, <2>4 DEF Kept, Lanes
<1>9. CASE k # j
  <2>1. InOf(k)' = InOf(k) /\ up'[k] = up[k]
    <3>1. \A fd \in Fds : fdOf[fd] = k => srvBuf'[fd] = srvBuf[fd]
      BY <1>6, <1>9
    <3> QED
      BY <1>3, <1>6, <1>9, <3>1, SameEnds
  <2> QED
    BY <1>7, <2>1, Same
<1> QED
  BY <1>8, <1>9

(* Of the two frames and more that the loop has, the first is taken for f.  *)
LEMMA MistakenPaths ==
  ASSUME IInv, IInv', FrameCompletes, NEW j \in Conns, j = fdOf[cur]
  PROVE  /\ Attached(j) /\ frame \in Frames /\ ~frame.whole
         /\ \E f \in {Completed(frame), Unknown, Corrupt}, r \in {<<>>, One(Corrupt)} :
              f \in Frames /\ r \in Seq(Frames) /\ Mistaken(j, f, r)
         /\ \A k \in Conns \ {j} : Kept(k)
<1> DEFINE b == srvBuf[cur]
<1>1. /\ pc = "frames" /\ ~frame.whole
      /\ UNCHANGED <<fdOf, up, down, cliBuf, out>>
  BY DEF FrameCompletes, kernel
<1>2. /\ cur \in Fds /\ cur \in clients /\ frame \in Frames
      /\ b \in Seq(Frames) /\ b # <<>>
  BY <1>1, TakenFrame DEF IInv, Bookkeeping, LoopShape, TypeOK
<1>3. Attached(j)
  BY <1>2 DEF Attached
<1>4. PICK n \in 2 .. Len(b), f \in {Completed(frame), Unknown, Corrupt},
           r \in {<<>>, <<Corrupt>>} :
        srvBuf' = [srvBuf EXCEPT ![cur] = <<f>> \o r \o SubSeq(@, n + 1, Len(@))]
  BY DEF FrameCompletes
<1>5. f \in Frames /\ r \in {<<>>, One(Corrupt)} /\ r \in Seq(Frames)
  <2>1. Completed(frame) \in Frames /\ Unknown \in Frames /\ Corrupt \in Frames
    BY <1>2, FrameTypes, CutTypes
  <2>2. f \in Frames
    BY <2>1, Zenon
  <2>3. <<>> \in Seq(Frames) /\ <<Corrupt>> \in Seq(Frames)
    BY <2>1
  <2>4. r \in {<<>>, One(Corrupt)}
    BY DEF One
  <2> QED
    BY <2>2, <2>3, <2>4, Zenon
<1> DEFINE x == SubSeq(b, 1, n)
           y == SubSeq(b, n + 1, Len(b))
<1>6. /\ b = Cat(x, y) /\ x \in Seq(Frames) /\ y \in Seq(Frames) /\ Len(x) = n
  <2>1. \A t \in Seq(Frames) : \A m \in 0 .. Len(t) :
           /\ t = Cat(SubSeq(t, 1, m), SubSeq(t, m + 1, Len(t)))
           /\ SubSeq(t, 1, m) \in Seq(Frames) /\ Len(SubSeq(t, 1, m)) = m
           /\ SubSeq(t, m + 1, Len(t)) \in Seq(Frames)
    BY ONLY CatHalves
  <2>2. n \in 0 .. Len(b)
    OBVIOUS
  <2> QED
    BY <1>2, <2>1, <2>2
<1>7. x # <<>> /\ Head(x) = frame
  <2>1. x = [i \in 1 .. n |-> b[i]] /\ n >= 1
    BY <1>2 DEF SubSeq
  <2>2. x # <<>>
    BY <1>6, <2>1
  <2>3. x[1] = b[1]
    BY <2>1
  <2>4. Head(x) = x[1] /\ Head(b) = b[1]
    BY <1>2, <1>6, <2>2, HeadTailProperties
  <2> QED
    BY <2>2, <2>3, <2>4 DEF frame
<1>8. \A fd \in Fds : srvBuf'[fd] = IF fd = cur THEN Cat(Cat(One(f), r), y) ELSE srvBuf[fd]
  BY <1>2, <1>4 DEF IInv, TypeOK, Cat, One
<1> HIDE DEF x, y
<1>9. PICK h \in Seq(Frames), g \in Seq(Frames) : h = One(frame) /\ x = Cat(h, g)
  <2>1. \A q \in Seq(Frames) : q # <<>> =>
          /\ q = Cat(One(Head(q)), Tail(q)) /\ Head(q) \in Frames
          /\ One(Head(q)) \in Seq(Frames) /\ Tail(q) \in Seq(Frames)
    BY ONLY CatHead
  <2>2. /\ One(frame) \in Seq(Frames) /\ Tail(x) \in Seq(Frames)
        /\ x = Cat(One(frame), Tail(x))
    BY <1>6, <1>7, <2>1
  <2> QED
    BY <2>2
<1>10. One(f) \in Seq(Frames)
  <2>1. \A e : One(e) \in Seq(Frames) <=> e \in Frames
    BY ONLY OneOf
  <2> QED
    BY <1>5, <2>1
<1>11. ASSUME NEW k \in Conns
       PROVE  /\ Lanes(k) /\ Lanes(k)' /\ OutOf(k)' = OutOf(k) /\ cliBuf'[k] = cliBuf[k]
              /\ down'[k] = down[k] /\ up'[k] = up[k]
  BY <1>1, SameEnds
<1>12. ASSUME NEW k \in Conns \ {j} PROVE Kept(k)
  <2>1. \A fd \in Fds : fdOf[fd] = k => srvBuf'[fd] = srvBuf[fd]
    BY <1>8
  <2>2. InOf(k)' = InOf(k)
    BY <1>1, <2>1, SameEnds
  <2> QED
    BY <1>11, <2>2, Same
<1>13. Mistaken(j, f, r)
  <2> DEFINE u == up[j]
  <2>1. /\ InOf(j) = b /\ InOf(j)' = Cat(Cat(One(f), r), y) /\ u \in Seq(Frames)
        /\ Forth(j) = Cat(InOf(j), u) /\ Forth(j)' = Cat(InOf(j)', u)
        /\ Back(j)' = Back(j)
    <3>1. Lanes(j) /\ Lanes(j)' /\ OutOf(j)' = OutOf(j) /\ cliBuf'[j] = cliBuf[j]
          /\ down'[j] = down[j] /\ up'[j] = up[j]
          /\ fdOf[cur] = j /\ fdOf'[cur] = j
      BY <1>1, <1>3, <1>11
    <3>2. InOf(j) = b /\ InOf(j)' = srvBuf'[cur]
      BY <1>2, <3>1 DEF Lanes
    <3>3. srvBuf'[cur] = Cat(Cat(One(f), r), y)
      BY <1>2, <1>8
    <3> QED
      BY <3>1, <3>2, <3>3 DEF Lanes
  <2>2. \A s, t, v \in Seq(Frames) : Cat(Cat(s, t), v) = Cat(s, Cat(t, v))
    BY ONLY CatAssoc
  <2>3. \A s, t \in Seq(Frames) : Cat(s, t) \in Seq(Frames)
    BY ONLY CatType
  <2> HIDE DEF u
  <2>4. Cat(y, u) \in Seq(Frames) /\ Cat(g, y) \in Seq(Frames) /\ Cat(r, y) \in Seq(Frames)
    BY <1>5, <1>6, <1>9, <2>1, <2>3
  <2>5. Forth(j) = Cat(One(frame), Cat(g, Cat(y, u)))
    <3>1. b = Cat(h, Cat(g, y))
      BY <1>6, <1>9, <2>2
    <3>2. Cat(b, u) = Cat(h, Cat(Cat(g, y), u))
      BY <1>9, <2>1, <2>2, <2>4, <3>1
    <3>3. Cat(Cat(g, y), u) = Cat(g, Cat(y, u))
      BY <1>6, <1>9, <2>1, <2>2
    <3> QED
      BY <1>9, <2>1, <3>2, <3>3
  <2>6. Forth(j)' = Cat(One(f), Cat(r, Cat(y, u)))
    <3>1. Cat(Cat(One(f), r), y) = Cat(One(f), Cat(r, y))
      BY <1>5, <1>6, <1>10, <2>2
    <3>2. Forth(j)' = Cat(One(f), Cat(Cat(r, y), u))
      BY <1>10, <2>1, <2>2, <2>4, <3>1
    <3>3. Cat(Cat(r, y), u) = Cat(r, Cat(y, u))
      BY <1>5, <1>6, <2>1, <2>2
    <3> QED
      BY <3>2, <3>3
  <2> QED
    BY <1>9, <2>1, <2>4, <2>5, <2>6 DEF Mistaken
<1> QED
  BY <1>1, <1>2, <1>3, <1>5, <1>12, <1>13

LEMMA FlushPaths ==
  ASSUME IInv, IInv', Flush
  PROVE  \A k \in Conns : Kept(k)
<1> DEFINE j == fdOf[cur]
           n == Sent
<1>1. cur \in clients /\ cur \in Fds
  BY DEF Flush, IInv, TypeOK, Bookkeeping, LoopShape
<1>2. j \in Conns /\ n \in 0 .. Len(out[cur])
  BY <1>1, SentBound DEF IInv, Bookkeeping
<1> DEFINE x == SubSeq(out[cur], 1, n)
           y == SubSeq(out[cur], n + 1, Len(out[cur]))
<1>3. /\ down' = [down EXCEPT ![j] = @ \o x] /\ out' = [out EXCEPT ![cur] = y]
      /\ UNCHANGED <<fdOf, up, cliBuf, srvBuf>>
  BY DEF Flush, client
<1>4. out[cur] \in Seq(Frames)
  BY <1>1 DEF IInv, TypeOK
<1>5. out[cur] = Cat(x, y) /\ x \in Seq(Frames) /\ y \in Seq(Frames)
  <2>1. \A t \in Seq(Frames) : \A m \in 0 .. Len(t) :
           /\ t = Cat(SubSeq(t, 1, m), SubSeq(t, m + 1, Len(t)))
           /\ SubSeq(t, 1, m) \in Seq(Frames) /\ Len(SubSeq(t, 1, m)) = m
           /\ SubSeq(t, m + 1, Len(t)) \in Seq(Frames)
    BY ONLY CatHalves
  <2> HIDE DEF n
  <2> QED
    BY <1>2, <1>4, <2>1
<1> HIDE DEF x, y, n
<1>6. /\ \A fd \in Fds : out'[fd] = IF fd = cur THEN y ELSE out[fd]
      /\ \A k \in Conns : down'[k] = IF k = j THEN Cat(down[j], x) ELSE down[k]
  BY <1>1, <1>2, <1>3 DEF IInv, TypeOK, Cat
<1> SUFFICES ASSUME NEW k \in Conns PROVE Kept(k)
  OBVIOUS
<1>7. Lanes(k) /\ Lanes(k)' /\ InOf(k)' = InOf(k) /\ cliBuf'[k] = cliBuf[k]
      /\ up'[k] = up[k]
  BY <1>3, SameEnds
<1>8. CASE k = j
  <2> DEFINE c == cliBuf[k]
             d == down[k]
  <2>1. OutOf(k) = Cat(x, y) /\ OutOf(k)' = y /\ down'[k] = Cat(d, x)
    BY <1>1, <1>3, <1>5, <1>6, <1>7, <1>8 DEF Lanes
  <2>2. \A t, u, v \in Seq(Frames) : Cat(Cat(t, u), v) = Cat(t, Cat(u, v))
    BY ONLY CatAssoc
  <2>3. \A t, u \in Seq(Frames) : Cat(t, u) \in Seq(Frames)
    BY ONLY CatType
  <2>4. /\ Back(k) = Cat(Cat(c, d), Cat(x, y)) /\ Back(k)' = Cat(Cat(c, Cat(d, x)), y)
        /\ c \in Seq(Frames) /\ d \in Seq(Frames)
    BY <1>7, <2>1 DEF Lanes
  <2> HIDE DEF c, d
  <2>5. Cat(c, d) \in Seq(Frames) /\ Cat(c, Cat(d, x)) = Cat(Cat(c, d), x)
    BY <1>5, <2>2, <2>3, <2>4
  <2>6. Back(k)' = Back(k)
    BY <1>5, <2>2, <2>4, <2>5
  <2> QED
    BY <1>7, <2>6 DEF Kept, Lanes
<1>9. CASE k # j
  <2>1. OutOf(k)' = OutOf(k) /\ down'[k] = down[k]
    <3>1. \A fd \in Fds : fdOf[fd] = k => out'[fd] = out[fd]
      BY <1>6, <1>9
    <3> QED
      BY <1>3, <1>6, <1>9, <3>1, SameEnds
  <2> QED
    BY <1>7, <2>1, Same
<1> QED
  BY <1>8, <1>9

(* The connection of a legacy command is answered and closed.               *)
LEMMA LegacyPaths ==
  ASSUME IInv, IInv', ParkedLegacy, NEW j \in Conns, j = fdOf[cur]
  PROVE  /\ IsLine(j) /\ Attached(j) /\ Forth(j)' = <<>> /\ ~Connected(j)'
         /\ \E r \in Seq(Frames) : /\ Back(j)' = Cat(Back(j), r)
                                   /\ r = <<>> \/ r = One(Response(0))
         /\ \E e \in NewEvents :
              /\ Numbered(e) /\ Copy(j, e) = <<>>
              /\ \A k \in Conns \ {j} : /\ Queued(k, Copy(k, e))
                                        /\ Connected(k)' <=> Connected(k)
<1>1. cur \in pending /\ cur \in Fds /\ cur \notin clients /\ j \in Conns
  BY DEF ParkedLegacy, IInv, TypeOK, Bookkeeping, DescriptorsAccounted, Free
<1>2. /\ Close({cur}) /\ IsLine(j) /\ UNCHANGED <<backlog, cliBuf, srvBuf>>
      /\ down' = [down EXCEPT ![j] = IF mode[j] = "closed" THEN @
                                    ELSE Append(@, Response(0))]
  BY DEF ParkedLegacy, client
<1>3. PICK e \in NewEvents : out' = Published(e) /\ Numbered(e)
  BY DEF ParkedLegacy
<1>4. e = NoFrame \/ e \in Frames
  BY NewEventTypes DEF IInv
<1>5. {cur} \in SUBSET (pending \cup clients)
  BY <1>1
<1>6. /\ Lanes(j) /\ Lanes(j)' /\ ~Connected(j)' /\ up'[j] = <<>>
      /\ OutOf(j)' = <<>> /\ InOf(j)' = <<>>
  BY <1>1, <1>2, <1>5, CloseEnds
<1>7. OutOf(j) = <<>> /\ Attached(j)
  <2>1. OutOf(j) = out[cur] /\ Attached(j)
    BY <1>1, <1>6 DEF Lanes
  <2> QED
    BY <1>1, <2>1 DEF IInv, NothingInherited
<1>8. /\ <<>> \in Seq(Frames)
      /\ \A t \in Seq(Frames) : Cat(t, <<>>) = t /\ Cat(<<>>, t) = t
  BY ONLY CatEmpty
<1>9. Forth(j)' = <<>>
  BY <1>6, <1>8 DEF Lanes
<1>10. \E r \in Seq(Frames) :
         Back(j)' = Cat(Back(j), r) /\ (r = <<>> \/ r = One(Response(0)))
  <2> DEFINE c == cliBuf[j]
             d == down[j]
  <2>1. Back(j) = Cat(Cat(c, d), <<>>) /\ Back(j)' = Cat(Cat(c, down'[j]), <<>>)
        /\ c \in Seq(Frames) /\ d \in Seq(Frames) /\ down'[j] \in Seq(Frames)
    BY <1>2, <1>6, <1>7 DEF Lanes
  <2>2. down'[j] = IF mode[j] = "closed" THEN d ELSE Append(d, Response(0))
    BY <1>1, <1>2 DEF IInv, TypeOK
  <2>3. \A t \in Seq(Frames), f \in Frames :
          One(f) \in Seq(Frames) /\ Append(t, f) = Cat(t, One(f))
    BY ONLY CatOne
  <2>4. Response(0) \in Frames
    BY FrameTypes
  <2>5. \A t, u, v \in Seq(Frames) : Cat(Cat(t, u), v) = Cat(t, Cat(u, v))
    BY ONLY CatAssoc
  <2>6. \A t, u \in Seq(Frames) : Cat(t, u) \in Seq(Frames)
    BY ONLY CatType
  <2> HIDE DEF c, d
  <2>7. Back(j) = Cat(c, d) /\ Back(j)' = Cat(c, down'[j]) /\ Cat(c, d) \in Seq(Frames)
    BY <1>8, <2>1, <2>6
  <2>8. CASE mode[j] = "closed"
    BY <1>8, <2>2, <2>7, <2>8
  <2>9. CASE mode[j] # "closed"
    <3>1. One(Response(0)) \in Seq(Frames) /\ down'[j] = Cat(d, One(Response(0)))
      BY <2>1, <2>2, <2>3, <2>4, <2>9
    <3>2. Back(j)' = Cat(Back(j), One(Response(0)))
      BY <2>1, <2>5, <2>7, <3>1
    <3> QED
      BY <3>1, <3>2
  <2> QED
    BY <2>8, <2>9
<1>11. Recipients(e) \subseteq clients
  BY DEF Recipients
<1>12. Copy(j, e) = <<>>
  <2>1. \A g \in Fds : fdOf[g] = j => g = cur
    BY <1>1 DEF IInv, Bookkeeping, DescriptorsAccounted, Free
  <2>2. clients \subseteq Fds
    BY DEF IInv, TypeOK
  <2>3. ~\E g \in Recipients(e) : fdOf[g] = j
    BY <1>1, <1>11, <2>1, <2>2
  <2> QED
    BY <2>3 DEF Copy
<1>13. ASSUME NEW k \in Conns, k # j
       PROVE  Queued(k, Copy(k, e)) /\ (Connected(k)' <=> Connected(k))
  <2>1. ~\E fd \in {cur} : fdOf[fd] = k
    BY <1>13
  <2>2. /\ Lanes(k) /\ Lanes(k)' /\ up'[k] = up[k] /\ (Connected(k)' <=> Connected(k))
        /\ \/ /\ OutOf(k) = <<>> /\ InOf(k) = <<>> /\ ~Attached(k)
              /\ OutOf(k)' = <<>> /\ InOf(k)' = <<>>
           \/ \E fd \in Fds \ {cur} :
                /\ fdOf[fd] = k
                /\ OutOf(k) = out[fd] /\ InOf(k) = srvBuf[fd]
                /\ OutOf(k)' = out'[fd] /\ InOf(k)' = srvBuf'[fd]
    BY <1>2, <1>5, <2>1, CloseEnds
  <2>3. Copy(k, e) \in Seq(Frames) /\ (~Attached(k) => Copy(k, e) = <<>>)
    BY <1>4, CopyTypes
  <2>4. OutOf(k)' = Cat(OutOf(k), Copy(k, e)) /\ InOf(k)' = InOf(k)
    <3>1. CASE /\ OutOf(k) = <<>> /\ InOf(k) = <<>> /\ ~Attached(k)
               /\ OutOf(k)' = <<>> /\ InOf(k)' = <<>>
      BY <1>8, <2>3, <3>1
    <3>2. ASSUME NEW fd \in Fds \ {cur}, fdOf[fd] = k,
                 OutOf(k) = out[fd], InOf(k) = srvBuf[fd],
                 OutOf(k)' = out'[fd], InOf(k)' = srvBuf'[fd]
          PROVE  OutOf(k)' = Cat(OutOf(k), Copy(k, e)) /\ InOf(k)' = InOf(k)
      <4>1. Published(e)[fd] = Cat(out[fd], Copy(k, e))
        BY <1>4, <3>2, PublishedCopy
      <4> QED
        BY <1>2, <1>3, <3>2, <4>1
    <3> QED
      BY <2>2, <3>1, <3>2
  <2>5. cliBuf'[k] = cliBuf[k] /\ down'[k] = down[k]
    BY <1>1, <1>2, <1>13 DEF IInv, TypeOK
  <2>6. Back(k)' = Cat(Back(k), Copy(k, e))
    BY <2>2, <2>3, <2>4, <2>5, Longer
  <2>7. Forth(k)' = Forth(k)
    BY <2>2, <2>4 DEF Lanes
  <2> QED
    BY <2>2, <2>6, <2>7 DEF Queued
<1> QED
  BY <1>1, <1>2, <1>3, <1>6, <1>7, <1>9, <1>10, <1>12, <1>13

LEMMA StopPaths ==
  ASSUME IInv, IInv', Stop
  PROVE  \A k \in Conns : Severed(k, OutOf(k)) /\ OutOf(k) \in Seq(Frames)
<1> SUFFICES ASSUME NEW k \in Conns
             PROVE  Severed(k, OutOf(k)) /\ OutOf(k) \in Seq(Frames)
  OBVIOUS
<1>1. Lanes(k) /\ Lanes(k)'
  BY LanesNow, LanesLater DEF AllLanes
<1>2. /\ fdOf' = [fd \in Fds |-> NoConn] /\ backlog' = {} /\ up'[k] = <<>>
      /\ UNCHANGED <<down, cliBuf>>
  BY DEF Stop, client
<1>3. ~Attached(k)' /\ ~Connected(k)'
  BY <1>2 DEF Attached, Connected
<1>4. OutOf(k)' = <<>> /\ InOf(k)' = <<>>
  BY <1>1, <1>3 DEF Lanes
<1>5. /\ <<>> \in Seq(Frames)
      /\ \A t \in Seq(Frames) : Cat(t, <<>>) = t /\ Cat(<<>>, t) = t
  BY ONLY CatEmpty
<1>6. \A t, u \in Seq(Frames) : Cat(t, u) \in Seq(Frames)
  BY ONLY CatType
<1>7. /\ Back(k)' = Cat(Cat(cliBuf[k], down[k]), <<>>) /\ Forth(k)' = <<>>
      /\ Back(k) = Cat(Cat(cliBuf[k], down[k]), OutOf(k))
      /\ Cat(cliBuf[k], down[k]) \in Seq(Frames) /\ OutOf(k) \in Seq(Frames)
  BY <1>1, <1>2, <1>4, <1>5, <1>6 DEF Lanes
<1> QED
  BY <1>3, <1>5, <1>7 DEF Severed

-----------------------------------------------------------------------------
(* What may be on its way to a client, and to the server, by what the       *)
(* connection is: events, whole or cut short, calls and their answers, what *)
(* the server cannot make sense of, and a command line.                     *)
Replies == {f \in Frames : f.type \in {"response", "ack"}}
Asks    == {f \in Frames : f.type \in {"request", "subscribe", "unsubscribe",
                                       "unknown", "corrupt"}}
Lines   == {f \in Frames : f.type = "line" /\ f.whole}
CutEvents == {f \in Frames : ~f.whole /\ IsEvent(f) /\ Completed(f) \in EventFrames}
FromFramed == Asks \cup EventFrames \cup CutEvents

ToClient(m) == CASE m = "idle"   -> {}
                 [] m = "legacy" -> Replies
                 [] OTHER        -> Replies \cup EventFrames
ToServer(m) == CASE m = "idle"   -> {}
                 [] m = "legacy" -> Lines
                 [] m = "framed" -> FromFramed
                 [] OTHER        -> FromFramed \cup Lines

Carries(k) == Back(k) \in Seq(ToClient(mode[k])) /\ Forth(k) \in Seq(ToServer(mode[k]))
Contents == \A k \in Conns : Carries(k)

(* Only connections that speak frames are subscribed, and no event has a    *)
(* number out of range.                                                     *)
SubscribersFramed ==
  \A t \in Topics : \A fd \in subscriptions[t] : mode[fdOf[fd]] \in {"framed", "closed"}
Counted == serial <= MaxEvents

Traffic == Contents /\ SubscribersFramed /\ Counted

LEMMA Kinds ==
  /\ EventFrames \subseteq Frames /\ Replies \subseteq Frames
  /\ Asks \subseteq Frames /\ Lines \subseteq Frames
  /\ CutEvents \subseteq Frames /\ FromFramed \subseteq Frames
  /\ \A f \in EventFrames : f.type = "event" /\ f.topic \in Topics /\ f.whole
  /\ \A n \in Nat : Response(n) \in Replies /\ Ack(n) \in Replies
  /\ \A m : ToClient(m) \subseteq Frames /\ ToServer(m) \subseteq Frames
  /\ \A m : /\ ToClient(m) \subseteq ToClient("closed")
            /\ ToServer(m) \subseteq ToServer("closed")
<1>1. /\ EventFrames \subseteq Frames
      /\ \A f \in EventFrames : f.type = "event" /\ f.topic \in Topics /\ f.whole
  <2>1. \A t \in Topics, n \in 1 .. MaxEvents :
          /\ Event(t, n) \in Frames /\ Event(t, n).whole
          /\ Event(t, n).type = "event" /\ Event(t, n).topic = t
    <3> SUFFICES ASSUME NEW t \in Topics, NEW n \in 1 .. MaxEvents
                 PROVE  /\ Event(t, n) \in Frames /\ Event(t, n).whole
                        /\ Event(t, n).type = "event" /\ Event(t, n).topic = t
      OBVIOUS
    <3>1. n \in Nat
      OBVIOUS
    <3>2. Event(t, n) \in Frames
      BY <3>1, FrameTypes
    <3> QED
      BY <3>2 DEF Event, Frame
  <2> QED
    BY <2>1 DEF EventFrames
<1>2. \A n \in Nat : Response(n) \in Replies /\ Ack(n) \in Replies
  <2>1. \A n \in Nat : Response(n).type = "response" /\ Ack(n).type = "ack"
    BY DEF Response, Ack, Frame
  <2> QED
    BY <2>1, FrameTypes DEF Replies
<1>3. /\ Replies \subseteq Frames /\ Asks \subseteq Frames /\ Lines \subseteq Frames
      /\ CutEvents \subseteq Frames
  BY DEF Replies, Asks, Lines, CutEvents
<1>4. FromFramed \subseteq Frames
  BY <1>1, <1>3 DEF FromFramed
<1> QED
  BY <1>1, <1>2, <1>3, <1>4 DEF ToClient, ToServer

(* A frame cut short comes from a connection that speaks frames, and so     *)
(* does what the server may take it for.                                    *)
LEMMA CutSorts ==
  ASSUME NEW m, NEW f \in ToServer(m), ~f.whole
  PROVE  /\ m # "idle" /\ m # "legacy"
         /\ Completed(f) \in ToServer(m) /\ Completed(f).id = f.id
         /\ Completed(f) \in WithId <=> f \in WithId
         /\ Unknown \in ToServer(m) \ WithId /\ Corrupt \in ToServer(m) \ WithId
<1>1. f \in FromFramed /\ m # "idle" /\ m # "legacy"
  BY Kinds DEF ToServer, Lines
<1>2. f \in Frames /\ Completed(f) \in Frames
  BY <1>1, Kinds, CutTypes
<1>3. Completed(f).id = f.id /\ Completed(f).type = f.type
  BY <1>2 DEF Completed, Frames
<1>4. Completed(f) \in WithId <=> f \in WithId
  BY <1>2, <1>3 DEF WithId
<1>5. Completed(f) \in FromFramed
  <2>1. CASE f \in Asks
    BY <1>2, <1>3, <2>1 DEF Asks, FromFramed
  <2>2. CASE f \in CutEvents
    BY <2>2 DEF CutEvents, FromFramed
  <2> QED
    BY <1>1, <2>1, <2>2, Kinds DEF FromFramed
<1>6. Unknown \in FromFramed \ WithId /\ Corrupt \in FromFramed \ WithId
  <2>1. Unknown.type = "unknown" /\ Corrupt.type = "corrupt"
    BY DEF Unknown, Corrupt, Frame
  <2> QED
    BY <2>1, FrameTypes DEF FromFramed, Asks, WithId
<1> QED
  BY <1>1, <1>3, <1>4, <1>5, <1>6 DEF ToServer

(* What a step of each kind leaves of it.                                   *)
LEMMA PathContents ==
  ASSUME IInv, IInv', NEW k \in Conns, Carries(k), mode'[k] = mode[k]
  PROVE  /\ Kept(k) => Carries(k)'
         /\ \A f \in ToServer(mode[k]) : Asked(k, f) => Carries(k)'
         /\ \A r \in Seq(Frames) : Taken(k, r) \/ Severed(k, r) => Carries(k)'
         /\ \A r \in Seq(ToClient(mode[k])) : Queued(k, r) \/ Served(k, r) => Carries(k)'
         /\ \A f \in ToServer(mode[k]), r \in Seq(ToServer(mode[k])) :
              frame \in Frames /\ Mistaken(k, f, r) => Carries(k)'
<1> DEFINE C == ToClient(mode[k])
           V == ToServer(mode[k])
           b == Back(k)
           w == Forth(k)
<1>1. b \in Seq(C) /\ w \in Seq(V)
  BY DEF Carries
<1>2. b \in Seq(Frames) /\ w \in Seq(Frames) /\ b' \in Seq(Frames) /\ w' \in Seq(Frames)
  BY LanesNow, LanesLater DEF AllLanes, Lanes
<1>3. Carries(k)' <=> b' \in Seq(C) /\ w' \in Seq(V)
  BY DEF Carries, ToClient, ToServer
<1> HIDE DEF C, V, b, w
<1>4. ASSUME Kept(k) PROVE Carries(k)'
  BY <1>1, <1>3, <1>4 DEF Kept, b, w
<1>5. ASSUME NEW f \in V, Asked(k, f) PROVE Carries(k)'
  <2>1. \A e : One(e) \in Seq(V) <=> e \in V
    BY ONLY OneOf
  <2>2. \A s, t \in Seq(V) : Cat(s, t) \in Seq(V)
    BY ONLY CatType
  <2> QED
    BY <1>1, <1>3, <1>5, <2>1, <2>2 DEF Asked, b, w
<1>6. ASSUME NEW r \in Seq(Frames), Taken(k, r) \/ Severed(k, r) PROVE Carries(k)'
  <2>1. \A s, t \in Seq(Frames) : Cat(s, t) \in Seq(C) => s \in Seq(C) /\ t \in Seq(C)
    BY ONLY CatParts
  <2>2. b = Cat(r, b') \/ b = Cat(b', r)
    BY <1>6 DEF Taken, Severed, b
  <2>3. w' = w \/ w' = <<>>
    BY <1>6 DEF Taken, Severed, w
  <2>4. <<>> \in Seq(V)
    BY EmptySeq
  <2> QED
    BY <1>1, <1>2, <1>3, <2>1, <2>2, <2>3, <2>4
<1>7. ASSUME NEW r \in Seq(C), Queued(k, r) \/ Served(k, r) PROVE Carries(k)'
  <2>1. \A s, t \in Seq(C) : Cat(s, t) \in Seq(C)
    BY ONLY CatType
  <2>2. b' = Cat(b, r)
    BY <1>7 DEF Queued, Served, b
  <2>3. w' \in Seq(V)
    <3>1. CASE Queued(k, r)
      BY <1>1, <3>1 DEF Queued, w
    <3>2. CASE Served(k, r)
      <4>1. w = Cat(One(frame), w')
        BY <3>2 DEF Served, w
      <4>2. One(frame) \in Seq(Frames)
        <5>1. \A e : One(e) \in Seq(Frames) <=> e \in Frames
          BY ONLY OneOf
        <5> QED
          BY <3>2, <5>1 DEF Served
      <4>3. \A s, t \in Seq(Frames) : Cat(s, t) \in Seq(V) => s \in Seq(V) /\ t \in Seq(V)
        BY ONLY CatParts
      <4> QED
        BY <1>1, <1>2, <4>1, <4>2, <4>3
    <3> QED
      BY <1>7, <3>1, <3>2
  <2> QED
    BY <1>1, <1>3, <2>1, <2>2, <2>3
<1>8. ASSUME NEW f \in V, NEW r \in Seq(V), frame \in Frames, Mistaken(k, f, r)
      PROVE  Carries(k)'
  <2>1. PICK g \in Seq(Frames), v \in Seq(Frames) :
          /\ b' = b /\ w = Cat(One(frame), Cat(g, v)) /\ w' = Cat(One(f), Cat(r, v))
    BY <1>8 DEF Mistaken, b, w
  <2>2. \A s, t \in Seq(Frames) : Cat(s, t) \in Seq(V) => s \in Seq(V) /\ t \in Seq(V)
    BY ONLY CatParts
  <2>3. \A s, t \in Seq(Frames) : Cat(s, t) \in Seq(Frames)
    BY ONLY CatType
  <2>4. One(frame) \in Seq(Frames)
    <3>1. \A e : One(e) \in Seq(Frames) <=> e \in Frames
      BY ONLY OneOf
    <3> QED
      BY <1>8, <3>1
  <2>5. v \in Seq(V)
    <3>1. Cat(g, v) \in Seq(Frames)
      BY <2>1, <2>3
    <3>2. Cat(g, v) \in Seq(V)
      BY <1>1, <2>1, <2>2, <2>4, <3>1
    <3> QED
      BY <2>1, <2>2, <3>2
  <2>6. One(f) \in Seq(V)
    <3>1. \A e : One(e) \in Seq(V) <=> e \in V
      BY ONLY OneOf
    <3> QED
      BY <1>8, <3>1
  <2>7. \A s, t \in Seq(V) : Cat(s, t) \in Seq(V)
    BY ONLY CatType
  <2>8. w' \in Seq(V)
    BY <1>8, <2>1, <2>5, <2>6, <2>7
  <2> QED
    BY <1>1, <1>3, <2>1, <2>8
<1> QED
  BY <1>4, <1>5, <1>6, <1>7, <1>8 DEF C, V

(* The frame the loop is at is one its connection may have sent.            *)
LEMMA FrameSort ==
  ASSUME IInv, Contents, pc = "frames"
  PROVE  /\ cur \in Fds /\ cur \in clients /\ fdOf[cur] \in Conns
         /\ frame \in ToServer(mode[fdOf[cur]])
<1>1. /\ cur \in Fds /\ cur \in clients /\ srvBuf[cur] # <<>>
      /\ fdOf[cur] \in Conns
  BY TakenFrame DEF IInv, Bookkeeping, LoopShape, TypeOK, DescriptorsAccounted, Free
<1> DEFINE k == fdOf[cur]
           V == ToServer(mode[k])
<1>2. /\ InOf(k) = srvBuf[cur] /\ Forth(k) = Cat(InOf(k), up[k])
      /\ InOf(k) \in Seq(Frames) /\ up[k] \in Seq(Frames)
  BY <1>1, LanesNow DEF AllLanes, Lanes
<1>3. Forth(k) \in Seq(V)
  BY <1>1 DEF Contents, Carries
<1>4. \A s, t \in Seq(Frames) : Cat(s, t) \in Seq(V) => s \in Seq(V) /\ t \in Seq(V)
  BY ONLY CatParts
<1> HIDE DEF V
<1>5. srvBuf[cur] \in Seq(V)
  BY <1>2, <1>3, <1>4
<1>6. Head(srvBuf[cur]) \in V
  BY <1>1, <1>5, HeadTailProperties
<1> QED
  BY <1>1, <1>6 DEF V, frame

(* What a publication sends out, and to whom.                               *)
LEMMA CopyContents ==
  ASSUME IInv, Traffic, NEW e, e = NoFrame \/ e \in EventFrames, NEW k \in Conns
  PROVE  /\ Copy(k, e) \in Seq(ToClient(mode[k])) /\ Copy(k, e) \in Seq(Frames)
         /\ Copy(k, e) # <<>> => Copy(k, e) = One(e)
<1>1. e = NoFrame \/ e \in Frames
  BY Kinds
<1>2. /\ Copy(k, e) \in Seq(Frames)
      /\ Copy(k, e) # <<>> => e \in Frames /\ Copy(k, e) = One(e)
      /\ e = NoFrame => Copy(k, e) = <<>>
  BY <1>1, CopyTypes
<1>3. CASE Copy(k, e) = <<>>
  BY <1>2, <1>3, EmptySeq
<1>4. CASE Copy(k, e) # <<>>
  <2>1. PICK fd \in Recipients(e) : fdOf[fd] = k
    BY <1>4 DEF Copy
  <2>2. fd \in subscriptions[e.topic] /\ e.topic \in Topics
    BY <2>1 DEF Recipients
  <2>3. mode[k] \in {"framed", "closed"}
    BY <2>1, <2>2 DEF Traffic, SubscribersFramed
  <2>4. e \in ToClient(mode[k])
    BY <1>2, <1>4, <2>3 DEF ToClient
  <2>5. \A f : One(f) \in Seq(ToClient(mode[k])) <=> f \in ToClient(mode[k])
    BY ONLY OneOf
  <2> QED
    BY <1>2, <1>4, <2>4, <2>5
<1> QED
  BY <1>3, <1>4

LEMMA NewEventFrames ==
  ASSUME IInv, Counted, NEW e \in NewEvents, Numbered(e)
  PROVE  (e = NoFrame \/ e \in EventFrames) /\ Counted'
<1>1. serial \in Nat /\ MaxEvents \in Nat /\ serial <= MaxEvents
  BY DEF IInv, TypeOK, Counted
<1>2. CASE e = NoFrame
  BY <1>1, <1>2 DEF Numbered, Counted
<1>3. CASE e # NoFrame
  <2>1. serial < MaxEvents /\ \E t \in Topics : e = Event(t, serial + 1)
    BY <1>3 DEF NewEvents
  <2>2. serial + 1 \in 1 .. MaxEvents
    BY <1>1, <2>1
  <2>3. serial' = serial + 1
    BY <1>3 DEF Numbered
  <2> QED
    BY <1>1, <2>1, <2>2, <2>3 DEF EventFrames, Counted
<1> QED
  BY <1>2, <1>3

-----------------------------------------------------------------------------
(* The moves of a connection: every step of the system is one of these for  *)
(* each connection, whatever the step is for the others.                    *)
Answer(f) == CASE f.type = "request" -> Response(f.id)
               [] f.type \in {"subscribe", "unsubscribe"} -> Ack(f.id)
               [] OTHER -> f

SameHistory(k) == unsent'[k] = unsent[k] /\ swallowed'[k] = swallowed[k]
Quiet(k) == /\ mode'[k] = mode[k] /\ nextId'[k] = nextId[k] /\ waiting'[k] = waiting[k]
            /\ SameHistory(k)
NoNewPeer(k) == Connected(k)' => Connected(k)
News(k, r) == /\ r \in Seq(ToClient(mode[k])) /\ r \in Seq(Frames)
              /\ r = <<>> \/ \E e \in EventFrames : r = One(e)

(* Nothing moves, though a call may end.                                    *)
Rests(k) == /\ Kept(k) /\ NoNewPeer(k) /\ mode'[k] = mode[k] /\ nextId'[k] = nextId[k]
            /\ waiting'[k] \in {waiting[k], NoFrame} /\ SameHistory(k)

(* A frame without an id, and one with the next id, leave for the server,   *)
(* each of them whole or cut short; or an id is taken and nothing leaves.   *)
Tells(k) == \E f \in ToServer(mode[k]) \ WithId :
              /\ Asked(k, f) /\ NoNewPeer(k) /\ mode'[k] = mode[k]
              /\ waiting'[k] = waiting[k] /\ SameHistory(k)
              /\ mode[k] = "framed" => nextId'[k] = nextId[k]
Places(k) == \E f \in WithId \cap Asks :
              /\ Asked(k, f) /\ NoNewPeer(k) /\ Connected(k)
              /\ mode[k] = "framed" /\ mode'[k] = mode[k]
              /\ f.id = nextId[k] /\ nextId'[k] = nextId[k] + 1
              /\ waiting'[k] \in {NoFrame, Answer(f)} /\ SameHistory(k)
Skips(k) == /\ Kept(k) /\ NoNewPeer(k) /\ mode[k] = "framed" /\ mode'[k] = mode[k]
            /\ nextId'[k] = nextId[k] + 1 /\ waiting'[k] = NoFrame
            /\ unsent'[k] = unsent[k] \cup {nextId[k]} /\ swallowed'[k] = swallowed[k]

(* Frames reach the client: one that a call does not wait for, or any       *)
(* frames when no call waits afterwards.                                    *)
Hears(k) == \E r \in Seq(Frames) :
              /\ Taken(k, r) /\ NoNewPeer(k) /\ mode'[k] = mode[k]
              /\ nextId'[k] = nextId[k] /\ SameHistory(k)
              /\ \/ waiting'[k] = NoFrame
                 \/ \E h \in Frames : /\ r = One(h) /\ h # waiting[k]
                                      /\ waiting'[k] = waiting[k]

(* An event is queued for it, or a frame of it is served.                   *)
Gets(k) == \E r : News(k, r) /\ Queued(k, r) /\ NoNewPeer(k) /\ Quiet(k)
Answered(k) ==
  /\ NoNewPeer(k) /\ Quiet(k) /\ frame \in ToServer(mode[k])
  /\ \E c : /\ News(k, c)
            /\ \/ frame \notin WithId /\ Served(k, c)
               \/ /\ frame \in WithId /\ Answer(frame) \in ToClient(mode[k])
                  /\ Served(k, Cat(c, One(Answer(frame))))

(* A frame of it is thrown away, or cut short, swallows what it sent next.  *)
Ignores(k) == /\ NoNewPeer(k) /\ Quiet(k) /\ frame \in ToServer(mode[k]) \ WithId
              /\ Served(k, <<>>)
Misreads(k) ==
  /\ NoNewPeer(k) /\ mode'[k] = mode[k] /\ nextId'[k] = nextId[k]
  /\ waiting'[k] = waiting[k] /\ unsent'[k] = unsent[k] /\ swallowed'[k] = TRUE
  /\ frame \in ToServer(mode[k])
  /\ \E f \in ToServer(mode[k]), r \in Seq(ToServer(mode[k])) :
       /\ Mistaken(k, f, r)
       /\ r = <<>> \/ r = One(Corrupt)
       /\ f \in WithId => frame \in WithId /\ f.id = frame.id

(* It is cut off, ends as a legacy connection does, opens, or closes.       *)
IsCut(k) == \E r \in Seq(Frames) : Severed(k, r) /\ Quiet(k)
Finishes(k) == /\ mode[k] \in {"legacy", "closed"} /\ Quiet(k) /\ Forth(k)' = <<>>
               /\ NoNewPeer(k)
               /\ \E r \in Seq(ToClient(mode[k])) : Back(k)' = Cat(Back(k), r)
Opens(k) == /\ mode[k] = "idle" /\ mode'[k] \in {"framed", "legacy"} /\ Kept(k)
            /\ nextId'[k] = nextId[k] /\ waiting'[k] = waiting[k] /\ SameHistory(k)
Leaves(k) == /\ Opened(k) /\ mode'[k] = "closed" /\ waiting'[k] = NoFrame
             /\ nextId'[k] = nextId[k] /\ SameHistory(k)
             /\ \E r \in Seq(Frames) : Taken(k, r)

(* Only the rest bring events to the client, or hold some for it.           *)
Plain(k) == \/ Rests(k) \/ Tells(k) \/ Places(k) \/ Skips(k) \/ Misreads(k)
            \/ Ignores(k) \/ IsCut(k) \/ Finishes(k) \/ Opens(k) \/ Leaves(k)
Move(k) == Plain(k) \/ Hears(k) \/ Gets(k) \/ Answered(k)

(* Frames reach the client j, and nothing else happens.                     *)
Delivers(j) == /\ Hears(j) /\ \A k \in Conns \ {j} : Rests(k)
               /\ UNCHANGED <<backlog, fdOf, mode, subscriptions>>

(* A connection that another one's step leaves alone.                       *)
LEMMA Bystander ==
  ASSUME NEW k \in Conns, Kept(k), NoNewPeer(k), Quiet(k)
  PROVE  Rests(k) /\ Plain(k)
BY DEF Plain, Rests, Quiet

LEMMA CallMoves ==
  ASSUME IInv, IInv', Traffic, NEW j \in Conns, NEW type \in {"request", "subscribe", "unsubscribe"},
         NEW t \in Topics \cup {NoTopic}, NEW reply,
         reply = NoFrame \/ reply = Answer(Frame(type, nextId[j], t)),
         Call(j, type, t, reply)
  PROVE  \A k \in Conns : Plain(k)
<1> DEFINE f == Frame(type, nextId[j], t)
<1>1. nextId[j] \in Nat
  BY DEF IInv, TypeOK
<1>2. f \in Frames /\ f.type = type /\ f.id = nextId[j]
  <2>1. type \in Types
    BY DEF Types
  <2>2. f \in Frames
    BY <1>1, <2>1, FrameTypes
  <2> QED
    BY <2>2 DEF Frame
<1>3. f \in WithId \cap Asks
  BY <1>2 DEF WithId, Asks
<1> HIDE DEF f
<1>4. /\ mode[j] = "framed"
      /\ \A k \in Conns : nextId'[k] = IF k = j THEN nextId[j] + 1 ELSE nextId[k]
      /\ \/ Send(j, f) /\ waiting' = [waiting EXCEPT ![j] = reply]
         \/ SendPart(j, f)
         \/ SendNothing(j) /\ unsent' = [unsent EXCEPT ![j] = @ \cup {nextId[j]}]
  BY <1>1 DEF Call, IInv, TypeOK, f
<1>5. UNCHANGED <<backlog, fdOf, mode, down, cliBuf, swallowed, bus>>
  BY <1>4 DEF Send, SendPart, SendNothing, kernel, history
<1>6. \A k \in Conns : NoNewPeer(k)
  BY <1>5 DEF NoNewPeer, Connected, Attached
<1>7. ASSUME NEW h \in WithId \cap Asks, h.id = nextId[j], Answer(h) = Answer(f),
             Put(j, h), Connected(j), unsent' = unsent,
             \A k \in Conns : waiting'[k] = IF k = j THEN waiting'[j] ELSE waiting[k],
             waiting'[j] \in {NoFrame, reply},
             waiting[j] = NoFrame
      PROVE  \A k \in Conns : Plain(k)
  <2>1. Asked(j, h) /\ \A k \in Conns \ {j} : Kept(k)
    <3>1. h \in Frames
      BY DEF Asks
    <3> QED
      BY <1>5, <1>7, <3>1, SendPaths
  <2>2. waiting'[j] \in {NoFrame, Answer(h)}
    BY <1>7 DEF f
  <2>3. Places(j)
    BY <1>4, <1>5, <1>6, <1>7, <2>1, <2>2 DEF Places, SameHistory
  <2>4. ASSUME NEW k \in Conns \ {j} PROVE Plain(k)
    BY <1>4, <1>5, <1>6, <1>7, <2>1, <2>4, Bystander DEF Quiet, SameHistory
  <2> QED
    BY <2>3, <2>4 DEF Plain
<1>8. CASE Send(j, f) /\ waiting' = [waiting EXCEPT ![j] = reply]
  <2>1. /\ Put(j, f) /\ Connected(j) /\ waiting[j] = NoFrame /\ unsent' = unsent
        /\ waiting'[j] = reply
        /\ \A k \in Conns : waiting'[k] = IF k = j THEN waiting'[j] ELSE waiting[k]
    BY <1>8 DEF Send, history, IInv, TypeOK
  <2> QED
    BY <1>2, <1>3, <1>7, <2>1
<1>9. CASE SendPart(j, f)
  <2> DEFINE h == [f EXCEPT !.whole = FALSE]
  <2>1. h \in Frames /\ h.type = f.type /\ h.id = f.id
    BY <1>2, CutTypes DEF Frames
  <2> HIDE DEF h
  <2>2. h \in WithId \cap Asks
    BY <1>2, <2>1 DEF WithId, Asks
  <2>3. Answer(h) = Answer(f)
    BY <1>2, <2>1 DEF Answer
  <2>4. /\ Put(j, h) /\ Connected(j) /\ waiting[j] = NoFrame /\ unsent' = unsent
        /\ waiting' = waiting
    BY <1>9 DEF SendPart, history, h
  <2> QED
    BY <1>2, <1>7, <2>1, <2>2, <2>3, <2>4
<1>10. CASE SendNothing(j) /\ unsent' = [unsent EXCEPT ![j] = @ \cup {nextId[j]}]
  <2>1. /\ UNCHANGED <<fdOf, up, down, cliBuf, srvBuf, out, waiting>>
        /\ waiting[j] = NoFrame
    BY <1>10 DEF SendNothing, kernel, bus
  <2>2. \A k \in Conns : Kept(k)
    BY <2>1, StillPaths
  <2>3. \A k \in Conns : unsent'[k] = IF k = j THEN unsent[j] \cup {nextId[j]} ELSE unsent[k]
    BY <1>10 DEF IInv, TypeOK
  <2>4. Skips(j)
    BY <1>4, <1>5, <1>6, <2>1, <2>2, <2>3 DEF Skips
  <2>5. ASSUME NEW k \in Conns \ {j} PROVE Plain(k)
    BY <1>4, <1>5, <1>6, <2>1, <2>2, <2>3, <2>5, Bystander DEF Quiet, SameHistory
  <2> QED
    BY <2>4, <2>5 DEF Plain
<1> QED
  BY <1>4, <1>8, <1>9, <1>10

(* publish of a client, and a legacy command.                               *)
LEMMA TellMoves ==
  ASSUME IInv, IInv', Traffic, NEW j \in Conns, NEW f \in ToServer(mode[j]) \ WithId,
         Put(j, f), UNCHANGED <<backlog, fdOf, down, mode, waiting, cliBuf, history, bus>>,
         mode[j] = "framed" => nextId' = nextId,
         \A k \in Conns \ {j} : nextId'[k] = nextId[k]
  PROVE  \A k \in Conns : Plain(k)
<1>1. f \in Frames
  BY Kinds
<1>2. /\ UNCHANGED <<backlog, fdOf, mode, down, cliBuf, waiting, bus>>
      /\ \A k \in Conns : SameHistory(k)
  BY DEF history, SameHistory
<1>3. Asked(j, f) /\ \A k \in Conns \ {j} : Kept(k)
  BY <1>1, <1>2, SendPaths
<1>4. \A k \in Conns : NoNewPeer(k)
  BY <1>2 DEF NoNewPeer, Connected, Attached
<1>5. Tells(j)
  BY <1>2, <1>3, <1>4 DEF Tells
<1>6. ASSUME NEW k \in Conns \ {j} PROVE Plain(k)
  BY <1>2, <1>3, <1>4, <1>6, Bystander DEF Quiet
<1> QED
  BY <1>5, <1>6 DEF Plain

LEMMA ReadMoves ==
  ASSUME IInv, IInv', NEW j \in Conns, Reads(j) \/ Timeout(j) \/ Disconnect(j)
  PROVE  (\A k \in Conns : Plain(k)) \/ Delivers(j)
<1> USE DEF kernel
<1>1. /\ UNCHANGED <<backlog, fdOf, up, nextId, bus>>
      /\ \A k \in Conns : SameHistory(k)
  BY DEF Reads, PumpFrame, PumpRead, OnFdReady, Timeout, Disconnect, history, SameHistory
<1>2. \A k \in Conns \ {j} : /\ cliBuf'[k] = cliBuf[k] /\ down'[k] = down[k]
                             /\ mode'[k] = mode[k] /\ waiting'[k] = waiting[k]
  <2>1. /\ DOMAIN cliBuf = Conns /\ DOMAIN down = Conns /\ DOMAIN mode = Conns
        /\ DOMAIN waiting = Conns
    BY DEF IInv, TypeOK
  <2> SUFFICES ASSUME NEW k \in Conns \ {j}
               PROVE  /\ cliBuf'[k] = cliBuf[k] /\ down'[k] = down[k]
                      /\ mode'[k] = mode[k] /\ waiting'[k] = waiting[k]
    OBVIOUS
  <2>2. CASE PumpFrame(j)
    BY <2>1, <2>2 DEF PumpFrame
  <2>3. CASE PumpRead(j)
    BY <2>1, <2>3 DEF PumpRead
  <2>4. CASE OnFdReady(j)
    BY <2>1, <2>4 DEF OnFdReady, Disconnected
  <2>5. CASE Timeout(j)
    BY <2>1, <2>5 DEF Timeout
  <2>6. CASE Disconnect(j)
    BY <2>1, <2>6 DEF Disconnect, Disconnected
  <2> QED
    BY <2>2, <2>3, <2>4, <2>5, <2>6 DEF Reads
<1>3. \A k \in Conns \ {j} : Kept(k)
  BY <1>1, <1>2, ReadPaths
<1>4. \A k \in Conns : NoNewPeer(k)
  BY <1>1 DEF NoNewPeer, Connected, Attached
<1>5. \A k \in Conns \ {j} : Rests(k) /\ Plain(k)
  BY <1>1, <1>2, <1>3, <1>4, Bystander DEF Quiet
<1>6. /\ cliBuf[j] # <<>> /\ cliBuf'[j] = Tail(cliBuf[j]) /\ down'[j] = down[j]
           => Taken(j, One(Head(cliBuf[j]))) /\ Head(cliBuf[j]) \in Frames
      /\ cliBuf[j] = <<>> /\ cliBuf'[j] = down[j] /\ down'[j] = <<>> => Kept(j)
      /\ cliBuf'[j] = <<>> /\ down'[j] = <<>> => \E r \in Seq(Frames) : Taken(j, r)
  BY <1>1, <1>2, ReadPaths
<1>7. CASE PumpFrame(j)
  <2>1. /\ cliBuf[j] # <<>> /\ cliBuf'[j] = Tail(cliBuf[j]) /\ down'[j] = down[j]
        /\ mode'[j] = mode[j] /\ nextId'[j] = nextId[j]
        /\ waiting'[j] = IF Head(cliBuf[j]) = waiting[j] THEN NoFrame ELSE waiting[j]
    BY <1>7 DEF PumpFrame, TakesReply, IInv, TypeOK
  <2>2. One(Head(cliBuf[j])) \in Seq(Frames)
    <3>1. \A e : One(e) \in Seq(Frames) <=> e \in Frames
      BY ONLY OneOf
    <3> QED
      BY <1>6, <2>1, <3>1
  <2>3. Hears(j)
    BY <1>1, <1>4, <1>6, <2>1, <2>2 DEF Hears
  <2>4. mode' = mode
    BY <1>7 DEF PumpFrame
  <2> QED
    BY <1>1, <1>5, <2>3, <2>4 DEF Delivers, bus
<1>8. CASE PumpRead(j)
  <2>1. /\ cliBuf[j] = <<>> /\ cliBuf'[j] = down[j] /\ down'[j] = <<>>
        /\ mode'[j] = mode[j] /\ nextId'[j] = nextId[j]
        /\ waiting'[j] \in {waiting[j], NoFrame}
    BY <1>8 DEF PumpRead, AfterRead, IInv, TypeOK
  <2>2. Rests(j)
    BY <1>1, <1>4, <1>6, <2>1 DEF Rests
  <2> QED
    BY <1>5, <2>2 DEF Plain
<1>9. CASE Disconnect(j) \/ (OnFdReady(j) /\ Eof(j))
  <2>1. /\ Opened(j) /\ cliBuf'[j] = <<>> /\ down'[j] = <<>>
        /\ mode'[j] = "closed" /\ nextId'[j] = nextId[j] /\ waiting'[j] = NoFrame
    BY <1>9 DEF Disconnect, OnFdReady, Disconnected, Eof, IInv, TypeOK
  <2>2. Leaves(j)
    BY <1>1, <1>6, <2>1 DEF Leaves
  <2> QED
    BY <1>5, <2>2 DEF Plain
<1>10. CASE OnFdReady(j) /\ ~Eof(j)
  <2>1. /\ cliBuf'[j] = <<>> /\ down'[j] = <<>>
        /\ mode'[j] = mode[j] /\ nextId'[j] = nextId[j] /\ waiting'[j] = NoFrame
    BY <1>10 DEF OnFdReady, InPollLoop, IInv, TypeOK
  <2>2. Hears(j)
    BY <1>1, <1>4, <1>6, <2>1 DEF Hears
  <2>3. mode' = mode
    BY <1>10 DEF OnFdReady
  <2> QED
    BY <1>1, <1>5, <2>2, <2>3 DEF Delivers, bus
<1>11. CASE Timeout(j)
  <2>1. /\ UNCHANGED <<fdOf, up, down, cliBuf, srvBuf, out, mode, nextId>>
        /\ waiting'[j] = NoFrame
    BY <1>1, <1>11 DEF Timeout, bus, IInv, TypeOK
  <2>2. Rests(j)
    BY <1>1, <1>4, <2>1, StillPaths DEF Rests
  <2> QED
    BY <1>5, <2>2 DEF Plain
<1> QED
  BY <1>7, <1>8, <1>9, <1>10, <1>11 DEF Reads

LEMMA ClientMoves ==
  ASSUME IInv, IInv', Traffic, NEW j \in Conns, Client(j)
  PROVE  ((\A k \in Conns : Plain(k)) \/ Delivers(j)) /\ Counted'
<1>0. serial \in Nat /\ MaxEvents \in Nat /\ serial <= MaxEvents /\ nextId[j] \in Nat
  BY DEF IInv, TypeOK, Traffic, Counted
<1>1. ASSUME NEW m \in {"framed", "legacy"}, Connect(j, m)
      PROVE  ((\A k \in Conns : Plain(k)) \/ Delivers(j)) /\ Counted'
  <2>1. /\ UNCHANGED <<fdOf, up, down, cliBuf, srvBuf, out, nextId, waiting, serial>>
        /\ mode[j] = "idle" /\ mode' = [mode EXCEPT ![j] = m]
        /\ backlog' = backlog \cup {j} /\ \A k \in Conns : SameHistory(k)
    BY <1>1 DEF Connect, bus, history, SameHistory
  <2>2. \A k \in Conns : Kept(k)
    BY <2>1, StillPaths
  <2>3. Opens(j)
    BY <2>1, <2>2 DEF Opens, IInv, TypeOK
  <2>4. ASSUME NEW k \in Conns \ {j} PROVE Plain(k)
    <3>1. NoNewPeer(k)
      BY <2>1, <2>4 DEF NoNewPeer, Connected, Attached
    <3>2. Quiet(k)
      BY <2>1, <2>4 DEF Quiet
    <3> QED
      BY <2>2, <3>1, <3>2, Bystander
  <2> QED
    BY <1>0, <2>1, <2>3, <2>4 DEF Plain, Counted
<1>3. CASE Request(j)
  <2>1. Answer(Frame("request", nextId[j], NoTopic)) = Response(nextId[j])
    BY DEF Answer, Frame
  <2>2. Call(j, "request", NoTopic, Response(nextId[j])) /\ serial' = serial
    BY <1>3 DEF Request, Call
  <2> QED
    BY <1>0, <2>1, <2>2, CallMoves DEF Counted
<1>4. ASSUME NEW t \in Topics,
             Subscribe(j, t) \/ SubscribeAsync(j, t) \/ Unsubscribe(j, t)
      PROVE  ((\A k \in Conns : Plain(k)) \/ Delivers(j)) /\ Counted'
  <2>1. /\ Answer(Frame("subscribe", nextId[j], t)) = Ack(nextId[j])
        /\ Answer(Frame("unsubscribe", nextId[j], t)) = Ack(nextId[j])
    BY DEF Answer, Frame
  <2>2. serial' = serial
    BY <1>4 DEF Subscribe, SubscribeAsync, Unsubscribe, Call
  <2>3. CASE Call(j, "subscribe", t, Ack(nextId[j])) \/ Call(j, "subscribe", t, NoFrame)
    BY <1>0, <2>1, <2>2, <2>3, CallMoves DEF Counted
  <2>4. CASE Call(j, "unsubscribe", t, Ack(nextId[j]))
    BY <1>0, <2>1, <2>2, <2>4, CallMoves DEF Counted
  <2> QED
    BY <1>4, <2>3, <2>4 DEF Subscribe, SubscribeAsync, Unsubscribe
<1>5. ASSUME NEW t \in Topics, ClientPublish(j, t)
      PROVE  ((\A k \in Conns : Plain(k)) \/ Delivers(j)) /\ Counted'
  <2> DEFINE e == Event(t, serial + 1)
             h == [e EXCEPT !.whole = FALSE]
  <2>1. /\ mode[j] = "framed" /\ serial < MaxEvents /\ serial' = serial + 1
        /\ UNCHANGED <<nextId, waiting>>
        /\ \/ \E f \in {e, Corrupt} : Send(j, f)
           \/ SendPart(j, e)
           \/ SendNothing(j) /\ UNCHANGED history
    BY <1>5 DEF ClientPublish
  <2>2. e \in EventFrames /\ e \in Frames
    <3>1. e \in EventFrames
      BY <1>0, <2>1 DEF EventFrames
    <3> QED
      BY <3>1, Kinds
  <2>3. h \in Frames /\ h.type = "event" /\ ~h.whole /\ Completed(h) = e
    BY <2>2 DEF Completed, IsEvent, Event, Frame, Frames
  <2>4. e.type = "event" /\ Corrupt.type = "corrupt" /\ Corrupt \in Asks
    <3>1. e.type = "event" /\ Corrupt.type = "corrupt"
      BY DEF Event, Corrupt, Frame
    <3> QED
      BY <3>1, FrameTypes DEF Asks
  <2> HIDE DEF e, h
  <2>5. /\ e \in ToServer(mode[j]) \ WithId /\ Corrupt \in ToServer(mode[j]) \ WithId
        /\ h \in ToServer(mode[j]) \ WithId
    BY <2>1, <2>2, <2>3, <2>4 DEF ToServer, FromFramed, CutEvents, IsEvent, WithId
  <2>6. ASSUME NEW f \in {e, Corrupt}, Send(j, f) PROVE \A k \in Conns : Plain(k)
    <3>1. f \in ToServer(mode[j]) \ WithId
      BY <2>5, <2>6
    <3> QED
      BY <2>1, <2>6, <3>1, TellMoves DEF Send
  <2>7. ASSUME SendPart(j, e) PROVE \A k \in Conns : Plain(k)
    <3>1. Put(j, h) /\ UNCHANGED <<backlog, fdOf, down, mode, waiting, cliBuf, history, bus>>
      BY <2>7 DEF SendPart, h
    <3> QED
      BY <2>1, <2>5, <3>1, TellMoves
  <2>8. ASSUME SendNothing(j), UNCHANGED history PROVE \A k \in Conns : Plain(k)
    <3>1. /\ UNCHANGED <<backlog, fdOf, up, down, cliBuf, srvBuf, out, mode, nextId, waiting>>
          /\ \A k \in Conns : SameHistory(k)
      BY <2>1, <2>8 DEF SendNothing, kernel, bus, history, SameHistory
    <3>2. \A k \in Conns : Kept(k) /\ NoNewPeer(k) /\ Quiet(k)
      BY <3>1, StillPaths DEF NoNewPeer, Connected, Attached, Quiet
    <3> QED
      BY <3>2, Bystander
  <2> QED
    BY <1>0, <2>1, <2>6, <2>7, <2>8 DEF Counted
<1>6. CASE LegacyCommand(j)
  <2> DEFINE f == Frame("line", 0, NoTopic)
  <2>1. /\ mode[j] = "legacy" /\ Send(j, f) /\ nextId' = [nextId EXCEPT ![j] = 2]
        /\ UNCHANGED <<waiting, serial>>
    BY <1>6 DEF LegacyCommand
  <2>2. f \in Frames /\ f.type = "line" /\ f.whole
    <3>1. f \in Frames
      BY FrameTypes DEF Types
    <3> QED
      BY <3>1 DEF Frame
  <2>3. f \in ToServer(mode[j]) /\ f \notin WithId
    BY <2>1, <2>2 DEF ToServer, Lines, WithId
  <2> HIDE DEF f
  <2>4. /\ \A k \in Conns \ {j} : nextId'[k] = nextId[k]
        /\ Put(j, f) /\ UNCHANGED <<backlog, fdOf, down, mode, cliBuf, history, bus>>
    BY <2>1 DEF Send
  <2>5. \A k \in Conns : Plain(k)
    BY <2>1, <2>3, <2>4, TellMoves
  <2> QED
    BY <1>0, <2>1, <2>5 DEF Counted
<1>7. CASE Reads(j) \/ Timeout(j) \/ Disconnect(j)
  <2>1. serial' = serial
    BY <1>7 DEF Reads, PumpFrame, PumpRead, OnFdReady, Timeout, Disconnect
  <2> QED
    BY <1>0, <1>7, <2>1, ReadMoves DEF Counted
<1> QED
  BY <1>1, <1>3, <1>4, <1>5, <1>6, <1>7 DEF Client, Calls

(* A step of the server: the clients' own state stays.                      *)
LEMMA ServerStep ==
  ASSUME client' = client
  PROVE  /\ \A k \in Conns : Quiet(k)
         /\ backlog' = backlog /\ fdOf' = fdOf => \A k \in Conns : NoNewPeer(k)
BY DEF client, history, Quiet, SameHistory, NoNewPeer, Connected, Attached

LEMMA StillMoves ==
  ASSUME IInv, IInv', \/ Poll \/ AcceptEnds \/ Ignore \/ NothingToRead \/ ParkedFramed
                      \/ FrameWaits \/ Accept \/ Receive \/ Flush
  PROVE  (\A k \in Conns : Plain(k)) /\ serial' = serial
<1>1. client' = client /\ serial' = serial
  BY DEF Poll, AcceptEnds, Ignore, NothingToRead, ParkedFramed, FrameWaits, Accept,
         Receive, Flush, kernel, bus, loop
<1>2. CASE Poll \/ AcceptEnds \/ Ignore \/ NothingToRead \/ ParkedFramed \/ FrameWaits
  <2>1. UNCHANGED <<backlog, fdOf, up, down, cliBuf, srvBuf, out>>
    BY <1>2 DEF Poll, AcceptEnds, Ignore, NothingToRead, ParkedFramed, FrameWaits,
                kernel, client, bus
  <2> QED
    BY <1>1, <2>1, StillPaths, ServerStep, Bystander
<1>3. CASE Accept
  BY <1>1, <1>3, AcceptPaths, ServerStep, Bystander DEF NoNewPeer
<1>4. CASE Receive
  <2>1. UNCHANGED <<backlog, fdOf>>
    BY <1>4 DEF Receive
  <2> QED
    BY <1>1, <1>4, <2>1, ReceivePaths, ServerStep, Bystander
<1>5. CASE Flush
  <2>1. UNCHANGED <<backlog, fdOf>>
    BY <1>5 DEF Flush
  <2> QED
    BY <1>1, <1>5, <2>1, FlushPaths, ServerStep, Bystander
<1> QED
  BY <1>2, <1>3, <1>4, <1>5

(* A frame that is thrown away, or that swallows what follows it.           *)
LEMMA StrayMoves ==
  ASSUME IInv, IInv', Traffic, HandleUnknown \/ FrameCompletes
  PROVE  (\A k \in Conns : Plain(k)) /\ serial' = serial
<1>1. /\ pc = "frames" /\ serial' = serial
      /\ UNCHANGED <<backlog, fdOf, mode, nextId, waiting, unsent>>
  BY DEF HandleUnknown, FrameCompletes, AtFrame, TakeFrame, kernel, client, history
<1>2. \A k \in Conns : NoNewPeer(k)
  BY <1>1 DEF NoNewPeer, Connected, Attached
<1>3. PICK j \in Conns : j = fdOf[cur]
  BY <1>1, FrameSort DEF Traffic
<1>4. frame \in ToServer(mode[j])
  BY <1>1, <1>3, FrameSort DEF Traffic
<1>5. CASE HandleUnknown
  <2>1. \A k \in Conns : Quiet(k)
    BY <1>5, ServerStep DEF HandleUnknown, TakeFrame
  <2>2. /\ frame.type = "unknown" /\ Served(j, <<>>)
        /\ \A k \in Conns \ {j} : Kept(k)
    BY <1>3, <1>5, UnknownPaths
  <2>3. frame \notin WithId
    BY <2>2 DEF WithId
  <2>4. Ignores(j)
    BY <1>2, <1>4, <2>1, <2>2, <2>3 DEF Ignores
  <2>5. \A k \in Conns \ {j} : Plain(k)
    BY <1>2, <2>1, <2>2, Bystander
  <2> QED
    BY <1>1, <2>4, <2>5 DEF Plain
<1>6. CASE FrameCompletes
  <2>1. /\ ~frame.whole
        /\ \E f \in {Completed(frame), Unknown, Corrupt}, r \in {<<>>, One(Corrupt)} :
             f \in Frames /\ r \in Seq(Frames) /\ Mistaken(j, f, r)
        /\ \A k \in Conns \ {j} : Kept(k)
    BY <1>3, <1>6, MistakenPaths
  <2>2. PICK f \in {Completed(frame), Unknown, Corrupt}, r \in {<<>>, One(Corrupt)} :
          Mistaken(j, f, r)
    BY <2>1
  <2>3. swallowed' = [swallowed EXCEPT ![j] = TRUE]
    BY <1>3, <1>6 DEF FrameCompletes
  <2>4. swallowed'[j] = TRUE /\ \A k \in Conns \ {j} : swallowed'[k] = swallowed[k]
    BY <2>3 DEF IInv, TypeOK
  <2>5. /\ Completed(frame) \in ToServer(mode[j]) /\ Completed(frame).id = frame.id
        /\ Completed(frame) \in WithId <=> frame \in WithId
        /\ Unknown \in ToServer(mode[j]) \ WithId
        /\ Corrupt \in ToServer(mode[j]) \ WithId
    BY <1>4, <2>1, CutSorts
  <2>6. f \in ToServer(mode[j]) /\ (f \in WithId => frame \in WithId /\ f.id = frame.id)
    BY <2>5
  <2>7. r \in Seq(ToServer(mode[j])) /\ (r = <<>> \/ r = One(Corrupt))
    <3>1. \A e : One(e) \in Seq(ToServer(mode[j])) <=> e \in ToServer(mode[j])
      BY ONLY OneOf
    <3> QED
      BY <2>5, <3>1, EmptySeq
  <2>8. Misreads(j)
    BY <1>1, <1>2, <1>4, <2>2, <2>4, <2>6, <2>7 DEF Misreads
  <2>9. ASSUME NEW k \in Conns \ {j} PROVE Plain(k)
    <3>1. Quiet(k)
      BY <1>1, <2>4 DEF Quiet, SameHistory
    <3> QED
      BY <1>2, <2>1, <3>1, Bystander
  <2> QED
    BY <1>1, <2>8, <2>9 DEF Plain
<1> QED
  BY <1>5, <1>6

(* Descriptors are closed.                                                  *)
LEMMA CutMoves ==
  ASSUME IInv, IInv', NEW S \in SUBSET (pending \cup clients), Close(S),
         UNCHANGED <<backlog, down, client>>,
         \A fd \in Fds \ S : out'[fd] = out[fd] /\ srvBuf'[fd] = srvBuf[fd]
  PROVE  \A k \in Conns : Plain(k)
<1>1. \A k \in Conns :
        IF \E fd \in S : fdOf[fd] = k
        THEN Severed(k, OutOf(k)) /\ OutOf(k) \in Seq(Frames)
        ELSE Kept(k) /\ (Connected(k)' <=> Connected(k))
  BY CutPaths DEF client
<1> SUFFICES ASSUME NEW k \in Conns PROVE Plain(k)
  OBVIOUS
<1>2. Quiet(k)
  BY ServerStep
<1>3. CASE \E fd \in S : fdOf[fd] = k
  BY <1>1, <1>2, <1>3 DEF Plain, IsCut
<1>4. CASE ~\E fd \in S : fdOf[fd] = k
  BY <1>1, <1>2, <1>4, Bystander DEF NoNewPeer
<1> QED
  BY <1>3, <1>4

LEMMA DropMoves ==
  ASSUME IInv, IInv', cur \in clients, DropClient(cur)
  PROVE  (\A k \in Conns : Plain(k)) /\ serial' = serial
<1>1. /\ Close({cur}) /\ UNCHANGED <<backlog, down, client, serial>>
      /\ \A fd \in Fds \ {cur} : out'[fd] = out[fd] /\ srvBuf'[fd] = srvBuf[fd]
  BY DEF DropClient, IInv, TypeOK
<1>2. {cur} \in SUBSET (pending \cup clients)
  OBVIOUS
<1> QED
  BY <1>1, <1>2, CutMoves

LEMMA CloseMoves ==
  ASSUME IInv, IInv',
         \/ \E fd \in Fds : Expire(fd)
         \/ ParkedHungUp \/ HungUp \/ HandleCorrupt \/ FlushFails \/ Stop
  PROVE  (\A k \in Conns : Plain(k)) /\ serial' = serial
<1>1. ASSUME NEW fd \in Fds, Expire(fd)
      PROVE  (\A k \in Conns : Plain(k)) /\ serial' = serial
  <2>1. PICK S \in SUBSET pending : Close(S)
    BY <1>1 DEF Expire
  <2>2. UNCHANGED <<backlog, down, client, out, srvBuf, serial>>
    BY <1>1 DEF Expire
  <2> QED
    BY <2>1, <2>2, CutMoves
<1>2. CASE ParkedHungUp
  <2>1. /\ Close({cur}) /\ {cur} \in SUBSET (pending \cup clients)
        /\ UNCHANGED <<backlog, down, client, out, srvBuf, serial>>
    BY <1>2 DEF ParkedHungUp
  <2> QED
    BY <2>1, CutMoves
<1>3. CASE HungUp \/ HandleCorrupt \/ FlushFails
  <2>1. cur \in clients /\ DropClient(cur)
    BY <1>3 DEF HungUp, HandleCorrupt, FlushFails, AtFrame, IInv, Bookkeeping, LoopShape
  <2> QED
    BY <2>1, DropMoves
<1>4. CASE Stop
  <2>1. client' = client /\ serial' = serial
    BY <1>4 DEF Stop
  <2> QED
    BY <1>4, <2>1, StopPaths, ServerStep DEF Plain, IsCut
<1> QED
  BY <1>1, <1>2, <1>3, <1>4

(* A publication reaches each connection with one event, or with none.      *)
LEMMA PublishedNews ==
  ASSUME IInv, Traffic, NEW e \in NewEvents, Numbered(e)
  PROVE  Counted' /\ \A k \in Conns : News(k, Copy(k, e))
<1>1. (e = NoFrame \/ e \in EventFrames) /\ Counted'
  BY NewEventFrames DEF Traffic
<1>2. ASSUME NEW k \in Conns PROVE News(k, Copy(k, e))
  <2>1. /\ Copy(k, e) \in Seq(ToClient(mode[k])) /\ Copy(k, e) \in Seq(Frames)
        /\ Copy(k, e) # <<>> => Copy(k, e) = One(e)
        /\ e = NoFrame => Copy(k, e) = <<>>
    BY <1>1, CopyContents, CopyTypes, Kinds
  <2> QED
    BY <1>1, <2>1 DEF News
<1> QED
  BY <1>1, <1>2

LEMMA PublishMoves ==
  ASSUME IInv, IInv', Traffic, Publish
  PROVE  (\A k \in Conns : Move(k)) /\ Counted'
<1>1. PICK e \in NewEvents : out' = Published(e) /\ Numbered(e)
  BY DEF Publish
<1>2. /\ UNCHANGED <<backlog, fdOf, up, down, cliBuf, srvBuf>> /\ client' = client
      /\ e = NoFrame \/ e \in Frames
  BY NewEventTypes DEF Publish, kernel, client, IInv
<1>3. \A k \in Conns : Queued(k, Copy(k, e))
  BY <1>1, <1>2, PublishPaths
<1>4. Counted' /\ \A k \in Conns : News(k, Copy(k, e))
  BY <1>1, PublishedNews
<1>5. \A k \in Conns : Quiet(k) /\ NoNewPeer(k)
  BY <1>2, ServerStep
<1> QED
  BY <1>3, <1>4, <1>5 DEF Move, Gets

(* Only a legacy client sends a command line.                               *)
LEMMA LineSender ==
  ASSUME IInv, Traffic, NEW j \in Conns, IsLine(j)
  PROVE  mode[j] \in {"legacy", "closed"}
<1>1. /\ Forth(j) = Cat(InOf(j), up[j])
      /\ InOf(j) \in Seq(Frames) /\ up[j] \in Seq(Frames)
  BY LanesNow DEF AllLanes, Lanes
<1> DEFINE V == ToServer(mode[j])
<1>2. Forth(j) \in Seq(V)
  BY DEF Traffic, Contents, Carries
<1>3. \A s, t \in Seq(Frames) : Cat(s, t) \in Seq(V) => s \in Seq(V) /\ t \in Seq(V)
  BY ONLY CatParts
<1> HIDE DEF V
<1>4. up[j] \in Seq(V) /\ up[j] # <<>>
  BY <1>1, <1>2, <1>3 DEF IsLine
<1>5. Head(up[j]) \in V /\ Head(up[j]).type = "line"
  BY <1>4, HeadTailProperties DEF IsLine
<1>6. mode[j] \in {"idle", "framed", "legacy", "closed"}
  BY DEF IInv, TypeOK
<1>7. mode[j] # "idle"
  BY <1>5 DEF V, ToServer
<1>8. ASSUME mode[j] = "framed" PROVE FALSE
  <2>1. Head(up[j]) \in Asks \cup EventFrames \cup CutEvents
    BY <1>5, <1>8 DEF V, ToServer, FromFramed
  <2>2. Head(up[j]) \notin EventFrames
    BY <1>5, Kinds
  <2> QED
    BY <1>5, <2>1, <2>2 DEF Asks, CutEvents, IsEvent
<1> QED
  BY <1>6, <1>7, <1>8

LEMMA LegacyMoves ==
  ASSUME IInv, IInv', Traffic, ParkedLegacy
  PROVE  (\A k \in Conns : Move(k)) /\ Counted'
<1>1. PICK j \in Conns : j = fdOf[cur]
  BY DEF ParkedLegacy, IInv, TypeOK, Bookkeeping, DescriptorsAccounted, Free
<1>2. /\ IsLine(j) /\ Attached(j) /\ Forth(j)' = <<>> /\ ~Connected(j)'
      /\ \E r \in Seq(Frames) : /\ Back(j)' = Cat(Back(j), r)
                                /\ r = <<>> \/ r = One(Response(0))
      /\ \E e \in NewEvents :
           /\ Numbered(e) /\ Copy(j, e) = <<>>
           /\ \A k \in Conns \ {j} : /\ Queued(k, Copy(k, e))
                                     /\ Connected(k)' <=> Connected(k)
  BY <1>1, LegacyPaths
<1>3. client' = client
  BY DEF ParkedLegacy
<1>4. PICK e \in NewEvents :
        /\ Numbered(e)
        /\ \A k \in Conns \ {j} : /\ Queued(k, Copy(k, e))
                                  /\ Connected(k)' <=> Connected(k)
  BY <1>2
<1>5. Counted' /\ \A k \in Conns : News(k, Copy(k, e))
  BY <1>4, PublishedNews
<1>6. \A k \in Conns : Quiet(k)
  BY <1>3, ServerStep
<1>7. ASSUME NEW k \in Conns \ {j} PROVE Move(k)
  <2>1. Queued(k, Copy(k, e)) /\ (Connected(k)' <=> Connected(k))
    BY <1>4, <1>7
  <2>2. NoNewPeer(k)
    BY <2>1 DEF NoNewPeer
  <2>3. News(k, Copy(k, e)) /\ Quiet(k)
    BY <1>5, <1>6, <1>7
  <2> QED
    BY <2>1, <2>2, <2>3 DEF Move, Gets
<1>8. mode[j] \in {"legacy", "closed"}
  BY <1>2, LineSender
<1>9. Move(j)
  <2>1. PICK r \in Seq(Frames) : /\ Back(j)' = Cat(Back(j), r)
                                 /\ r = <<>> \/ r = One(Response(0))
    BY <1>2
  <2>2. Response(0) \in ToClient(mode[j])
    BY <1>8, Kinds DEF ToClient
  <2>3. \A x : One(x) \in Seq(ToClient(mode[j])) <=> x \in ToClient(mode[j])
    BY ONLY OneOf
  <2>4. r \in Seq(ToClient(mode[j]))
    BY <2>1, <2>2, <2>3, EmptySeq
  <2> QED
    BY <1>2, <1>6, <1>8, <2>1, <2>4 DEF Move, Plain, Finishes, NoNewPeer
<1> QED
  BY <1>5, <1>7, <1>9

(* A frame is served: a call is answered, behind an event it may cause.     *)
LEMMA ServedMoves ==
  ASSUME IInv, IInv', Traffic, pc = "frames", TakeFrame,
         NEW c \in [Conns -> Seq(Frames)], \A k \in Conns : News(k, c[k]),
         \A k \in Conns \ {fdOf[cur]} : Queued(k, c[k]),
         \/ frame \notin WithId /\ Served(fdOf[cur], c[fdOf[cur]])
         \/ /\ frame \in WithId /\ Answer(frame) \in Replies
            /\ Served(fdOf[cur], Cat(c[fdOf[cur]], One(Answer(frame))))
  PROVE  \A k \in Conns : Move(k)
<1>1. PICK j \in Conns : j = fdOf[cur]
  BY FrameSort DEF Traffic
<1>2. frame \in ToServer(mode[j]) /\ Attached(j) /\ cur \in Fds
  BY <1>1, FrameSort DEF Traffic, Attached
<1>3. \A k \in Conns : NoNewPeer(k) /\ Quiet(k)
  BY ServerStep DEF TakeFrame, kernel
<1>4. \A k \in Conns \ {j} : Move(k)
  BY <1>1, <1>3 DEF Move, Gets
<1>5. mode[j] # "idle"
  BY <1>1, <1>2 DEF IInv, Bookkeeping, PeersOpened, Free
<1>6. Answer(frame) \in Replies => Answer(frame) \in ToClient(mode[j])
  BY <1>5 DEF ToClient
<1>7. Answered(j)
  BY <1>1, <1>2, <1>3, <1>6 DEF Answered
<1> QED
  BY <1>4, <1>7 DEF Move

LEMMA HandleMoves ==
  ASSUME IInv, IInv', Traffic,
         HandleRequest \/ HandleSubscribe \/ HandleUnsubscribe \/ HandleEvent
  PROVE  (\A k \in Conns : Move(k)) /\ Counted'
<1>1. pc = "frames" /\ TakeFrame
  BY DEF HandleRequest, HandleSubscribe, HandleUnsubscribe, HandleEvent, AtFrame
<1>2. frame \in Frames /\ frame.id \in Nat
  BY <1>1, TakenFrame DEF IInv, Bookkeeping
<1>3. serial' = serial => Counted'
  BY DEF Traffic, Counted
<1>4. CASE HandleRequest
  <2>1. PICK e \in NewEvents :
          /\ Numbered(e)
          /\ \A k \in Conns :
               IF k = fdOf[cur]
               THEN Served(k, Cat(Copy(k, e), One(Response(frame.id))))
               ELSE Queued(k, Copy(k, e))
    BY <1>4, RequestPaths
  <2>2. frame.type = "request" /\ fdOf[cur] \in Conns
    BY <1>4, RequestPaths
  <2>3. Counted' /\ \A k \in Conns : News(k, Copy(k, e))
    BY <2>1, PublishedNews
  <2> DEFINE c == [k \in Conns |-> Copy(k, e)]
  <2>4. c \in [Conns -> Seq(Frames)] /\ \A k \in Conns : c[k] = Copy(k, e)
    BY <2>3 DEF News
  <2>5. frame \in WithId /\ Answer(frame) = Response(frame.id) /\ Answer(frame) \in Replies
    BY <1>2, <2>2, Kinds DEF WithId, Answer
  <2> HIDE DEF c
  <2>6. \A k \in Conns : News(k, c[k])
    BY <2>3, <2>4
  <2>7. \A k \in Conns \ {fdOf[cur]} : Queued(k, c[k])
    BY <2>1, <2>4
  <2>8. Served(fdOf[cur], Cat(c[fdOf[cur]], One(Answer(frame))))
    BY <2>1, <2>2, <2>4, <2>5
  <2> QED
    BY <1>1, <2>3, <2>4, <2>5, <2>6, <2>7, <2>8, ServedMoves
<1>5. CASE HandleEvent
  <2>1. /\ frame.type = "event" /\ frame.whole /\ fdOf[cur] \in Conns
        /\ \A k \in Conns : IF k = fdOf[cur] THEN Served(k, Copy(k, frame))
                             ELSE Queued(k, Copy(k, frame))
    BY <1>5, EventPaths
  <2>2. frame \in EventFrames
    <3>1. frame \in ToServer(mode[fdOf[cur]])
      BY <1>1, FrameSort DEF Traffic
    <3> QED
      BY <2>1, <3>1 DEF ToServer, FromFramed, Asks, Lines, CutEvents
  <2> DEFINE c == [k \in Conns |-> Copy(k, frame)]
  <2>3. ASSUME NEW k \in Conns PROVE News(k, Copy(k, frame))
    BY <2>2, CopyContents DEF News
  <2>4. c \in [Conns -> Seq(Frames)] /\ \A k \in Conns : c[k] = Copy(k, frame)
    BY <2>3 DEF News
  <2>5. frame \notin WithId
    BY <2>1 DEF WithId
  <2>6. serial' = serial
    BY <1>5 DEF HandleEvent
  <2> HIDE DEF c
  <2>7. \A k \in Conns : News(k, c[k])
    BY <2>3, <2>4
  <2>8. /\ \A k \in Conns \ {fdOf[cur]} : Queued(k, c[k])
        /\ Served(fdOf[cur], c[fdOf[cur]])
    BY <2>1, <2>4
  <2> QED
    BY <1>1, <1>3, <2>4, <2>5, <2>6, <2>7, <2>8, ServedMoves
<1>6. CASE HandleSubscribe \/ HandleUnsubscribe
  <2>1. Acknowledge /\ frame.type \in {"subscribe", "unsubscribe"}
    BY <1>6 DEF HandleSubscribe, HandleUnsubscribe, AtFrame
  <2>2. /\ fdOf[cur] \in Conns
        /\ \A k \in Conns : IF k = fdOf[cur] THEN Served(k, One(Ack(frame.id)))
                             ELSE Kept(k)
    BY <1>1, <2>1, AckPaths
  <2> DEFINE c == [k \in Conns |-> <<>>]
  <2>3. /\ <<>> \in Seq(Frames)
        /\ \A t \in Seq(Frames) : Cat(t, <<>>) = t /\ Cat(<<>>, t) = t
    BY ONLY CatEmpty
  <2>4. c \in [Conns -> Seq(Frames)] /\ \A k \in Conns : c[k] = <<>>
    BY <2>3
  <2>5. frame \in WithId /\ Answer(frame) = Ack(frame.id) /\ Answer(frame) \in Replies
    BY <1>2, <2>1, Kinds DEF WithId, Answer
  <2>6. serial' = serial
    BY <2>1 DEF Acknowledge
  <2> HIDE DEF c
  <2>7. \A k \in Conns : News(k, c[k])
    BY <2>3, <2>4, EmptySeq DEF News
  <2>8. Cat(<<>>, One(Answer(frame))) = One(Answer(frame))
    <3>1. \A e : One(e) \in Seq(Frames) <=> e \in Frames
      BY ONLY OneOf
    <3> QED
      BY <2>3, <2>5, <3>1, Kinds
  <2>9. Served(fdOf[cur], Cat(c[fdOf[cur]], One(Answer(frame))))
    BY <2>2, <2>4, <2>5, <2>8
  <2>10. ASSUME NEW k \in Conns \ {fdOf[cur]} PROVE Queued(k, c[k])
    <3>1. Kept(k) /\ Back(k) \in Seq(Frames) /\ c[k] = <<>>
      BY <2>2, <2>4, <2>10, LanesNow DEF AllLanes, Lanes
    <3> QED
      BY <2>3, <3>1 DEF Kept, Queued
  <2> QED
    BY <1>1, <1>3, <2>4, <2>5, <2>6, <2>7, <2>9, <2>10, ServedMoves
<1> QED
  BY <1>4, <1>5, <1>6

(* Every step is a move of every connection.                                *)
LEMMA Moves ==
  ASSUME IInv, IInv', Traffic, [Next]_vars
  PROVE  (\A k \in Conns : Move(k)) /\ Counted'
<1>1. serial' = serial => Counted'
  BY DEF Traffic, Counted
<1>2. (\A k \in Conns : Plain(k)) => \A k \in Conns : Move(k)
  BY DEF Move
<1>3. CASE UNCHANGED vars
  <2>1. UNCHANGED <<backlog, fdOf, up, down, cliBuf, srvBuf, out, client, serial>>
    BY <1>3 DEF vars, kernel, client, bus
  <2> QED
    BY <1>1, <1>2, <2>1, StillPaths, ServerStep, Bystander
<1>4. CASE Poll \/ AcceptEnds \/ Ignore \/ NothingToRead \/ ParkedFramed
           \/ FrameWaits \/ Accept \/ Receive \/ Flush
  BY <1>1, <1>2, <1>4, StillMoves
<1>5. CASE \/ \E fd \in Fds : Expire(fd)
           \/ ParkedHungUp \/ HungUp \/ HandleCorrupt \/ FlushFails \/ Stop
  BY <1>1, <1>2, <1>5, CloseMoves
<1>6. CASE ParkedLegacy
  BY <1>6, LegacyMoves
<1>7. CASE HandleRequest \/ HandleSubscribe \/ HandleUnsubscribe \/ HandleEvent
  BY <1>7, HandleMoves
<1>8. CASE Publish
  BY <1>8, PublishMoves
<1>9. CASE HandleUnknown \/ FrameCompletes
  BY <1>1, <1>2, <1>9, StrayMoves
<1>10. ASSUME NEW j \in Conns, Client(j) PROVE (\A k \in Conns : Move(k)) /\ Counted'
  <2>1. ((\A k \in Conns : Plain(k)) \/ Delivers(j)) /\ Counted'
    BY <1>10, ClientMoves
  <2>2. Delivers(j) => \A k \in Conns : Move(k)
    BY DEF Delivers, Move, Plain
  <2> QED
    BY <1>2, <2>1, <2>2
<1> QED
  BY <1>3, <1>4, <1>5, <1>6, <1>7, <1>8, <1>9, <1>10 DEF Next, Loop, Parked, Handle

-----------------------------------------------------------------------------
(* Traffic is an invariant.                                                 *)

LEMMA MoveContents ==
  ASSUME IInv, IInv', NEW k \in Conns, Carries(k), Move(k)
  PROVE  Carries(k)'
<1>1. CASE Rests(k)
  BY <1>1, PathContents DEF Rests
<1>2. CASE Tells(k)
  BY <1>2, PathContents DEF Tells
<1>3. CASE Places(k)
  <2>1. PICK f \in WithId \cap Asks : Asked(k, f)
    BY <1>3 DEF Places
  <2>2. mode[k] = "framed" /\ mode'[k] = mode[k]
    BY <1>3 DEF Places
  <2>3. f \in ToServer(mode[k])
    BY <2>2 DEF ToServer, FromFramed
  <2> QED
    BY <2>1, <2>2, <2>3, PathContents
<1>4. CASE Skips(k)
  BY <1>4, PathContents DEF Skips
<1>5. CASE Misreads(k)
  <2>1. frame \in Frames /\ mode'[k] = mode[k]
    BY <1>5, Kinds DEF Misreads
  <2>2. PICK f \in ToServer(mode[k]), r \in Seq(ToServer(mode[k])) : Mistaken(k, f, r)
    BY <1>5 DEF Misreads
  <2> QED
    BY <2>1, <2>2, PathContents
<1>6. CASE Ignores(k)
  <2>1. <<>> \in Seq(ToClient(mode[k]))
    BY EmptySeq
  <2> QED
    BY <1>6, <2>1, PathContents DEF Ignores, Quiet
<1>7. CASE Hears(k)
  BY <1>7, PathContents DEF Hears
<1>8. CASE Gets(k)
  BY <1>8, PathContents DEF Gets, News, Quiet
<1>9. CASE Answered(k)
  <2>1. PICK c : /\ News(k, c)
                 /\ \/ frame \notin WithId /\ Served(k, c)
                    \/ /\ frame \in WithId /\ Answer(frame) \in ToClient(mode[k])
                       /\ Served(k, Cat(c, One(Answer(frame))))
    BY <1>9 DEF Answered
  <2>2. c \in Seq(ToClient(mode[k])) /\ mode'[k] = mode[k]
    BY <1>9, <2>1 DEF Answered, News, Quiet
  <2>3. \A e : One(e) \in Seq(ToClient(mode[k])) <=> e \in ToClient(mode[k])
    BY ONLY OneOf
  <2>4. \A s, t \in Seq(ToClient(mode[k])) : Cat(s, t) \in Seq(ToClient(mode[k]))
    BY ONLY CatType
  <2>5. PICK r \in Seq(ToClient(mode[k])) : Served(k, r)
    BY <2>1, <2>2, <2>3, <2>4
  <2> QED
    BY <2>2, <2>5, PathContents
<1>10. CASE IsCut(k)
  BY <1>10, PathContents DEF IsCut, Quiet
<1>11. CASE Finishes(k)
  <2>1. PICK r \in Seq(ToClient(mode[k])) : Back(k)' = Cat(Back(k), r)
    BY <1>11 DEF Finishes
  <2>2. \A s, t \in Seq(ToClient(mode[k])) : Cat(s, t) \in Seq(ToClient(mode[k]))
    BY ONLY CatType
  <2>3. Forth(k)' = <<>> /\ mode'[k] = mode[k]
    BY <1>11 DEF Finishes, Quiet
  <2>4. Back(k)' \in Seq(ToClient(mode[k]))
    BY <2>1, <2>2 DEF Carries
  <2> QED
    BY <2>3, <2>4, EmptySeq DEF Carries, ToClient, ToServer
<1>12. CASE Opens(k)
  <2>1. Back(k) \in Seq({}) /\ Forth(k) \in Seq({})
    BY <1>12 DEF Opens, Carries, ToClient, ToServer
  <2>2. \A S : Seq({}) \subseteq Seq(S)
    BY SeqMonotonic
  <2>3. Back(k)' \in Seq(ToClient(mode'[k])) /\ Forth(k)' \in Seq(ToServer(mode'[k]))
    BY <1>12, <2>1, <2>2 DEF Opens, Kept
  <2> QED
    BY <2>3 DEF Carries, ToClient, ToServer
<1>13. CASE Leaves(k)
  <2>1. PICK r \in Seq(Frames) : Taken(k, r)
    BY <1>13 DEF Leaves
  <2>2. Back(k)' \in Seq(Frames)
    BY LanesLater DEF AllLanes, Lanes
  <2> DEFINE C == ToClient("closed")
             V == ToServer("closed")
  <2>3. ToClient(mode[k]) \subseteq C /\ ToServer(mode[k]) \subseteq V
    BY Kinds
  <2>4. Back(k) \in Seq(C) /\ Forth(k) \in Seq(V)
    BY <2>3, SeqMonotonic DEF Carries
  <2> HIDE DEF C, V
  <2>5. \A s, t \in Seq(Frames) : Cat(s, t) \in Seq(C) => s \in Seq(C) /\ t \in Seq(C)
    BY ONLY CatParts
  <2>6. Back(k)' \in Seq(C) /\ Forth(k)' \in Seq(V)
    BY <2>1, <2>2, <2>4, <2>5 DEF Taken
  <2>7. mode'[k] = "closed"
    BY <1>13 DEF Leaves
  <2> QED
    BY <2>6, <2>7 DEF Carries, ToClient, ToServer, C, V
<1> QED
  BY <1>1, <1>2, <1>3, <1>7, <1>8, <1>9, <1>10, <1>11, <1>12, <1>13, <1>4, <1>5, <1>6
  DEF Move, Plain

LEMMA ModeStep ==
  ASSUME NEW k \in Conns, Move(k), mode[k] \in {"framed", "closed"}
  PROVE  mode'[k] \in {"framed", "closed"}
BY DEF Move, Plain, Rests, Tells, Places, Skips, Misreads, Ignores, Hears, Gets,
       Answered, IsCut, Finishes, Opens, Leaves, Quiet

(* A subscription is new only when the server handles it, and a descriptor  *)
(* keeps its peer until it is closed.                                       *)
LEMMA SubscriptionStep ==
  ASSUME IInv, [Next]_vars, NEW t \in Topics, NEW fd \in subscriptions'[t]
  PROVE  /\ fd \in subscriptions[t] \/ (HandleSubscribe /\ fd = cur)
         /\ fdOf'[fd] \in {fdOf[fd], NoConn} \/ fd \in Free
<1> USE DEF kernel, client, bus, loop
<1>0. subscriptions \in [Topics -> SUBSET Fds] /\ fdOf \in [Fds -> Conns \cup {NoConn}]
  BY DEF IInv, TypeOK
<1>1. CASE UNCHANGED <<fdOf, subscriptions>>
  BY <1>1
<1>2. CASE Accept
  BY <1>0, <1>2 DEF Accept
<1>3. ASSUME NEW g \in Fds, Expire(g)
      PROVE  fd \in subscriptions[t] /\ fdOf'[fd] \in {fdOf[fd], NoConn}
  BY <1>0, <1>3 DEF Expire, Close
<1>4. CASE ParkedHungUp \/ ParkedLegacy
  BY <1>0, <1>4 DEF ParkedHungUp, ParkedLegacy, Close
<1>5. CASE HungUp \/ HandleCorrupt \/ FlushFails
  BY <1>0, <1>5 DEF HungUp, HandleCorrupt, FlushFails, DropClient, Unsubscribed, Close
<1>6. CASE HandleSubscribe
  BY <1>0, <1>6 DEF HandleSubscribe, TakeFrame
<1>7. CASE HandleUnsubscribe
  BY <1>0, <1>7 DEF HandleUnsubscribe, TakeFrame
<1>8. CASE Stop
  BY <1>0, <1>8 DEF Stop
<1>9. ASSUME NEW k \in Conns, Client(k) PROVE UNCHANGED <<fdOf, subscriptions>>
  BY <1>9 DEF Client, Connect, Calls, Request, LegacyCommand, Subscribe,
         SubscribeAsync, Unsubscribe, ClientPublish, Call, Send, SendPart, SendNothing,
         Reads, PumpFrame, PumpRead, OnFdReady, Timeout, Disconnect
<1>10. CASE \/ Poll \/ AcceptEnds \/ ParkedFramed \/ Ignore \/ Receive \/ NothingToRead
            \/ HandleRequest \/ HandleEvent \/ HandleUnknown \/ FrameWaits
            \/ FrameCompletes \/ Flush \/ Publish \/ UNCHANGED vars
  <2>1. UNCHANGED <<fdOf, subscriptions>>
    BY <1>10 DEF Poll, AcceptEnds, ParkedFramed, Ignore, Receive, NothingToRead,
         HandleRequest, HandleEvent, HandleUnknown, FrameWaits, FrameCompletes,
         TakeFrame, Flush, Publish, vars
  <2> QED
    BY <1>1, <2>1
<1> QED
  BY <1>1, <1>2, <1>3, <1>4, <1>5, <1>6, <1>7, <1>8, <1>9, <1>10
  DEF Next, Loop, Parked, Handle

LEMMA InitTraffic == Init => Traffic
<1> SUFFICES ASSUME Init PROVE Traffic
  OBVIOUS
<1>1. ASSUME NEW k \in Conns PROVE Carries(k)
  <2>1. mode[k] = "idle" /\ cliBuf[k] = <<>> /\ down[k] = <<>> /\ up[k] = <<>>
    BY DEF Init
  <2>2. ~Attached(k)
    BY DEF Init, Attached
  <2>3. Lanes(k) /\ OutOf(k) = <<>> /\ InOf(k) = <<>>
    BY <2>2, InitInv, LanesNow DEF AllLanes, OutOf, InOf
  <2>4. /\ <<>> \in Seq(Frames)
        /\ \A s \in Seq(Frames) : Cat(s, <<>>) = s /\ Cat(<<>>, s) = s
    BY ONLY CatEmpty
  <2>5. Back(k) = <<>> /\ Forth(k) = <<>>
    BY <2>1, <2>3, <2>4 DEF Lanes
  <2> QED
    BY <2>5, EmptySeq DEF Carries
<1>2. SubscribersFramed /\ Counted
  BY DEF Init, SubscribersFramed, Counted
<1> QED
  BY <1>1, <1>2 DEF Traffic, Contents

LEMMA TrafficStep ==
  ASSUME IInv, IInv', Traffic, [Next]_vars
  PROVE  Traffic'
<1>1. \A k \in Conns : Carries(k)'
  BY Moves, MoveContents DEF Traffic, Contents
<1>2. ASSUME NEW t \in Topics, NEW fd \in subscriptions'[t]
      PROVE  mode'[fdOf'[fd]] \in {"framed", "closed"}
  <2>1. fd \in clients' /\ fd \in Fds /\ fdOf'[fd] # NoConn /\ fdOf'[fd] \in Conns
    BY DEF IInv, NothingInherited, Bookkeeping, DescriptorsAccounted, Free, TypeOK
  <2>2. /\ fd \in subscriptions[t] \/ (HandleSubscribe /\ fd = cur)
        /\ fdOf'[fd] \in {fdOf[fd], NoConn} \/ fd \in Free
    BY SubscriptionStep
  <2>3. fd \in clients /\ mode[fdOf[fd]] \in {"framed", "closed"}
    <3>1. CASE fd \in subscriptions[t]
      BY <3>1 DEF IInv, NothingInherited, Traffic, SubscribersFramed
    <3>2. CASE HandleSubscribe /\ fd = cur
      <4>1. pc = "frames" /\ frame.type = "subscribe"
        BY <3>2 DEF HandleSubscribe, AtFrame
      <4>2. cur \in clients /\ fdOf[cur] \in Conns /\ frame \in ToServer(mode[fdOf[cur]])
        BY <4>1, FrameSort DEF Traffic
      <4>3. mode[fdOf[cur]] \in {"idle", "framed", "legacy", "closed"}
        BY <4>2 DEF IInv, TypeOK
      <4>4. mode[fdOf[cur]] \notin {"idle", "legacy"}
        BY <4>1, <4>2 DEF ToServer, Lines
      <4> QED
        BY <3>2, <4>2, <4>3, <4>4
    <3> QED
      BY <2>2, <3>1, <3>2
  <2>4. fdOf'[fd] = fdOf[fd]
    BY <2>1, <2>2, <2>3 DEF IInv, Bookkeeping, DescriptorsAccounted
  <2> QED
    BY <2>1, <2>3, <2>4, Moves, ModeStep
<1>3. Counted'
  BY Moves
<1> QED
  BY <1>1, <1>2, <1>3 DEF Traffic, Contents, SubscribersFramed

-----------------------------------------------------------------------------
(* The frames with an id, in one line from the client's buffer to the       *)
(* server's: answers first, then calls, numbered in the order of the calls. *)
Increasing(q) == \A i, j \in 1 .. Len(q) : i < j => q[i].id < q[j].id
Ids(q)        == {q[i].id : i \in 1 .. Len(q)}
Before(q, r)  == \A a \in Ids(q), b \in Ids(r) : a < b
Below(q, n)   == \A a \in Ids(q) : a < n
NoGap(q, n, S) == \A a \in Ids(q) : \A id \in a .. n - 1 : id \in S \/ id \in Ids(q)
Newest(q)     == q[Len(q)]

(* The frames on their way have the numbers of calls that were made, and,   *)
(* from the first of them on, of all but those of which nothing was sent,   *)
(* unless a frame cut short has swallowed others.                           *)
Unbroken(k) == Connected(k) /\ ~swallowed[k]
Numbering(k) ==
  /\ mode[k] = "idle" => nextId[k] = 1
  /\ mode[k] = "framed" => /\ Increasing(InFlight(k)) /\ Below(InFlight(k), nextId[k])
                           /\ Unbroken(k) => NoGap(InFlight(k), nextId[k], unsent[k])

(* Only the last frame with an id can be of a call that waits.              *)
Waits(k) ==
  waiting[k] # NoFrame =>
    /\ mode[k] = "framed" /\ waiting[k] \in Replies
    /\ Unbroken(k) => InFlight(k) # <<>> /\ Answer(Newest(InFlight(k))) = waiting[k]

CallsNumbered == \A k \in Conns : Numbering(k) /\ Waits(k)

LEMMA FrameIds == \A f \in Frames : f.id \in Nat
BY DEF Frames

(* The numbers of two lines in a row, and of a line of one.                 *)
LEMMA PartsNumbered ==
  ASSUME NEW s \in Seq(Frames), NEW t \in Seq(Frames)
  PROVE  /\ Ids(Cat(s, t)) = Ids(s) \cup Ids(t) /\ Ids(s) \subseteq Nat
         /\ Increasing(Cat(s, t)) <=> Increasing(s) /\ Increasing(t) /\ Before(s, t)
         /\ t # <<>> => Cat(s, t) # <<>> /\ Newest(Cat(s, t)) = Newest(t)
<1> DEFINE q == Cat(s, t)
           m == Len(s)
           l == Len(t)
<1>1. /\ m \in Nat /\ l \in Nat /\ Len(q) = m + l
      /\ \A i \in 1 .. m : q[i] = s[i]
      /\ \A i \in 1 .. l : q[m + i] = t[i]
  <2>1. \A x, y \in Seq(Frames) :
           /\ Len(x) \in Nat /\ Len(y) \in Nat
           /\ Len(Cat(x, y)) = Len(x) + Len(y)
           /\ \A i \in 1 .. Len(x) : Cat(x, y)[i] = x[i]
           /\ \A i \in 1 .. Len(y) : Cat(x, y)[Len(x) + i] = y[i]
    BY ONLY CatElements
  <2> QED
    BY <2>1
<1>2. l # 0 <=> t # <<>>
  BY EmptySeq
<1>3. q # <<>> <=> Len(q) # 0
  <2>1. \A x, y \in Seq(Frames) : Cat(x, y) \in Seq(Frames)
    BY ONLY CatType
  <2>2. q \in Seq(Frames)
    BY <2>1
  <2> QED
    BY <2>2, EmptySeq
<1> HIDE DEF q, m, l
<1>4. ASSUME NEW i \in 1 .. m + l
      PROVE  i \in 1 .. m \/ \E j \in 1 .. l : i = m + j
  <2>1. CASE i <= m
    BY <1>1, <2>1
  <2>2. CASE ~(i <= m)
    <3>1. i - m \in 1 .. l /\ i = m + (i - m)
      BY <1>1, <2>2
    <3> QED
      BY <3>1
  <2> QED
    BY <2>1, <2>2
<1>5. /\ Ids(q) = {q[i].id : i \in 1 .. m + l}
      /\ Ids(s) = {s[i].id : i \in 1 .. m} /\ Ids(t) = {t[i].id : i \in 1 .. l}
  BY <1>1 DEF Ids, m, l
<1>6. (\A i \in 1 .. m : i \in 1 .. m + l) /\ (\A j \in 1 .. l : m + j \in 1 .. m + l)
  BY <1>1
<1>7. Ids(q) = Ids(s) \cup Ids(t)
  <2>1. ASSUME NEW a \in Ids(q) PROVE a \in Ids(s) \cup Ids(t)
    <3>1. PICK i \in 1 .. m + l : a = q[i].id
      BY <1>5
    <3> QED
      BY <1>1, <1>4, <1>5, <3>1
  <2>2. ASSUME NEW a \in Ids(s) PROVE a \in Ids(q)
    BY <1>1, <1>5, <1>6
  <2>3. ASSUME NEW a \in Ids(t) PROVE a \in Ids(q)
    <3>1. PICK j \in 1 .. l : a = t[j].id
      BY <1>5
    <3>2. m + j \in 1 .. m + l /\ a = q[m + j].id
      BY <1>1, <1>6, <3>1
    <3> QED
      BY <1>5, <3>2
  <2> QED
    BY <2>1, <2>2, <2>3
<1>8. Ids(s) \subseteq Nat
  <2>1. \A i \in 1 .. m : s[i] \in Frames
    BY ElementOfSeq DEF m
  <2> QED
    BY <1>5, <2>1, FrameIds
<1>9. ASSUME Increasing(q) PROVE Increasing(s) /\ Increasing(t) /\ Before(s, t)
  <2>0. \A i, j \in 1 .. m + l : i < j => q[i].id < q[j].id
    BY <1>1, <1>9 DEF Increasing
  <2>1. ASSUME NEW i \in 1 .. m, NEW j \in 1 .. m, i < j PROVE s[i].id < s[j].id
    BY <1>1, <1>6, <2>0, <2>1
  <2>2. ASSUME NEW i \in 1 .. l, NEW j \in 1 .. l, i < j PROVE t[i].id < t[j].id
    <3>1. m + i \in 1 .. m + l /\ m + j \in 1 .. m + l /\ m + i < m + j
      BY <1>1, <2>2
    <3> QED
      BY <1>1, <2>0, <3>1
  <2>3. ASSUME NEW i \in 1 .. m, NEW j \in 1 .. l PROVE s[i].id < t[j].id
    <3>1. i \in 1 .. m + l /\ m + j \in 1 .. m + l /\ i < m + j
      BY <1>1
    <3> QED
      BY <1>1, <2>0, <3>1
  <2>4. Before(s, t)
    BY <1>5, <2>3 DEF Before
  <2> QED
    BY <2>1, <2>2, <2>4 DEF Increasing, m, l
<1>10. ASSUME Increasing(s), Increasing(t), Before(s, t) PROVE Increasing(q)
  <2>1. /\ \A i, j \in 1 .. m : i < j => s[i].id < s[j].id
        /\ \A i, j \in 1 .. l : i < j => t[i].id < t[j].id
    BY <1>10 DEF Increasing, m, l
  <2>2. \A i \in 1 .. m, j \in 1 .. l : s[i].id < t[j].id
    BY <1>5, <1>10 DEF Before
  <2>3. ASSUME NEW i \in 1 .. m + l, NEW j \in 1 .. m + l, i < j
        PROVE  q[i].id < q[j].id
    <3>1. CASE j \in 1 .. m
      <4>1. i \in 1 .. m
        BY <1>1, <2>3, <3>1
      <4> QED
        BY <1>1, <2>1, <2>3, <3>1, <4>1
    <3>2. ASSUME NEW b \in 1 .. l, j = m + b PROVE q[i].id < q[j].id
      <4>1. CASE i \in 1 .. m
        BY <1>1, <2>2, <3>2, <4>1
      <4>2. ASSUME NEW a \in 1 .. l, i = m + a PROVE q[i].id < q[j].id
        <5>1. a < b
          BY <1>1, <2>3, <3>2, <4>2
        <5> QED
          BY <1>1, <2>1, <3>2, <4>2, <5>1
      <4> QED
        BY <1>4, <4>1, <4>2
    <3> QED
      BY <1>4, <3>1, <3>2
  <2> QED
    BY <1>1, <2>3 DEF Increasing
<1>11. ASSUME t # <<>> PROVE q # <<>> /\ Newest(q) = Newest(t)
  <2>1. l \in 1 .. l /\ m + l # 0
    BY <1>1, <1>2, <1>11
  <2> QED
    BY <1>1, <1>3, <2>1 DEF Newest, l
<1> QED
  BY <1>7, <1>8, <1>9, <1>10, <1>11 DEF q, m, l

LEMMA OneNumbered ==
  ASSUME NEW f \in Frames
  PROVE  /\ One(f) \in Seq(Frames) /\ One(f) # <<>> /\ Newest(One(f)) = f
         /\ Increasing(One(f)) /\ Ids(One(f)) = {f.id} /\ f.id \in Nat
<1>1. \A e : One(e) \in Seq(Frames) <=> e \in Frames
  BY ONLY OneOf
<1>2. Len(One(f)) = 1 /\ One(f)[1] = f
  BY DEF One
<1>3. \A i \in 1 .. 1 : i = 1
  OBVIOUS
<1>4. Increasing(One(f)) /\ Newest(One(f)) = f
  BY <1>2, <1>3 DEF Increasing, Newest
<1>5. Ids(One(f)) = {f.id}
  BY <1>2, <1>3 DEF Ids
<1>6. One(f) # <<>>
  BY <1>2
<1> QED
  BY <1>1, <1>4, <1>5, <1>6, FrameIds

(* What a client has taken off the line leaves no gap behind.               *)
LEMMA RestNumbered ==
  ASSUME NEW s \in Seq(Frames), NEW t \in Seq(Frames), NEW n \in Nat, NEW S,
         Increasing(Cat(s, t)), NoGap(Cat(s, t), n, S)
  PROVE  NoGap(t, n, S)
<1>1. /\ Ids(Cat(s, t)) = Ids(s) \cup Ids(t) /\ Before(s, t)
      /\ Ids(s) \subseteq Nat
  BY PartsNumbered
<1>2. Ids(t) \subseteq Nat
  BY PartsNumbered
<1> SUFFICES ASSUME NEW a \in Ids(t), NEW id \in a .. n - 1, id \notin S
             PROVE  id \in Ids(t)
  BY DEF NoGap
<1>3. id \in Ids(s) \cup Ids(t)
  BY <1>1 DEF NoGap
<1>4. a <= id /\ a \in Nat
  BY <1>2
<1> QED
  BY <1>1, <1>3, <1>4 DEF Before

(* A new call has the next number; so has one that could not be sent.       *)
LEMMA NextNumbered ==
  ASSUME NEW q \in Seq(Frames), NEW n \in Nat, NEW S, Increasing(q), Below(q, n)
  PROVE  /\ \A f \in Frames : f.id = n =>
              /\ Increasing(Cat(q, One(f))) /\ Below(Cat(q, One(f)), n + 1)
              /\ NoGap(q, n, S) => NoGap(Cat(q, One(f)), n + 1, S)
              /\ Cat(q, One(f)) # <<>> /\ Newest(Cat(q, One(f))) = f
         /\ Below(q, n + 1)
         /\ NoGap(q, n, S) => NoGap(q, n + 1, S \cup {n})
<1>1. \A a \in Ids(q) : a \in Nat /\ a < n
  BY PartsNumbered DEF Below
<1>2. Below(q, n + 1)
  BY <1>1 DEF Below
<1>3. ASSUME NoGap(q, n, S) PROVE NoGap(q, n + 1, S \cup {n})
  <2> SUFFICES ASSUME NEW a \in Ids(q), NEW id \in a .. n + 1 - 1, id \notin S \cup {n}
               PROVE  id \in Ids(q)
    BY DEF NoGap
  <2>1. id \in a .. n - 1
    BY <1>1
  <2> QED
    BY <1>3, <2>1 DEF NoGap
<1>4. ASSUME NEW f \in Frames, f.id = n
      PROVE  /\ Increasing(Cat(q, One(f))) /\ Below(Cat(q, One(f)), n + 1)
             /\ NoGap(q, n, S) => NoGap(Cat(q, One(f)), n + 1, S)
             /\ Cat(q, One(f)) # <<>> /\ Newest(Cat(q, One(f))) = f
  <2>1. /\ One(f) \in Seq(Frames) /\ One(f) # <<>> /\ Newest(One(f)) = f
        /\ Increasing(One(f)) /\ Ids(One(f)) = {n}
    BY <1>4, OneNumbered
  <2> DEFINE t == Cat(q, One(f))
  <2>2. /\ Ids(t) = Ids(q) \cup {n} /\ t # <<>> /\ Newest(t) = f
        /\ Increasing(t) <=> Increasing(q) /\ Increasing(One(f)) /\ Before(q, One(f))
    BY <2>1, PartsNumbered
  <2> HIDE DEF t
  <2>3. Before(q, One(f))
    BY <1>1, <2>1 DEF Before
  <2>4. Below(t, n + 1)
    BY <1>1, <2>2 DEF Below
  <2>5. ASSUME NoGap(q, n, S) PROVE NoGap(t, n + 1, S)
    <3> SUFFICES ASSUME NEW a \in Ids(t), NEW id \in a .. n + 1 - 1, id \notin S,
                        id # n
                 PROVE  id \in Ids(q)
      BY <2>2 DEF NoGap
    <3>1. a \in Ids(q) /\ id \in a .. n - 1
      BY <1>1, <2>2
    <3> QED
      BY <2>5, <3>1 DEF NoGap
  <2> QED
    BY <2>1, <2>2, <2>3, <2>4, <2>5 DEF t
<1> QED
  BY <1>2, <1>3, <1>4

(* A call that is answered where it stands: the numbers stay as they are.   *)
LEMMA AnswerNumbered ==
  ASSUME NEW b \in Seq(Frames), NEW w \in Seq(Frames),
         NEW f \in Frames, NEW g \in Frames, f.id = g.id,
         NEW q, q = Cat(b, Cat(One(f), w)), NEW r, r = Cat(Cat(b, One(g)), w)
  PROVE  /\ Increasing(q) => Increasing(r)
         /\ Ids(r) = Ids(q)
         /\ r # <<>>
         /\ Newest(r) = Newest(q) \/ (Newest(q) = f /\ Newest(r) = g)
<1> DEFINE u(h) == Cat(b, Cat(One(h), w))
<1>1. \A s, t \in Seq(Frames) : Cat(s, t) \in Seq(Frames)
  BY ONLY CatType
<1>2. ASSUME NEW h \in Frames
      PROVE  /\ Ids(u(h)) = Ids(b) \cup ({h.id} \cup Ids(w)) /\ u(h) # <<>>
             /\ Increasing(u(h)) <=>
                  /\ Increasing(b) /\ Increasing(w)
                  /\ \A x \in Ids(b), y \in {h.id} \cup Ids(w) : x < y
                  /\ \A y \in Ids(w) : h.id < y
             /\ Newest(u(h)) = IF w = <<>> THEN h ELSE Newest(w)
  <2>1. /\ One(h) \in Seq(Frames) /\ One(h) # <<>> /\ Newest(One(h)) = h
        /\ Increasing(One(h)) /\ Ids(One(h)) = {h.id}
    BY OneNumbered
  <2> DEFINE v == Cat(One(h), w)
  <2>2. /\ v \in Seq(Frames) /\ Ids(v) = {h.id} \cup Ids(w)
        /\ Increasing(v) <=> Increasing(w) /\ Before(One(h), w)
        /\ w # <<>> => v # <<>> /\ Newest(v) = Newest(w)
    BY <1>1, <2>1, PartsNumbered
  <2>3. w = <<>> => v # <<>> /\ Newest(v) = h
    <3>1. \A s \in Seq(Frames) : Cat(s, <<>>) = s /\ Cat(<<>>, s) = s
      BY CatEmpty
    <3> QED
      BY <2>1, <3>1
  <2> HIDE DEF v
  <2>4. /\ Ids(Cat(b, v)) = Ids(b) \cup Ids(v)
        /\ Increasing(Cat(b, v)) <=> Increasing(b) /\ Increasing(v) /\ Before(b, v)
        /\ v # <<>> => Cat(b, v) # <<>> /\ Newest(Cat(b, v)) = Newest(v)
    BY <2>2, PartsNumbered
  <2>5. u(h) = Cat(b, v)
    BY DEF v
  <2> HIDE DEF u
  <2>6. Ids(u(h)) = Ids(b) \cup ({h.id} \cup Ids(w)) /\ u(h) # <<>>
    BY <2>2, <2>3, <2>4, <2>5
  <2>7. Newest(u(h)) = IF w = <<>> THEN h ELSE Newest(w)
    BY <2>2, <2>3, <2>4, <2>5
  <2>8. /\ Before(One(h), w) <=> \A y \in Ids(w) : h.id < y
        /\ Before(b, v) <=> \A x \in Ids(b), y \in {h.id} \cup Ids(w) : x < y
    BY <2>1, <2>2 DEF Before
  <2> QED
    BY <2>2, <2>4, <2>5, <2>6, <2>7, <2>8
<1>3. r = Cat(b, Cat(One(g), w))
  <2>1. \A x, y, z \in Seq(Frames) : Cat(Cat(x, y), z) = Cat(x, Cat(y, z))
    BY ONLY CatAssoc
  <2> QED
    BY <2>1, OneNumbered
<1>4. q = u(f) /\ r = u(g)
  BY <1>3
<1> HIDE DEF u
<1> QED
  BY <1>2, <1>4

(* Frames in the middle of the line that are lost.                          *)
LEMMA LostNumbered ==
  ASSUME NEW b \in Seq(Frames), NEW g \in Seq(Frames), NEW w \in Seq(Frames),
         NEW n \in Nat, Increasing(Cat(b, Cat(g, w))), Below(Cat(b, Cat(g, w)), n)
  PROVE  Increasing(Cat(b, w)) /\ Below(Cat(b, w), n)
<1> DEFINE v == Cat(g, w)
<1>1. \A s, t \in Seq(Frames) : Cat(s, t) \in Seq(Frames)
  BY ONLY CatType
<1>2. /\ v \in Seq(Frames) /\ Ids(v) = Ids(g) \cup Ids(w)
      /\ Increasing(v) => Increasing(w)
  BY <1>1, PartsNumbered
<1> HIDE DEF v
<1>3. /\ Ids(Cat(b, v)) = Ids(b) \cup Ids(v)
      /\ Increasing(Cat(b, v)) => Increasing(b) /\ Increasing(v) /\ Before(b, v)
  BY <1>2, PartsNumbered
<1>4. Increasing(Cat(b, v)) /\ Below(Cat(b, v), n)
  BY DEF v
<1>5. Before(b, w)
  BY <1>2, <1>3, <1>4 DEF Before
<1>6. /\ Ids(Cat(b, w)) = Ids(b) \cup Ids(w)
      /\ Increasing(b) /\ Increasing(w) /\ Before(b, w) => Increasing(Cat(b, w))
  BY PartsNumbered
<1> QED
  BY <1>2, <1>3, <1>4, <1>5, <1>6 DEF Below

(* What the moves do to the line of frames with an id.                      *)
Line(k) == /\ Only(Back(k), WithId) \in Seq(Frames)
           /\ Only(Forth(k), WithId) \in Seq(Frames)
           /\ InFlight(k) = Cat(Only(Back(k), WithId), Only(Forth(k), WithId))
           /\ InFlight(k) \in Seq(Frames)

LEMMA LineNow == IInv => \A k \in Conns : Line(k)
<1> SUFFICES ASSUME IInv, NEW k \in Conns PROVE Line(k)
  OBVIOUS
<1>1. Back(k) \in Seq(Frames) /\ Forth(k) \in Seq(Frames)
  BY LanesNow DEF AllLanes, Lanes
<1>2. ASSUME NEW s \in Seq(Frames) PROVE Only(s, WithId) \in Seq(Frames)
  <2>1. Only(s, WithId) \in Seq(Frames \cap WithId)
    BY OnlyType
  <2>2. \A x \in Seq(Frames \cap WithId) : x \in Seq(Frames)
    BY SeqWider
  <2> QED
    BY <2>1, <2>2
<1>3. InFlight(k) = Cat(Only(Back(k), WithId), Only(Forth(k), WithId))
  <2>1. \A s, t \in Seq(Frames) :
          Only(Cat(s, t), WithId) = Cat(Only(s, WithId), Only(t, WithId))
    BY ONLY OnlyCat
  <2>2. InFlight(k) = Only(Cat(Back(k), Forth(k)), WithId)
    BY DEF InFlight, Cat
  <2> QED
    BY <1>1, <2>1, <2>2
<1>4. \A s, t \in Seq(Frames) : Cat(s, t) \in Seq(Frames)
  BY ONLY CatType
<1> QED
  BY <1>1, <1>2, <1>3, <1>4 DEF Line

LEMMA LineLater == IInv' => (\A k \in Conns : Line(k))'
BY LineNow, PTL

(* A frame is in the line if it has an id, and an event is not.             *)
LEMMA LineOf ==
  /\ \A s, t \in Seq(Frames) :
       Only(Cat(s, t), WithId) = Cat(Only(s, WithId), Only(t, WithId))
  /\ \A f : Only(One(f), WithId) = IF f \in WithId THEN One(f) ELSE <<>>
  /\ Only(<<>>, WithId) = <<>>
  /\ \A s \in Seq(Frames) : Only(s, WithId) \in Seq(Frames)
  /\ \A e \in EventFrames : e \notin WithId
  /\ WithId \subseteq Frames /\ Replies \subseteq WithId
<1>1. \A s, t \in Seq(Frames) :
        Only(Cat(s, t), WithId) = Cat(Only(s, WithId), Only(t, WithId))
  BY ONLY OnlyCat
<1>2. \A f : Only(One(f), WithId) = IF f \in WithId THEN One(f) ELSE <<>>
  BY ONLY OnlyOfOne
<1>3. ASSUME NEW s \in Seq(Frames) PROVE Only(s, WithId) \in Seq(Frames)
  <2>1. Only(s, WithId) \in Seq(Frames \cap WithId)
    BY OnlyType
  <2>2. \A x \in Seq(Frames \cap WithId) : x \in Seq(Frames)
    BY SeqWider
  <2> QED
    BY <2>1, <2>2
<1>4. \A e \in EventFrames : e \notin WithId
  BY Kinds DEF WithId
<1>5. WithId \subseteq Frames /\ Replies \subseteq WithId
  BY DEF WithId, Replies
<1> QED
  BY <1>1, <1>2, <1>3, <1>4, <1>5, OnlyEmpty

LEMMA StillLine ==
  ASSUME IInv, IInv', NEW k \in Conns,
         \/ Rests(k) \/ Opens(k) \/ Skips(k) \/ Tells(k) \/ Gets(k) \/ Ignores(k)
         \/ Answered(k) /\ frame \notin WithId
  PROVE  InFlight(k)' = InFlight(k)
<1> DEFINE O(s) == Only(s, WithId)
<1>1. /\ InFlight(k) = Cat(O(Back(k)), O(Forth(k)))
      /\ InFlight(k)' = Cat(O(Back(k)'), O(Forth(k)'))
      /\ O(Back(k)) \in Seq(Frames) /\ O(Forth(k)) \in Seq(Frames)
      /\ O(Back(k)') \in Seq(Frames) /\ O(Forth(k)') \in Seq(Frames)
  BY LineNow, LineLater DEF Line
<1>2. /\ Back(k) \in Seq(Frames) /\ Forth(k) \in Seq(Frames)
      /\ Back(k)' \in Seq(Frames) /\ Forth(k)' \in Seq(Frames)
  BY LanesNow, LanesLater DEF AllLanes, Lanes
<1>3. /\ \A s, t \in Seq(Frames) : O(Cat(s, t)) = Cat(O(s), O(t))
      /\ \A f : O(One(f)) = IF f \in WithId THEN One(f) ELSE <<>>
      /\ O(<<>>) = <<>>
      /\ \A e \in EventFrames : e \notin WithId
  BY LineOf
<1>4. /\ <<>> \in Seq(Frames)
      /\ \A s \in Seq(Frames) : Cat(s, <<>>) = s /\ Cat(<<>>, s) = s
  BY ONLY CatEmpty
<1>5. \A e : One(e) \in Seq(Frames) <=> e \in Frames
  BY ONLY OneOf
<1>6. \A r : News(k, r) => r \in Seq(Frames) /\ O(r) = <<>>
  <2> HIDE DEF O
  <2> QED
    BY <1>3 DEF News
<1>7. CASE Rests(k) \/ Opens(k) \/ Skips(k)
  BY <1>1, <1>7 DEF Rests, Opens, Skips, Kept
<1> HIDE DEF O
<1>8. CASE Tells(k)
  <2>1. PICK f \in ToServer(mode[k]) \ WithId : Asked(k, f)
    BY <1>8 DEF Tells
  <2>2. One(f) \in Seq(Frames) /\ O(One(f)) = <<>>
    BY <1>3, <1>5, <2>1, Kinds
  <2>3. O(Forth(k)') = Cat(O(Forth(k)), <<>>) /\ Back(k)' = Back(k)
    BY <1>2, <1>3, <2>1, <2>2 DEF Asked
  <2> QED
    BY <1>1, <1>4, <2>3
<1>9. CASE Gets(k)
  <2>1. PICK r : News(k, r) /\ Queued(k, r)
    BY <1>9 DEF Gets
  <2>2. O(Back(k)') = Cat(O(Back(k)), <<>>) /\ Forth(k)' = Forth(k)
    BY <1>2, <1>3, <1>6, <2>1 DEF Queued
  <2> QED
    BY <1>1, <1>4, <2>2
<1>10. CASE Ignores(k) \/ (Answered(k) /\ frame \notin WithId)
  <2>1. PICK r \in Seq(Frames) : O(r) = <<>> /\ Served(k, r)
    <3>1. CASE Ignores(k)
      BY <1>3, <1>4, <3>1 DEF Ignores
    <3>2. CASE Answered(k) /\ frame \notin WithId
      BY <1>6, <3>2 DEF Answered
    <3> QED
      BY <1>10, <3>1, <3>2
  <2>2. O(Back(k)') = Cat(O(Back(k)), <<>>)
    BY <1>2, <1>3, <2>1 DEF Served
  <2>3. One(frame) \in Seq(Frames) /\ O(One(frame)) = <<>>
    BY <1>3, <1>5, <1>10, <2>1 DEF Served, Ignores
  <2>4. O(Forth(k)) = Cat(<<>>, O(Forth(k)'))
    BY <1>2, <1>3, <2>1, <2>3 DEF Served
  <2> QED
    BY <1>1, <1>4, <2>2, <2>4
<1> QED
  BY <1>7, <1>8, <1>9, <1>10

LEMMA CalledLine ==
  ASSUME IInv, IInv', NEW k \in Conns, NEW f \in WithId, Asked(k, f)
  PROVE  InFlight(k)' = Cat(InFlight(k), One(f))
<1> DEFINE O(s) == Only(s, WithId)
<1>1. /\ InFlight(k) = Cat(O(Back(k)), O(Forth(k)))
      /\ InFlight(k)' = Cat(O(Back(k)'), O(Forth(k)'))
      /\ O(Back(k)) \in Seq(Frames) /\ O(Forth(k)) \in Seq(Frames)
  BY LineNow, LineLater DEF Line
<1>2. Forth(k) \in Seq(Frames)
  BY LanesNow DEF AllLanes, Lanes
<1>3. /\ \A s, t \in Seq(Frames) : O(Cat(s, t)) = Cat(O(s), O(t))
      /\ \A e : O(One(e)) = IF e \in WithId THEN One(e) ELSE <<>>
      /\ WithId \subseteq Frames
  BY LineOf
<1>4. \A e : One(e) \in Seq(Frames) <=> e \in Frames
  BY ONLY OneOf
<1>5. \A s, t, u \in Seq(Frames) : Cat(Cat(s, t), u) = Cat(s, Cat(t, u))
  BY ONLY CatAssoc
<1> HIDE DEF O
<1>6. One(f) \in Seq(Frames) /\ O(One(f)) = One(f)
  BY <1>3, <1>4
<1>7. O(Forth(k)') = Cat(O(Forth(k)), One(f)) /\ Back(k)' = Back(k)
  BY <1>2, <1>3, <1>6 DEF Asked
<1> QED
  BY <1>1, <1>5, <1>6, <1>7

LEMMA HeardLine ==
  ASSUME IInv, IInv', NEW k \in Conns, NEW r \in Seq(Frames), Taken(k, r)
  PROVE  InFlight(k) = Cat(Only(r, WithId), InFlight(k)')
<1> DEFINE O(s) == Only(s, WithId)
<1>1. /\ InFlight(k) = Cat(O(Back(k)), O(Forth(k)))
      /\ InFlight(k)' = Cat(O(Back(k)'), O(Forth(k)'))
      /\ O(Forth(k)) \in Seq(Frames) /\ O(Back(k)') \in Seq(Frames)
  BY LineNow, LineLater DEF Line
<1>2. Back(k)' \in Seq(Frames)
  BY LanesLater DEF AllLanes, Lanes
<1>3. /\ \A s, t \in Seq(Frames) : O(Cat(s, t)) = Cat(O(s), O(t))
      /\ \A s \in Seq(Frames) : O(s) \in Seq(Frames)
  BY LineOf
<1>4. \A s, t, u \in Seq(Frames) : Cat(Cat(s, t), u) = Cat(s, Cat(t, u))
  BY ONLY CatAssoc
<1> HIDE DEF O
<1>5. O(Back(k)) = Cat(O(r), O(Back(k)')) /\ O(r) \in Seq(Frames)
      /\ Forth(k)' = Forth(k)
  BY <1>2, <1>3 DEF Taken
<1>6. InFlight(k) = Cat(O(r), InFlight(k)')
  BY <1>1, <1>4, <1>5
<1> QED
  BY <1>6 DEF O

LEMMA CutLine ==
  ASSUME IInv, IInv', NEW k \in Conns, NEW r \in Seq(Frames), Severed(k, r)
  PROVE  \E t \in Seq(Frames) : InFlight(k) = Cat(InFlight(k)', t)
<1> DEFINE O(s) == Only(s, WithId)
<1>1. /\ InFlight(k) = Cat(O(Back(k)), O(Forth(k)))
      /\ InFlight(k)' = Cat(O(Back(k)'), O(Forth(k)'))
      /\ O(Forth(k)) \in Seq(Frames) /\ O(Back(k)') \in Seq(Frames)
  BY LineNow, LineLater DEF Line
<1>2. Back(k)' \in Seq(Frames)
  BY LanesLater DEF AllLanes, Lanes
<1>3. /\ \A s, t \in Seq(Frames) : O(Cat(s, t)) = Cat(O(s), O(t))
      /\ \A s \in Seq(Frames) : O(s) \in Seq(Frames)
      /\ O(<<>>) = <<>>
  BY LineOf
<1>4. \A s, t, u \in Seq(Frames) : Cat(Cat(s, t), u) = Cat(s, Cat(t, u))
  BY ONLY CatAssoc
<1>5. \A s, t \in Seq(Frames) : Cat(s, t) \in Seq(Frames)
  BY ONLY CatType
<1>6. \A s \in Seq(Frames) : Cat(s, <<>>) = s /\ Cat(<<>>, s) = s
  BY CatEmpty
<1> HIDE DEF O
<1>7. O(Back(k)) = Cat(O(Back(k)'), O(r)) /\ O(r) \in Seq(Frames)
  BY <1>2, <1>3 DEF Severed
<1>8. Forth(k)' = <<>>
  BY DEF Severed
<1>9. InFlight(k)' = O(Back(k)')
  BY <1>1, <1>3, <1>6, <1>8
<1>10. /\ Cat(O(r), O(Forth(k))) \in Seq(Frames)
       /\ InFlight(k) = Cat(InFlight(k)', Cat(O(r), O(Forth(k))))
  BY <1>1, <1>4, <1>5, <1>7, <1>9
<1> QED
  BY <1>10

(* The answer to a call takes its place in the line.                        *)
LEMMA AnsweredLine ==
  ASSUME IInv, IInv', NEW k \in Conns, NEW c, News(k, c), frame \in WithId,
         Answer(frame) \in WithId, Served(k, Cat(c, One(Answer(frame))))
  PROVE  \E b, w \in Seq(Frames) :
           /\ InFlight(k) = Cat(b, Cat(One(frame), w))
           /\ InFlight(k)' = Cat(Cat(b, One(Answer(frame))), w)
<1> DEFINE O(s) == Only(s, WithId)
           g == Answer(frame)
<1>1. /\ InFlight(k) = Cat(O(Back(k)), O(Forth(k)))
      /\ InFlight(k)' = Cat(O(Back(k)'), O(Forth(k)'))
      /\ O(Back(k)) \in Seq(Frames) /\ O(Forth(k)') \in Seq(Frames)
  BY LineNow, LineLater DEF Line
<1>2. Back(k) \in Seq(Frames) /\ Forth(k)' \in Seq(Frames)
  BY LanesNow, LanesLater DEF AllLanes, Lanes
<1>3. /\ \A s, t \in Seq(Frames) : O(Cat(s, t)) = Cat(O(s), O(t))
      /\ \A f : O(One(f)) = IF f \in WithId THEN One(f) ELSE <<>>
      /\ \A e \in EventFrames : e \notin WithId
      /\ O(<<>>) = <<>> /\ WithId \subseteq Frames
  BY LineOf
<1>4. \A e : One(e) \in Seq(Frames) <=> e \in Frames
  BY ONLY OneOf
<1>5. \A s, t \in Seq(Frames) : Cat(s, t) \in Seq(Frames)
  BY ONLY CatType
<1>6. \A s \in Seq(Frames) : Cat(s, <<>>) = s /\ Cat(<<>>, s) = s
  BY CatEmpty
<1> HIDE DEF O, g
<1>7. c \in Seq(Frames) /\ O(c) = <<>>
  BY <1>3 DEF News
<1>8. /\ One(g) \in Seq(Frames) /\ O(One(g)) = One(g)
      /\ One(frame) \in Seq(Frames) /\ O(One(frame)) = One(frame)
  BY <1>3, <1>4 DEF g
<1>9. O(Cat(c, One(g))) = One(g) /\ Cat(c, One(g)) \in Seq(Frames)
  BY <1>3, <1>5, <1>6, <1>7, <1>8
<1>10. O(Back(k)') = Cat(O(Back(k)), One(g))
  <2>1. Back(k)' = Cat(Back(k), Cat(c, One(g)))
    BY DEF Served, g
  <2> QED
    BY <1>2, <1>3, <1>9, <2>1
<1>11. O(Forth(k)) = Cat(One(frame), O(Forth(k)'))
  <2>1. Forth(k) = Cat(One(frame), Forth(k)')
    BY DEF Served
  <2> QED
    BY <1>2, <1>3, <1>8, <2>1
<1> QED
  BY <1>1, <1>10, <1>11 DEF g

(* A frame that swallows others leaves the numbers in order, if not whole.  *)
LEMMA MisreadLine ==
  ASSUME IInv, IInv', NEW k \in Conns, NEW n \in Nat, Misreads(k),
         Increasing(InFlight(k)), Below(InFlight(k), n), NEW p, p = InFlight(k)'
  PROVE  Increasing(p) /\ Below(p, n)
<1> DEFINE O(s) == Only(s, WithId)
<1>1. PICK f \in Frames, r \in {<<>>, One(Corrupt)} :
        /\ Mistaken(k, f, r) /\ frame \in Frames
        /\ f \in WithId => frame \in WithId /\ f.id = frame.id
  BY Kinds DEF Misreads
<1>2. PICK g \in Seq(Frames), w \in Seq(Frames) :
        /\ Forth(k) = Cat(One(frame), Cat(g, w)) /\ Forth(k)' = Cat(One(f), Cat(r, w))
        /\ Back(k)' = Back(k)
  BY <1>1 DEF Mistaken
<1>3. /\ InFlight(k) = Cat(O(Back(k)), O(Forth(k)))
      /\ p = Cat(O(Back(k)'), O(Forth(k)')) /\ O(Back(k)) \in Seq(Frames)
  BY LineNow, LineLater DEF Line
<1>4. /\ \A s, t \in Seq(Frames) : O(Cat(s, t)) = Cat(O(s), O(t))
      /\ \A e : O(One(e)) = IF e \in WithId THEN One(e) ELSE <<>>
      /\ \A s \in Seq(Frames) : O(s) \in Seq(Frames)
      /\ O(<<>>) = <<>>
  BY LineOf
<1>5. \A e : One(e) \in Seq(Frames) <=> e \in Frames
  BY ONLY OneOf
<1>6. \A s, t \in Seq(Frames) : Cat(s, t) \in Seq(Frames)
  BY ONLY CatType
<1>7. /\ <<>> \in Seq(Frames)
      /\ \A s \in Seq(Frames) : Cat(s, <<>>) = s /\ Cat(<<>>, s) = s
  BY ONLY CatEmpty
<1>8. \A s, t, u \in Seq(Frames) : Cat(Cat(s, t), u) = Cat(s, Cat(t, u))
  BY ONLY CatAssoc
<1> HIDE DEF O
<1>9. r \in Seq(Frames) /\ O(r) = <<>>
  <2>1. Corrupt \in Frames /\ Corrupt \notin WithId
    BY FrameTypes DEF WithId, Corrupt, Frame
  <2> QED
    BY <1>1, <1>4, <1>5, <1>7, <2>1
<1>10. PICK b \in Seq(Frames), d \in Seq(Frames), v \in Seq(Frames),
            x \in Seq(Frames), y \in Seq(Frames) :
         /\ b = O(Back(k)) /\ d = O(g) /\ v = O(w)
         /\ x = O(One(frame)) /\ y = O(One(f))
  BY <1>1, <1>2, <1>3, <1>4, <1>5
<1>11. InFlight(k) = Cat(b, Cat(x, Cat(d, v)))
  <2>1. O(Cat(g, w)) = Cat(d, v) /\ Cat(g, w) \in Seq(Frames)
    BY <1>2, <1>4, <1>6, <1>10
  <2>2. O(Forth(k)) = Cat(x, Cat(d, v))
    BY <1>1, <1>2, <1>4, <1>5, <1>10, <2>1
  <2> QED
    BY <1>3, <1>10, <2>2
<1>12. p = Cat(b, Cat(y, v))
  <2>1. O(Cat(r, w)) = v /\ Cat(r, w) \in Seq(Frames)
    BY <1>2, <1>4, <1>6, <1>7, <1>9, <1>10
  <2>2. O(Forth(k)') = Cat(y, v)
    BY <1>1, <1>2, <1>4, <1>5, <1>10, <2>1
  <2> QED
    BY <1>2, <1>3, <1>10, <2>2
<1>13. CASE f \notin WithId
  <2>1. y = <<>> /\ p = Cat(b, v)
    BY <1>4, <1>7, <1>10, <1>12, <1>13
  <2>2. Cat(x, d) \in Seq(Frames) /\ Cat(x, Cat(d, v)) = Cat(Cat(x, d), v)
    BY <1>6, <1>8
  <2> DEFINE m == Cat(x, d)
  <2>3. m \in Seq(Frames) /\ InFlight(k) = Cat(b, Cat(m, v))
    BY <1>11, <2>2
  <2> HIDE DEF m
  <2>4. Increasing(Cat(b, Cat(m, v))) /\ Below(Cat(b, Cat(m, v)), n)
    BY <2>3
  <2>5. Increasing(Cat(b, v)) /\ Below(Cat(b, v), n)
    BY <2>3, <2>4, LostNumbered
  <2> QED
    BY <2>1, <2>5
<1>14. CASE f \in WithId
  <2>1. x = One(frame) /\ y = One(f) /\ f.id = frame.id
    BY <1>1, <1>4, <1>10, <1>14
  <2> DEFINE u == Cat(d, v)
             q == Cat(b, Cat(One(frame), u))
             m == Cat(b, One(f))
             z == Cat(m, u)
  <2>2. u \in Seq(Frames) /\ m \in Seq(Frames) /\ InFlight(k) = q
    BY <1>1, <1>5, <1>6, <1>11, <2>1
  <2>3. p = Cat(m, v)
    BY <1>8, <1>12, <2>1
  <2>4. z = Cat(Cat(b, One(f)), u) /\ z = Cat(m, Cat(d, v))
    OBVIOUS
  <2>5. Increasing(q) /\ Below(q, n)
    BY <2>2
  <2>6. q = Cat(b, Cat(One(frame), u))
    OBVIOUS
  <2> HIDE DEF u, q, m, z
  <2>7. (Increasing(q) => Increasing(z)) /\ Ids(z) = Ids(q)
    <3>1. \A a, c \in Seq(Frames), e, h \in Frames :
            e.id = h.id =>
              LET s == Cat(a, Cat(One(e), c))
                  t == Cat(Cat(a, One(h)), c)
              IN (Increasing(s) => Increasing(t)) /\ Ids(t) = Ids(s)
      BY AnswerNumbered
    <3>2. (Increasing(Cat(b, Cat(One(frame), u))) => Increasing(Cat(Cat(b, One(f)), u)))
          /\ Ids(Cat(Cat(b, One(f)), u)) = Ids(Cat(b, Cat(One(frame), u)))
      BY <1>1, <2>1, <2>2, <3>1
    <3> QED
      BY <2>4, <2>6, <3>2
  <2>8. Increasing(z) /\ Below(z, n)
    BY <2>5, <2>7 DEF Below
  <2>9. Increasing(Cat(m, Cat(d, v))) /\ Below(Cat(m, Cat(d, v)), n)
    BY <2>4, <2>8
  <2>10. Increasing(Cat(m, v)) /\ Below(Cat(m, v), n)
    BY <2>2, <2>9, LostNumbered
  <2> QED
    BY <2>3, <2>10
<1> QED
  BY <1>13, <1>14

-----------------------------------------------------------------------------
(* CallsNumbered is an invariant.                                           *)

LEMMA AnswerReplies ==
  /\ \A f \in WithId : Answer(f) \in Replies /\ Answer(f).id = f.id
  /\ \A f \in Replies : Answer(f) = f
<1>1. ASSUME NEW f \in WithId PROVE Answer(f) \in Replies /\ Answer(f).id = f.id
  <2>1. /\ f.id \in Nat
        /\ f.type \in {"request", "response", "subscribe", "unsubscribe", "ack"}
    BY FrameIds DEF WithId
  <2>2. Response(f.id) \in Replies /\ Ack(f.id) \in Replies
    BY <2>1, Kinds
  <2>3. Response(f.id).id = f.id /\ Ack(f.id).id = f.id
    BY DEF Response, Ack, Frame
  <2>4. CASE f.type = "request"
    BY <2>2, <2>3, <2>4 DEF Answer
  <2>5. CASE f.type \in {"subscribe", "unsubscribe"}
    BY <2>2, <2>3, <2>5 DEF Answer
  <2>6. CASE f.type \in {"response", "ack"}
    BY <2>6 DEF Answer, Replies, WithId
  <2> QED
    BY <2>1, <2>4, <2>5, <2>6
<1>2. \A f \in Replies : Answer(f) = f
  BY DEF Answer, Replies
<1> QED
  BY <1>1, <1>2

(* The line after a step, once it is known as a sequence p.                 *)
LEMMA NumbersLater ==
  ASSUME NEW k \in Conns, NEW p, p = InFlight(k)',
         mode'[k] = "idle" => nextId'[k] = 1,
         mode'[k] = "framed" =>
           /\ Increasing(p) /\ Below(p, nextId'[k])
           /\ Unbroken(k)' => NoGap(p, nextId'[k], unsent'[k])
  PROVE  Numbering(k)'
BY DEF Numbering, Increasing, Below, NoGap, Ids

LEMMA WaitsLater ==
  ASSUME NEW k \in Conns, NEW p, p = InFlight(k)',
         waiting'[k] # NoFrame =>
           /\ mode'[k] = "framed" /\ waiting'[k] \in Replies
           /\ Unbroken(k)' => p # <<>> /\ Answer(Newest(p)) = waiting'[k]
  PROVE  Waits(k)'
BY DEF Waits, Answer, Newest, Replies, Response, Ack, Frame

LEMMA StaysUnbroken ==
  ASSUME NEW k \in Conns, NoNewPeer(k), swallowed'[k] = swallowed[k]
  PROVE  Unbroken(k)' => Unbroken(k)
BY DEF NoNewPeer, Unbroken

(* The line, and with it the numbers and the wait, as they were.            *)
LEMMA SameNumbers ==
  ASSUME IInv, IInv', NEW k \in Conns, Numbering(k), Waits(k),
         InFlight(k)' = InFlight(k), NoNewPeer(k), mode'[k] = mode[k], SameHistory(k),
         mode[k] \in {"idle", "framed"} => nextId'[k] = nextId[k],
         waiting'[k] \in {waiting[k], NoFrame}
  PROVE  Numbering(k)' /\ Waits(k)'
<1> DEFINE p == InFlight(k)'
<1>1. Unbroken(k)' => Unbroken(k)
  BY StaysUnbroken DEF SameHistory
<1>2. p = InFlight(k) /\ unsent'[k] = unsent[k] /\ p = InFlight(k)'
  BY DEF SameHistory
<1> HIDE DEF p
<1>3. Numbering(k)'
  <2>1. mode'[k] = "idle" => nextId'[k] = 1
    BY DEF Numbering
  <2>2. mode'[k] = "framed" => /\ Increasing(p) /\ Below(p, nextId'[k])
                               /\ Unbroken(k)' => NoGap(p, nextId'[k], unsent'[k])
    BY <1>1, <1>2 DEF Numbering
  <2> QED
    BY <1>2, <2>1, <2>2, NumbersLater
<1>4. waiting'[k] # NoFrame =>
        /\ mode'[k] = "framed" /\ waiting'[k] \in Replies
        /\ Unbroken(k)' => p # <<>> /\ Answer(Newest(p)) = waiting'[k]
  BY <1>1, <1>2 DEF Waits
<1>5. Waits(k)'
  BY <1>2, <1>4, WaitsLater
<1> QED
  BY <1>3, <1>5

LEMMA HeardNumbers ==
  ASSUME IInv, IInv', NEW k \in Conns, Carries(k), Numbering(k), Waits(k), Hears(k)
  PROVE  Numbering(k)' /\ Waits(k)'
<1> DEFINE q == InFlight(k)
           p == InFlight(k)'
<1>1. PICK r \in Seq(Frames) :
        /\ Taken(k, r) /\ NoNewPeer(k) /\ mode'[k] = mode[k]
        /\ nextId'[k] = nextId[k] /\ SameHistory(k)
        /\ \/ waiting'[k] = NoFrame
           \/ \E h \in Frames : /\ r = One(h) /\ h # waiting[k]
                                /\ waiting'[k] = waiting[k]
  BY DEF Hears
<1>2. p \in Seq(Frames) /\ Only(r, WithId) \in Seq(Frames) /\ q = Cat(Only(r, WithId), p)
      /\ p = InFlight(k)' /\ q = InFlight(k)
  BY <1>1, LineLater, LineOf, HeardLine DEF Line
<1>3. (Unbroken(k)' => Unbroken(k)) /\ unsent'[k] = unsent[k]
  BY <1>1, StaysUnbroken DEF SameHistory
<1> DEFINE o == Only(r, WithId)
<1>4. o \in Seq(Frames) /\ q = Cat(o, p)
  BY <1>2
<1> HIDE DEF q, p, o
<1>5. /\ Increasing(q) => Increasing(p)
      /\ Ids(p) \subseteq Ids(q)
      /\ p # <<>> => Newest(q) = Newest(p)
  BY <1>2, <1>4, PartsNumbered
<1>6. nextId[k] \in Nat
  BY DEF IInv, TypeOK
<1>7. Numbering(k)'
  <2>1. mode'[k] = "idle" => nextId'[k] = 1
    BY <1>1 DEF Numbering
  <2>2. ASSUME mode'[k] = "framed"
        PROVE  /\ Increasing(p) /\ Below(p, nextId'[k])
               /\ Unbroken(k)' => NoGap(p, nextId'[k], unsent'[k])
    <3>1. /\ Increasing(q) /\ Below(q, nextId[k])
          /\ Unbroken(k) => NoGap(q, nextId[k], unsent[k])
      BY <1>1, <1>2, <2>2 DEF Numbering
    <3>2. Below(p, nextId[k])
      BY <1>5, <3>1 DEF Below
    <3>3. NoGap(q, nextId[k], unsent[k]) => NoGap(p, nextId[k], unsent[k])
      BY <1>2, <1>4, <1>6, <3>1, RestNumbered
    <3> QED
      BY <1>1, <1>3, <1>5, <3>1, <3>2, <3>3
  <2> QED
    BY <1>2, <2>1, <2>2, NumbersLater
<1>8. Waits(k)'
  <2>1. CASE waiting'[k] = NoFrame
    BY <2>1 DEF Waits
  <2>2. CASE waiting'[k] # NoFrame
    <3>1. PICK h \in Frames : r = One(h) /\ h # waiting[k] /\ waiting'[k] = waiting[k]
      BY <1>1, <2>2
    <3>2. /\ mode[k] = "framed" /\ waiting[k] \in Replies
          /\ Unbroken(k) => q # <<>> /\ Answer(Newest(q)) = waiting[k]
      BY <2>2, <3>1 DEF Waits, q
    <3>3. ASSUME Unbroken(k), h \in WithId, p = <<>> PROVE FALSE
      <4>1. Back(k) = Cat(One(h), Back(k)') /\ Back(k)' \in Seq(Frames)
        BY <1>1, <3>1, LanesLater DEF Taken, AllLanes, Lanes
      <4> DEFINE C == ToClient(mode[k])
      <4>2. Back(k) \in Seq(C)
        BY DEF Carries
      <4>3. \A s, t \in Seq(Frames) : Cat(s, t) \in Seq(C) => s \in Seq(C) /\ t \in Seq(C)
        BY ONLY CatParts
      <4>4. \A e : One(e) \in Seq(C) <=> e \in C
        BY ONLY OneOf
      <4> HIDE DEF C
      <4>5. h \in C
        BY <1>1, <3>1, <4>1, <4>2, <4>3, <4>4
      <4>6. h \in Replies
        BY <3>2, <3>3, <4>5, LineOf DEF C, ToClient
      <4>7. Only(r, WithId) = One(h)
        BY <3>1, <3>3, LineOf
      <4>8. q = One(h)
        <5>1. \A s \in Seq(Frames) : Cat(s, <<>>) = s /\ Cat(<<>>, s) = s
          BY CatEmpty
        <5> QED
          BY <1>2, <3>3, <4>7, <5>1
      <4>9. Newest(q) = h
        BY <4>8 DEF Newest, One
      <4> QED
        BY <3>1, <3>2, <3>3, <4>6, <4>9, AnswerReplies
    <3>4. ASSUME h \notin WithId PROVE p = q
      <4>1. Only(r, WithId) = <<>>
        BY <3>1, <3>4, LineOf
      <4>2. \A s \in Seq(Frames) : Cat(s, <<>>) = s /\ Cat(<<>>, s) = s
        BY CatEmpty
      <4> QED
        BY <1>2, <4>1, <4>2
    <3>5. Unbroken(k) => p # <<>> /\ Newest(p) = Newest(q)
      BY <1>5, <3>2, <3>3, <3>4
    <3>6. /\ mode'[k] = "framed" /\ waiting'[k] \in Replies
          /\ Unbroken(k)' => p # <<>> /\ Answer(Newest(p)) = waiting'[k]
      BY <1>1, <1>3, <3>1, <3>2, <3>5
    <3> QED
      BY <1>2, <3>6, WaitsLater
  <2> QED
    BY <2>1, <2>2
<1> QED
  BY <1>7, <1>8

LEMMA CalledNumbers ==
  ASSUME IInv, IInv', NEW k \in Conns, Numbering(k), Waits(k), Places(k)
  PROVE  Numbering(k)' /\ Waits(k)'
<1> DEFINE q == InFlight(k)
           p == InFlight(k)'
<1>1. PICK f \in WithId \cap Asks :
        /\ Asked(k, f) /\ NoNewPeer(k) /\ Connected(k)
        /\ mode[k] = "framed" /\ mode'[k] = mode[k]
        /\ f.id = nextId[k] /\ nextId'[k] = nextId[k] + 1
        /\ waiting'[k] \in {NoFrame, Answer(f)} /\ SameHistory(k)
  BY DEF Places
<1>2. nextId[k] \in Nat /\ q \in Seq(Frames) /\ f \in Frames /\ p = InFlight(k)'
  BY LineNow, LineOf DEF IInv, TypeOK, Line
<1>3. p = Cat(q, One(f))
  BY <1>1, CalledLine
<1>4. (Unbroken(k)' => Unbroken(k)) /\ unsent'[k] = unsent[k]
  BY <1>1, StaysUnbroken DEF SameHistory
<1>5. /\ Increasing(q) /\ Below(q, nextId[k])
      /\ Unbroken(k) => NoGap(q, nextId[k], unsent[k])
  BY <1>1 DEF Numbering
<1> HIDE DEF p, q
<1>6. /\ Increasing(p) /\ Below(p, nextId[k] + 1)
      /\ NoGap(q, nextId[k], unsent[k]) => NoGap(p, nextId[k] + 1, unsent[k])
      /\ p # <<>> /\ Newest(p) = f
  <2>1. PICK n \in Nat, S \in {unsent[k]} : n = nextId[k]
    BY <1>2
  <2>2. Increasing(q) /\ Below(q, n) /\ f.id = n
    BY <1>1, <1>5, <2>1
  <2>3. /\ Increasing(Cat(q, One(f))) /\ Below(Cat(q, One(f)), n + 1)
        /\ NoGap(q, n, S) => NoGap(Cat(q, One(f)), n + 1, S)
        /\ Cat(q, One(f)) # <<>> /\ Newest(Cat(q, One(f))) = f
    BY <1>2, <2>2, NextNumbered
  <2> QED
    BY <1>3, <2>1, <2>3
<1>7. Numbering(k)'
  <2>1. /\ Increasing(p) /\ Below(p, nextId'[k])
        /\ Unbroken(k)' => NoGap(p, nextId'[k], unsent'[k])
    BY <1>1, <1>4, <1>5, <1>6
  <2>2. mode'[k] # "idle"
    BY <1>1
  <2> QED
    BY <1>2, <2>1, <2>2, NumbersLater
<1>8. Answer(f) \in Replies
  BY AnswerReplies
<1>9. waiting'[k] # NoFrame =>
        /\ mode'[k] = "framed" /\ waiting'[k] \in Replies
        /\ Unbroken(k)' => p # <<>> /\ Answer(Newest(p)) = waiting'[k]
  BY <1>1, <1>6, <1>8
<1>10. Waits(k)'
  BY <1>2, <1>9, WaitsLater
<1> QED
  BY <1>7, <1>10

LEMMA SkippedNumbers ==
  ASSUME IInv, IInv', NEW k \in Conns, Numbering(k), Waits(k), Skips(k)
  PROVE  Numbering(k)' /\ Waits(k)'
<1> DEFINE p == InFlight(k)'
<1>1. p = InFlight(k)' /\ p = InFlight(k) /\ p \in Seq(Frames) /\ nextId[k] \in Nat
  <2>1. p = InFlight(k)
    BY StillLine
  <2>2. InFlight(k) \in Seq(Frames)
    BY LineNow DEF Line
  <2>3. nextId[k] \in Nat
    BY DEF IInv, TypeOK
  <2> QED
    BY <2>1, <2>2, <2>3
<1>2. Unbroken(k)' => Unbroken(k)
  BY StaysUnbroken DEF Skips
<1> HIDE DEF p
<1>3. /\ Increasing(p) /\ Below(p, nextId[k])
      /\ Unbroken(k) => NoGap(p, nextId[k], unsent[k])
  BY <1>1 DEF Numbering, Skips
<1>4. /\ Below(p, nextId[k] + 1)
      /\ NoGap(p, nextId[k], unsent[k])
           => NoGap(p, nextId[k] + 1, unsent[k] \cup {nextId[k]})
  BY <1>1, <1>3, NextNumbered
<1>5. /\ nextId'[k] = nextId[k] + 1 /\ unsent'[k] = unsent[k] \cup {nextId[k]}
      /\ mode'[k] # "idle" /\ waiting'[k] = NoFrame
  BY DEF Skips
<1>6. /\ Increasing(p) /\ Below(p, nextId'[k])
      /\ Unbroken(k)' => NoGap(p, nextId'[k], unsent'[k])
  BY <1>2, <1>3, <1>4, <1>5
<1>7. Numbering(k)'
  BY <1>1, <1>5, <1>6, NumbersLater
<1> QED
  BY <1>5, <1>7 DEF Waits

LEMMA AnsweredNumbers ==
  ASSUME IInv, IInv', NEW k \in Conns, Numbering(k), Waits(k), Answered(k),
         frame \in WithId
  PROVE  Numbering(k)' /\ Waits(k)'
<1> DEFINE q == InFlight(k)
           p == InFlight(k)'
           g == Answer(frame)
<1>1. PICK c : News(k, c) /\ Served(k, Cat(c, One(g)))
  BY DEF Answered
<1>2. NoNewPeer(k) /\ Quiet(k) /\ g \in WithId /\ g \in Frames /\ frame \in Frames
      /\ frame.id = g.id /\ Answer(g) = g
  BY AnswerReplies, LineOf DEF Answered
<1>3. PICK b \in Seq(Frames), w \in Seq(Frames) :
        q = Cat(b, Cat(One(frame), w)) /\ p = Cat(Cat(b, One(g)), w)
  BY <1>1, <1>2, AnsweredLine
<1>4. p = InFlight(k)' /\ q = InFlight(k)
  OBVIOUS
<1> HIDE DEF q, p, g
<1>5. /\ Increasing(q) => Increasing(p)
      /\ Ids(p) = Ids(q)
      /\ p # <<>>
      /\ Newest(p) = Newest(q) \/ (Newest(q) = frame /\ Newest(p) = g)
  BY <1>2, <1>3, AnswerNumbered
<1>6. Answer(Newest(p)) = Answer(Newest(q))
  BY <1>2, <1>5 DEF g
<1>7. /\ Unbroken(k)' => Unbroken(k)
      /\ mode'[k] = mode[k] /\ nextId'[k] = nextId[k] /\ waiting'[k] = waiting[k]
      /\ unsent'[k] = unsent[k]
  BY <1>2, StaysUnbroken DEF Quiet, SameHistory
<1>8. Numbering(k)'
  <2>1. mode'[k] = "framed" =>
          /\ Increasing(p) /\ Below(p, nextId'[k])
          /\ Unbroken(k)' => NoGap(p, nextId'[k], unsent'[k])
    BY <1>4, <1>5, <1>7 DEF Numbering, Below, NoGap
  <2>2. mode'[k] = "idle" => nextId'[k] = 1
    BY <1>7 DEF Numbering
  <2> QED
    BY <1>4, <2>1, <2>2, NumbersLater
<1>9. waiting'[k] # NoFrame =>
        /\ mode'[k] = "framed" /\ waiting'[k] \in Replies
        /\ Unbroken(k)' => p # <<>> /\ Answer(Newest(p)) = waiting'[k]
  BY <1>4, <1>5, <1>6, <1>7 DEF Waits
<1>10. Waits(k)'
  BY <1>4, <1>9, WaitsLater
<1> QED
  BY <1>8, <1>10

LEMMA MisreadNumbers ==
  ASSUME IInv, IInv', NEW k \in Conns, Numbering(k), Waits(k), Misreads(k)
  PROVE  Numbering(k)' /\ Waits(k)'
<1> DEFINE p == InFlight(k)'
<1>1. /\ mode'[k] = mode[k] /\ nextId'[k] = nextId[k] /\ waiting'[k] = waiting[k]
      /\ ~Unbroken(k)' /\ nextId[k] \in Nat /\ p = InFlight(k)'
  BY DEF Misreads, Unbroken, IInv, TypeOK
<1> HIDE DEF p
<1>2. mode[k] = "framed" => Increasing(p) /\ Below(p, nextId[k])
  BY <1>1, MisreadLine DEF Numbering
<1>3. mode'[k] = "idle" => nextId'[k] = 1
  BY <1>1 DEF Numbering
<1>4. Numbering(k)'
  BY <1>1, <1>2, <1>3, NumbersLater
<1>5. waiting'[k] # NoFrame => mode'[k] = "framed" /\ waiting'[k] \in Replies
  BY <1>1 DEF Waits
<1> QED
  BY <1>1, <1>4, <1>5, WaitsLater

LEMMA MoveNumbers ==
  ASSUME IInv, IInv', NEW k \in Conns, Carries(k), Numbering(k), Waits(k), Move(k)
  PROVE  Numbering(k)' /\ Waits(k)'
<1> DEFINE p == InFlight(k)'
<1>0. p = InFlight(k)'
  OBVIOUS
<1>1. CASE \/ Rests(k) \/ Tells(k) \/ Gets(k) \/ Ignores(k)
           \/ Answered(k) /\ frame \notin WithId
  <2>1. /\ InFlight(k)' = InFlight(k) /\ NoNewPeer(k) /\ mode'[k] = mode[k]
        /\ waiting'[k] \in {waiting[k], NoFrame} /\ SameHistory(k)
    BY <1>1, StillLine DEF Rests, Tells, Gets, Ignores, Answered, Quiet
  <2>2. mode[k] \in {"idle", "framed"} => nextId'[k] = nextId[k]
    BY <1>1 DEF Rests, Tells, Gets, Ignores, Answered, Quiet, ToServer
  <2> QED
    BY <2>1, <2>2, SameNumbers
<1>2. CASE Answered(k) /\ frame \in WithId
  BY <1>2, AnsweredNumbers
<1>3. CASE Hears(k)
  BY <1>3, HeardNumbers
<1>4. CASE Places(k)
  BY <1>4, CalledNumbers
<1>5. CASE Skips(k)
  BY <1>5, SkippedNumbers
<1>6. CASE Misreads(k)
  BY <1>6, MisreadNumbers
<1>7. CASE IsCut(k)
  <2>1. PICK r \in Seq(Frames) : Severed(k, r) /\ Quiet(k)
    BY <1>7 DEF IsCut
  <2>2. PICK t \in Seq(Frames) : InFlight(k) = Cat(p, t) /\ p \in Seq(Frames)
    BY <2>1, CutLine, LineLater DEF Line
  <2>3. ~Unbroken(k)'
    BY <2>1 DEF Severed, Unbroken
  <2> HIDE DEF p
  <2>4. (Increasing(InFlight(k)) => Increasing(p)) /\ Ids(p) \subseteq Ids(InFlight(k))
    BY <2>2, PartsNumbered
  <2>5. mode'[k] = "framed" => Increasing(p) /\ Below(p, nextId'[k])
    BY <2>1, <2>4 DEF Numbering, Quiet, Below
  <2>6. mode'[k] = "idle" => nextId'[k] = 1
    BY <2>1 DEF Numbering, Quiet
  <2>7. Numbering(k)'
    BY <1>0, <2>3, <2>5, <2>6, NumbersLater
  <2>8. waiting'[k] # NoFrame => mode'[k] = "framed" /\ waiting'[k] \in Replies
    BY <2>1 DEF Waits, Quiet
  <2> QED
    BY <1>0, <2>3, <2>7, <2>8, WaitsLater
<1>8. CASE Finishes(k) \/ Leaves(k)
  <2>1. mode'[k] \in {"legacy", "closed"} /\ waiting'[k] = NoFrame
    BY <1>8 DEF Finishes, Leaves, Waits, Quiet
  <2> QED
    BY <2>1 DEF Numbering, Waits
<1>9. CASE Opens(k)
  <2>1. InFlight(k)' = InFlight(k)
    BY <1>9, StillLine
  <2>2. Back(k) \in Seq({}) /\ Forth(k) \in Seq({})
    BY <1>9 DEF Opens, Carries, ToClient, ToServer
  <2>3. p = <<>>
    <3>1. Back(k) = <<>> /\ Forth(k) = <<>>
      BY <2>2
    <3>2. Only(Back(k), WithId) = <<>> /\ Only(Forth(k), WithId) = <<>>
      BY <3>1, LineOf
    <3>3. \A s \in Seq(Frames) : Cat(s, <<>>) = s /\ Cat(<<>>, s) = s
      BY CatEmpty
    <3> QED
      BY <2>1, <3>2, <3>3, LineNow, EmptySeq DEF Line
  <2>4. mode[k] = "idle" /\ nextId'[k] = 1 /\ waiting'[k] = NoFrame /\ mode'[k] # "idle"
    BY <1>9 DEF Opens, Numbering, Waits
  <2> HIDE DEF p
  <2>5. Len(p) = 0 /\ 1 .. 0 = {}
    BY <2>3
  <2>6. Ids(p) = {} /\ Increasing(p)
    BY <2>5 DEF Ids, Increasing
  <2>7. Below(p, nextId'[k]) /\ NoGap(p, nextId'[k], unsent'[k])
    BY <2>6 DEF Below, NoGap
  <2>8. Numbering(k)'
    BY <1>0, <2>4, <2>6, <2>7, NumbersLater
  <2> QED
    BY <2>4, <2>8 DEF Waits
<1> QED
  BY <1>1, <1>2, <1>3, <1>4, <1>5, <1>6, <1>7, <1>8, <1>9 DEF Move, Plain

-----------------------------------------------------------------------------
(* The theorems about calls.                                                *)
Delivery == IInv /\ Traffic /\ CallsNumbered

LEMMA DeliveryInit == Init => Delivery
<1> SUFFICES ASSUME Init PROVE CallsNumbered
  BY InitInv, InitTraffic DEF Delivery
<1>1. \A k \in Conns : mode[k] = "idle" /\ nextId[k] = 1 /\ waiting[k] = NoFrame
  BY DEF Init
<1> QED
  BY <1>1 DEF CallsNumbered, Numbering, Waits

LEMMA DeliveryStep == Delivery /\ [Next]_vars => Delivery'
<1> SUFFICES ASSUME Delivery, [Next]_vars PROVE Delivery'
  OBVIOUS
<1>1. IInv'
  BY TypeStep, BooksStep, QueuesStep DEF Delivery, IInv
<1>2. Traffic'
  BY <1>1, TrafficStep DEF Delivery
<1>3. ASSUME NEW k \in Conns PROVE (Numbering(k) /\ Waits(k))'
  <2>1. Carries(k) /\ Numbering(k) /\ Waits(k) /\ Move(k)
    BY <1>1, Moves DEF Delivery, Traffic, Contents, CallsNumbered
  <2> QED
    BY <1>1, <2>1, MoveNumbers DEF Delivery
<1>4. CallsNumbered'
  BY <1>3 DEF CallsNumbered
<1> QED
  BY <1>1, <1>2, <1>4 DEF Delivery

LEMMA DeliveryInvariant == Spec => []Delivery
BY DeliveryInit, DeliveryStep, PTL DEF Spec

(* However calls, events, retries after a timeout, partial reads and writes *)
(* that fail interleave, the calls of a connected client and their answers  *)
(* are on their way in the order the calls were made, none of them twice.   *)
(* From the first of them on none is missing but those of which write_all   *)
(* sent nothing, until the server takes frames for the rest of one that     *)
(* write_all had cut short.                                                 *)
THEOREM CallsAnsweredInTurn == Spec => []RepliesInOrder
<1>1. Delivery => RepliesInOrder
  <2> SUFFICES ASSUME Delivery, NEW k \in Conns, mode[k] = "framed", Connected(k)
               PROVE  LET q == InFlight(k)
                          M == 1 .. Len(q)
                      IN /\ \A i \in M : /\ q[i].id < nextId[k]
                                         /\ \A j \in M : i < j => q[i].id < q[j].id
                         /\ ~swallowed[k] =>
                              \A i \in M : \A id \in q[i].id .. nextId[k] - 1 :
                                id \in unsent[k] \/ \E j \in M : q[j].id = id
    BY DEF RepliesInOrder
  <2> DEFINE q == InFlight(k)
             M == 1 .. Len(q)
  <2>1. /\ Increasing(q) /\ Below(q, nextId[k])
        /\ ~swallowed[k] => NoGap(q, nextId[k], unsent[k])
    BY DEF Delivery, CallsNumbered, Numbering, Unbroken
  <2> HIDE DEF q
  <2>2. \A i \in M : /\ q[i].id < nextId[k]
                     /\ \A j \in M : i < j => q[i].id < q[j].id
    BY <2>1 DEF Increasing, Below, Ids
  <2>3. ASSUME ~swallowed[k], NEW i \in M, NEW id \in q[i].id .. nextId[k] - 1
        PROVE  id \in unsent[k] \/ \E j \in M : q[j].id = id
    <3>1. id \in unsent[k] \/ id \in Ids(q)
      BY <2>1, <2>3 DEF NoGap, Ids
    <3> QED
      BY <3>1 DEF Ids
  <2> QED
    BY <2>2, <2>3 DEF q
<1> QED
  BY <1>1, DeliveryInvariant, PTL

(* A call that blocks on a live connection has its answer, or itself, on    *)
(* the way: it is the last frame with an id there.  Only once frames were   *)
(* taken for the rest of one cut short may it be gone, and the call end by  *)
(* its timeout alone.                                                       *)
THEOREM AnswersKeepComing == Spec => []AnswerStillComing
<1>1. Delivery => AnswerStillComing
  <2> SUFFICES ASSUME Delivery, NEW k \in Conns, waiting[k] # NoFrame, Connected(k),
                      ~swallowed[k]
               PROVE  \E i \in 1 .. Len(InFlight(k)) : InFlight(k)[i].id = waiting[k].id
    BY DEF AnswerStillComing
  <2> DEFINE q == InFlight(k)
  <2>1. q # <<>> /\ Answer(Newest(q)) = waiting[k]
    BY DEF Delivery, CallsNumbered, Waits, Unbroken
  <2>2. q \in Seq(Frames \cap WithId)
    <3>1. Back(k) \in Seq(Frames) /\ Forth(k) \in Seq(Frames)
      BY LanesNow DEF Delivery, AllLanes, Lanes
    <3>2. Back(k) \o Forth(k) \in Seq(Frames)
      BY <3>1, Concatenated
    <3> QED
      BY <3>2, OnlyType DEF InFlight
  <2> HIDE DEF q
  <2>3. Len(q) \in 1 .. Len(q)
    BY <2>1, <2>2, EmptySeq
  <2>4. q[Len(q)] \in WithId
    BY <2>2, <2>3, ElementOfSeq
  <2>5. q[Len(q)].id = waiting[k].id
    BY <2>1, <2>4, AnswerReplies DEF Newest
  <2> QED
    BY <2>3, <2>5 DEF q
<1> QED
  BY <1>1, DeliveryInvariant, PTL

(* A blocking call is never ended by the answer to an earlier one that      *)
(* timed out, and its own answer comes once: whatever frame ends it, no     *)
(* frame with its number is left on the way.                                *)
THEOREM CallsTakeTheirOwnAnswer == Spec => OnlyOwnAnswer
<1>1. Delivery /\ Delivery' /\ [Next]_vars =>
        [\A k \in Conns :
           PumpFrame(k) /\ waiting'[k] = NoFrame =>
             \A i \in 1 .. Len(InFlight(k)') : InFlight(k)'[i].id # waiting[k].id]_vars
  <2> SUFFICES ASSUME Delivery, Delivery', NEW k \in Conns, PumpFrame(k),
                      waiting'[k] = NoFrame, NEW i \in 1 .. Len(InFlight(k)')
               PROVE  InFlight(k)'[i].id # waiting[k].id
    OBVIOUS
  <2> USE DEF Delivery
  <2> DEFINE h == Head(cliBuf[k])
             p == InFlight(k)'
  <2>1. /\ UNCHANGED <<fdOf, up, bus>> /\ cliBuf[k] # <<>>
        /\ cliBuf'[k] = Tail(cliBuf[k]) /\ down'[k] = down[k]
        /\ \A j \in Conns \ {k} : cliBuf'[j] = cliBuf[j] /\ down'[j] = down[j]
    BY DEF PumpFrame, kernel, IInv, TypeOK
  <2>2. Taken(k, One(h)) /\ h \in Frames
    BY <2>1, ReadPaths
  <2>3. waiting[k] # NoFrame /\ h = waiting[k]
    BY DEF PumpFrame, TakesReply, IInv, TypeOK
  <2>4. h \in Replies
    BY <2>3 DEF CallsNumbered, Waits
  <2> HIDE DEF h
  <2>5. One(h) \in Seq(Frames) /\ Only(One(h), WithId) = One(h)
    <3>1. \A e : One(e) \in Seq(Frames) <=> e \in Frames
      BY ONLY OneOf
    <3> QED
      BY <2>2, <2>4, <3>1, LineOf
  <2>6. InFlight(k) = Cat(One(h), p) /\ p \in Seq(Frames)
    BY <2>2, <2>5, HeardLine, LineLater DEF Line
  <2>7. Increasing(InFlight(k))
    BY <2>3 DEF CallsNumbered, Numbering, Waits
  <2> HIDE DEF p
  <2>8. Before(One(h), p) /\ Ids(One(h)) = {h.id} /\ h.id \in Nat
    BY <2>2, <2>5, <2>6, <2>7, PartsNumbered, OneNumbered
  <2>9. i \in 1 .. Len(p)
    BY DEF p
  <2>10. p[i].id \in Ids(p)
    BY <2>9 DEF Ids
  <2>11. h.id < p[i].id
    BY <2>8, <2>10 DEF Before
  <2> QED
    BY <2>3, <2>8, <2>11 DEF p
<1> QED
  BY <1>1, DeliveryInvariant, PTL DEF Spec, OnlyOwnAnswer

-----------------------------------------------------------------------------
(* The bus implements publish/subscribe.  A plain step may cut connections  *)
(* off, and is a Cut or changes nothing; the others deliver, publish,       *)
(* subscribe or unsubscribe.                                                *)

LEMMA EventsOf ==
  /\ \A s, t \in Seq(Frames) :
       Only(Cat(s, t), AnEvent) = Cat(Only(s, AnEvent), Only(t, AnEvent))
  /\ \A f : Only(One(f), AnEvent) = IF f \in AnEvent THEN One(f) ELSE <<>>
  /\ Only(<<>>, AnEvent) = <<>>
  /\ \A s \in Seq(Frames) : Only(s, AnEvent) \in Seq(Frames)
  /\ \A s \in Seq(Replies) : Only(s, AnEvent) = <<>>
  /\ EventFrames \subseteq AnEvent
<1>1. \A s, t \in Seq(Frames) :
        Only(Cat(s, t), AnEvent) = Cat(Only(s, AnEvent), Only(t, AnEvent))
  BY ONLY OnlyCat
<1>2. \A f : Only(One(f), AnEvent) = IF f \in AnEvent THEN One(f) ELSE <<>>
  BY ONLY OnlyOfOne
<1>3. ASSUME NEW s \in Seq(Frames) PROVE Only(s, AnEvent) \in Seq(Frames)
  <2>1. Only(s, AnEvent) \in Seq(Frames \cap AnEvent)
    BY OnlyType
  <2>2. \A x \in Seq(Frames \cap AnEvent) : x \in Seq(Frames)
    BY SeqWider
  <2> QED
    BY <2>1, <2>2
<1>4. ASSUME NEW s \in Seq(Replies) PROVE Only(s, AnEvent) = <<>>
  <2>1. Replies \cap AnEvent = {}
    BY DEF Replies, AnEvent, IsEvent
  <2> QED
    BY <2>1, OnlyNone
<1>5. EventFrames \subseteq AnEvent
  BY Kinds DEF AnEvent, IsEvent
<1> QED
  BY <1>1, <1>2, <1>3, <1>4, <1>5, OnlyEmpty

(* What a connection is owed, by what is on its way back.                   *)
Account(k) ==
  /\ Back(k) \in Seq(Frames) /\ Owed(k) \in Seq(Frames)
  /\ Owed(k) = IF mode[k] = "closed" THEN <<>> ELSE Only(Back(k), AnEvent)
  /\ mode[k] \in {"idle", "legacy"} => Owed(k) = <<>>

LEMMA AccountNow == IInv /\ Traffic => \A k \in Conns : Account(k)
<1> SUFFICES ASSUME IInv, Traffic, NEW k \in Conns PROVE Account(k)
  OBVIOUS
<1>1. Back(k) \in Seq(Frames)
  BY LanesNow DEF AllLanes, Lanes
<1>2. Owed(k) = IF mode[k] = "closed" THEN <<>> ELSE Only(Back(k), AnEvent)
  BY DEF Owed
<1>3. Owed(k) \in Seq(Frames)
  BY <1>1, <1>2, EventsOf, EmptySeq
<1>4. ASSUME mode[k] \in {"idle", "legacy"} PROVE Owed(k) = <<>>
  <2>1. Back(k) \in Seq(ToClient(mode[k])) /\ ToClient(mode[k]) \subseteq Replies
    BY <1>4 DEF Traffic, Contents, Carries, ToClient
  <2>2. Back(k) \in Seq(Replies)
    BY <2>1, SeqMonotonic
  <2> QED
    BY <1>2, <1>4, <2>2, EventsOf
<1> QED
  BY <1>1, <1>2, <1>3, <1>4 DEF Account

LEMMA AccountLater == IInv' /\ Traffic' => (\A k \in Conns : Account(k))'
BY AccountNow, PTL

(* A plain step of a live connection leaves its debts alone, and one that   *)
(* is lost keeps the oldest part of them.                                   *)
LEMMA PlainDebts ==
  ASSUME IInv, IInv', Traffic, Traffic', NEW k \in Conns, Plain(k)
  PROVE  /\ Owed(k) \in Seq(Frames) /\ Owed(k)' \in Seq(Frames)
         /\ Lost(k) => Lost(k)'
         /\ ~Lost(k)' => Owed(k)' = Owed(k)
         /\ \E x \in Seq(Frames) : Owed(k) = Cat(Owed(k)', x)
<1>1. /\ Back(k) \in Seq(Frames) /\ Owed(k) \in Seq(Frames)
      /\ Owed(k) = IF mode[k] = "closed" THEN <<>> ELSE Only(Back(k), AnEvent)
      /\ mode[k] \in {"idle", "legacy"} => Owed(k) = <<>>
  BY AccountNow DEF Account
<1>2. /\ Back(k)' \in Seq(Frames) /\ Owed(k)' \in Seq(Frames)
      /\ Owed(k)' = IF mode'[k] = "closed" THEN <<>> ELSE Only(Back(k)', AnEvent)
      /\ mode'[k] \in {"idle", "legacy"} => Owed(k)' = <<>>
  BY AccountLater DEF Account
<1>3. mode[k] \in {"idle", "framed", "legacy", "closed"}
  BY DEF IInv, TypeOK
<1>4. /\ <<>> \in Seq(Frames)
      /\ \A s \in Seq(Frames) : Cat(s, <<>>) = s /\ Cat(<<>>, s) = s
  BY CatEmpty
<1>5. Lost(k) => Lost(k)'
  <2>1. Lost(k) <=> mode[k] = "closed" \/ (mode[k] = "framed" /\ ~Connected(k))
    BY DEF Lost
  <2>2. Lost(k)' <=> mode'[k] = "closed" \/ (mode'[k] = "framed" /\ ~Connected(k)')
    BY DEF Lost
  <2>3. mode[k] = "closed" => mode'[k] = "closed"
    BY DEF Plain, Rests, Tells, Places, Skips, Misreads, Ignores, IsCut, Finishes, Opens,
           Leaves, Quiet, Opened
  <2>4. ASSUME mode[k] = "framed" PROVE mode'[k] = "closed" \/ (NoNewPeer(k) /\ mode'[k] = "framed")
    BY <2>4 DEF Plain, Rests, Tells, Places, Skips, Misreads, Ignores, IsCut, Finishes,
                Opens, Leaves, Quiet, Severed, NoNewPeer
  <2> QED
    BY <2>1, <2>2, <2>3, <2>4 DEF NoNewPeer
<1>6. CASE mode'[k] = "closed"
  <2>1. Lost(k)' /\ Owed(k)' = <<>>
    BY <1>2, <1>6 DEF Lost
  <2> QED
    BY <1>1, <1>2, <1>4, <1>5, <2>1
<1>7. CASE mode'[k] # "closed"
  <2>1. CASE \/ Rests(k) \/ Tells(k) \/ Places(k) \/ Skips(k) \/ Misreads(k)
             \/ Ignores(k) \/ Opens(k)
    <3>1. Back(k)' = Back(k) /\ mode[k] # "closed"
      <4>1. CASE \/ Rests(k) \/ Tells(k) \/ Places(k) \/ Skips(k) \/ Misreads(k)
                 \/ Opens(k)
        BY <1>7, <4>1 DEF Rests, Tells, Places, Skips, Misreads, Opens, Kept, Asked,
           Mistaken
      <4>2. CASE Ignores(k)
        BY <1>1, <1>4, <1>7, <4>2 DEF Ignores, Served, Quiet
      <4> QED
        BY <2>1, <4>1, <4>2
    <3>2. Owed(k)' = Owed(k)
      BY <1>1, <1>2, <1>7, <3>1
    <3> QED
      BY <1>1, <1>2, <1>4, <1>5, <3>2
  <2>2. CASE Finishes(k)
    <3>1. mode[k] = "legacy" /\ mode'[k] = "legacy"
      BY <1>7, <2>2 DEF Finishes, Quiet
    <3>2. Owed(k) = <<>> /\ Owed(k)' = <<>>
      BY <1>1, <1>2, <3>1
    <3> QED
      BY <1>1, <1>2, <1>4, <1>5, <3>2
  <2>3. CASE IsCut(k)
    <3>1. PICK r \in Seq(Frames) : Severed(k, r) /\ mode'[k] = mode[k]
      BY <2>3 DEF IsCut, Quiet
    <3>2. Only(Back(k), AnEvent) = Cat(Only(Back(k)', AnEvent), Only(r, AnEvent))
          /\ Only(r, AnEvent) \in Seq(Frames)
      BY <1>2, <3>1, EventsOf DEF Severed
    <3>3. ASSUME ~Lost(k)' PROVE Owed(k)' = Owed(k)
      <4>1. mode'[k] # "framed"
        BY <3>1, <3>3 DEF Lost, Severed
      <4>2. mode[k] \in {"idle", "legacy"}
        BY <1>3, <1>7, <3>1, <4>1
      <4> QED
        BY <1>1, <1>2, <3>1, <4>2
    <3>4. \E x \in Seq(Frames) : Owed(k) = Cat(Owed(k)', x)
      BY <1>1, <1>2, <1>7, <3>1, <3>2
    <3> QED
      BY <1>1, <1>2, <1>5, <3>3, <3>4
  <2>4. CASE Leaves(k)
    BY <1>7, <2>4 DEF Leaves
  <2> QED
    BY <2>1, <2>2, <2>3, <2>4 DEF Plain
<1> QED
  BY <1>6, <1>7

-----------------------------------------------------------------------------
(* Who is subscribed and who is lost.  But for HandleSubscribe and          *)
(* HandleUnsubscribe, no step gives a framed client's descriptor another    *)
(* peer or touches its subscriptions unless it closes it.                   *)
Tidy ==
  /\ backlog' \subseteq backlog \cup {k \in Conns : mode[k] = "idle"}
  /\ \A fd \in Fds : fdOf'[fd] \in {fdOf[fd], NoConn} \cup backlog
  /\ \A fd \in clients : fdOf'[fd] \in {fdOf[fd], NoConn}
  /\ \A t \in Topics :
       /\ subscriptions'[t] \subseteq subscriptions[t]
       /\ \A fd \in subscriptions[t] : fdOf'[fd] # NoConn => fd \in subscriptions'[t]

LEMMA TidyUnchanged ==
  ASSUME UNCHANGED <<fdOf, subscriptions>>,
         backlog' \subseteq backlog \cup {k \in Conns : mode[k] = "idle"}
  PROVE  Tidy
BY DEF Tidy

LEMMA TidyClient ==
  ASSUME NEW j \in Conns, Client(j)
  PROVE  Tidy
<1> USE DEF kernel, client, bus, loop
<1>1. ASSUME NEW m, Connect(j, m) PROVE Tidy
  BY <1>1, TidyUnchanged DEF Connect
<1>2. CASE Calls(j)
  BY <1>2, TidyUnchanged DEF Calls, Request, LegacyCommand, Subscribe, SubscribeAsync,
         Unsubscribe, ClientPublish, Call, Send, SendPart, SendNothing
<1>3. CASE Reads(j)
  BY <1>3, TidyUnchanged DEF Reads, PumpFrame, PumpRead, OnFdReady
<1>4. CASE Timeout(j) \/ Disconnect(j)
  BY <1>4, TidyUnchanged DEF Timeout, Disconnect
<1> QED
  BY <1>1, <1>2, <1>3, <1>4 DEF Client

LEMMA TidySteps ==
  ASSUME IInv,
         \/ Poll \/ AcceptEnds \/ Ignore \/ NothingToRead \/ ParkedFramed
         \/ Accept \/ Receive \/ Flush \/ HandleUnknown \/ FrameWaits \/ FrameCompletes
         \/ \E fd \in Fds : Expire(fd)
         \/ ParkedHungUp \/ HungUp \/ HandleCorrupt \/ FlushFails \/ Stop
         \/ UNCHANGED vars
  PROVE  Tidy
<1> USE DEF kernel, client, bus, loop
<1>1. /\ backlog \subseteq Conns /\ clients \subseteq Fds /\ pending \subseteq Fds
      /\ subscriptions \in [Topics -> SUBSET Fds] /\ fdOf \in [Fds -> Conns \cup {NoConn}]
      /\ pending \cap clients = {}
      /\ \A t \in Topics : subscriptions[t] \subseteq clients
      /\ \A fd \in clients : fdOf[fd] # NoConn
  BY DEF IInv, TypeOK, Bookkeeping, DescriptorsAccounted, NothingInherited, Free
<1>2. CASE Poll \/ AcceptEnds \/ Ignore \/ NothingToRead \/ ParkedFramed
           \/ Receive \/ Flush \/ HandleUnknown \/ FrameWaits \/ FrameCompletes
           \/ UNCHANGED vars
  BY <1>2, TidyUnchanged DEF Poll, AcceptEnds, Ignore, NothingToRead, ParkedFramed,
         Receive, Flush, HandleUnknown, TakeFrame, FrameWaits, FrameCompletes, vars
<1>3. CASE Accept
  <2>1. PICK k \in backlog, g \in Free :
          fdOf' = [fdOf EXCEPT ![g] = k] /\ backlog' = backlog \ {k}
    BY <1>3 DEF Accept
  <2>2. \A fd \in Fds : fdOf'[fd] = IF fd = g THEN k ELSE fdOf[fd]
    BY <1>1, <2>1
  <2>3. g \notin clients /\ subscriptions' = subscriptions
    BY <1>1, <1>3 DEF Accept, Free
  <2> QED
    BY <1>1, <2>1, <2>2, <2>3 DEF Tidy
<1>4. ASSUME NEW S \in SUBSET (pending \cup clients), Close(S), backlog' \subseteq backlog,
             \A t \in Topics : subscriptions'[t] = subscriptions[t] \ S
      PROVE  Tidy
  <2>1. \A fd \in Fds : fdOf'[fd] = IF fd \in S THEN NoConn ELSE fdOf[fd]
    BY <1>4 DEF Close
  <2> QED
    BY <1>1, <1>4, <2>1 DEF Tidy
<1>5. ASSUME NEW fd \in Fds, Expire(fd) PROVE Tidy
  <2>1. PICK S \in SUBSET pending : Close(S)
    BY <1>5 DEF Expire
  <2>2. \A t \in Topics : subscriptions'[t] = subscriptions[t] \ S
    BY <1>1, <1>5 DEF Expire
  <2>3. backlog' \subseteq backlog
    BY <1>5 DEF Expire
  <2> QED
    BY <1>4, <2>1, <2>2, <2>3
<1>6. CASE ParkedHungUp
  <2>1. Close({cur}) /\ cur \in pending /\ backlog' \subseteq backlog
    BY <1>6 DEF ParkedHungUp
  <2>2. \A t \in Topics : subscriptions'[t] = subscriptions[t] \ {cur}
    BY <1>1, <1>6 DEF ParkedHungUp
  <2> QED
    BY <1>4, <2>1, <2>2
<1>7. CASE HungUp \/ HandleCorrupt \/ FlushFails
  <2>1. cur \in clients /\ DropClient(cur)
    BY <1>7 DEF HungUp, HandleCorrupt, FlushFails, AtFrame, IInv, Bookkeeping, LoopShape
  <2>2. Close({cur}) /\ backlog' \subseteq backlog
    BY <2>1 DEF DropClient
  <2>3. \A t \in Topics : subscriptions'[t] = subscriptions[t] \ {cur}
    BY <2>1 DEF DropClient, Unsubscribed
  <2> QED
    BY <1>4, <2>1, <2>2, <2>3
<1>8. CASE Stop
  <2>1. /\ backlog' = {} /\ \A fd \in Fds : fdOf'[fd] = NoConn
        /\ \A t \in Topics : subscriptions'[t] = {}
    BY <1>8 DEF Stop
  <2> QED
    BY <1>1, <2>1 DEF Tidy
<1> QED
  BY <1>2, <1>3, <1>5, <1>6, <1>7, <1>8

(* A tidy step ends the subscriptions of the connections it cuts off, and   *)
(* no others.                                                               *)
LEMMA TidyMembers ==
  ASSUME IInv, IInv', Traffic, Traffic', Tidy, NEW k \in Conns, Plain(k), NEW t \in Topics
  PROVE  Member(k, t)' <=> Member(k, t) /\ ~Lost(k)'
<1>1. /\ \A fd \in subscriptions[t] : fd \in clients /\ mode[fdOf[fd]] \in {"framed", "closed"}
      /\ \A fd \in subscriptions'[t] : mode'[fdOf'[fd]] \in {"framed", "closed"}
  BY DEF Traffic, SubscribersFramed, IInv, NothingInherited
<1>2. /\ \A fd \in subscriptions'[t] : fd \in subscriptions[t]
      /\ \A fd \in subscriptions[t] : fdOf'[fd] # NoConn => fd \in subscriptions'[t]
      /\ \A fd \in clients : fdOf'[fd] \in {fdOf[fd], NoConn}
      /\ \A fd \in Fds : fdOf'[fd] \in {fdOf[fd], NoConn} \cup backlog
      /\ k \in backlog' => k \in backlog \/ mode[k] = "idle"
  BY DEF Tidy
<1>3. k # NoConn /\ clients \subseteq Fds
  BY DEF IInv, TypeOK
<1>4. /\ mode[k] = "closed" => mode'[k] = "closed"
      /\ mode[k] = "framed" => mode'[k] \in {"framed", "closed"}
  <2>1. mode[k] = "closed" => mode'[k] = "closed"
    BY DEF Plain, Rests, Tells, Places, Skips, Misreads, Ignores, IsCut, Finishes, Opens,
           Leaves, Quiet, Opened
  <2> QED
    BY <2>1, ModeStep DEF Move
<1>5. Lost(k)' <=> mode'[k] = "closed" \/ (mode'[k] = "framed" /\ ~Connected(k)')
  BY DEF Lost
<1>6. /\ Member(k, t) <=> mode[k] # "closed" /\ \E fd \in subscriptions[t] : fdOf[fd] = k
      /\ Member(k, t)' <=> mode'[k] # "closed" /\ \E fd \in subscriptions'[t] : fdOf'[fd] = k
  BY DEF Member
<1>7. ASSUME Member(k, t)' PROVE Member(k, t) /\ ~Lost(k)'
  <2>1. PICK fd \in subscriptions'[t] : fdOf'[fd] = k
    BY <1>6, <1>7
  <2>2. fd \in subscriptions[t] /\ fd \in clients /\ fdOf[fd] = k
    BY <1>1, <1>2, <1>3, <2>1
  <2>3. Member(k, t)
    BY <1>4, <1>6, <1>7, <2>2
  <2>4. Connected(k)'
    BY <1>3, <2>1, <2>2 DEF Connected, Attached
  <2>5. mode'[k] = "framed"
    BY <1>1, <1>6, <1>7, <2>1
  <2> QED
    BY <1>5, <2>3, <2>4, <2>5
<1>8. ASSUME Member(k, t), ~Lost(k)' PROVE Member(k, t)'
  <2>1. PICK fd \in subscriptions[t] : fdOf[fd] = k
    BY <1>6, <1>8
  <2>2. fd \in Fds /\ k \notin backlog /\ \A g \in Fds : fdOf[g] = k => g = fd
    <3>1. fd \in Fds \ Free
      BY <1>1, <1>3, <2>1 DEF Free
    <3>2. \A g \in Fds : fdOf[g] = k => g \in Fds \ Free
      BY <1>3 DEF Free
    <3> QED
      BY <2>1, <3>1, <3>2 DEF IInv, Bookkeeping, DescriptorsAccounted
  <2>3. mode[k] = "framed" /\ mode'[k] = "framed" /\ Connected(k)'
    BY <1>1, <1>4, <1>5, <1>6, <1>8, <2>1
  <2>4. k \notin backlog'
    BY <1>2, <2>2, <2>3
  <2>5. PICK g \in Fds : fdOf'[g] = k
    BY <2>3, <2>4 DEF Connected, Attached
  <2>6. g = fd
    BY <1>2, <1>3, <2>2, <2>5
  <2>7. fd \in subscriptions'[t] /\ fdOf'[fd] = k
    BY <1>2, <1>3, <2>1, <2>5, <2>6
  <2> QED
    BY <1>6, <2>3, <2>7
<1> QED
  BY <1>7, <1>8

(* A plain and tidy step is a Cut, of no connection perhaps.                *)
LEMMA PlainCuts ==
  ASSUME IInv, IInv', Traffic, Traffic', Tidy, \A k \in Conns : Plain(k)
  PROVE  Bus!Cut
<1>1. Gone \subseteq Gone' /\ Gone' \subseteq Conns
  BY PlainDebts DEF Gone
<1>2. Members' = {m \in Members : m[1] \notin Gone'}
  <2>1. ASSUME NEW m \in Conns \X Topics
        PROVE  m \in Members' <=> m \in Members /\ m[1] \notin Gone'
    <3>1. m[1] \in Conns /\ m[2] \in Topics
      OBVIOUS
    <3>2. Member(m[1], m[2])' <=> Member(m[1], m[2]) /\ ~Lost(m[1])'
      BY <3>1, TidyMembers
    <3>3. m[1] \in Gone' <=> Lost(m[1])'
      BY <3>1 DEF Gone
    <3>4. m \in Members <=> Member(m[1], m[2])
      BY DEF Members
    <3>5. m \in Members' <=> Member(m[1], m[2])'
      BY DEF Members
    <3> QED
      BY <3>2, <3>3, <3>4, <3>5
  <2>2. Members \subseteq Conns \X Topics /\ Members' \subseteq Conns \X Topics
    BY DEF Members
  <2> QED
    BY <2>1, <2>2
<1>3. DOMAIN Debts' = Conns /\ \A k \in Conns : Debts[k] = Owed(k) /\ Debts'[k] = Owed(k)'
  BY DEF Debts
<1>4. ASSUME NEW k \in Conns
      PROVE  IF k \in Gone' THEN Bus!IsPrefixOf(Debts'[k], Debts[k])
                            ELSE Debts'[k] = Debts[k]
  <2>1. /\ Owed(k) \in Seq(Frames) /\ Owed(k)' \in Seq(Frames)
        /\ ~Lost(k)' => Owed(k)' = Owed(k)
        /\ \E x \in Seq(Frames) : Owed(k) = Cat(Owed(k)', x)
    BY PlainDebts
  <2>2. k \in Gone' <=> Lost(k)'
    BY DEF Gone
  <2>3. PICK x \in Seq(Frames) : Owed(k) = Cat(Owed(k)', x)
    BY <2>1
  <2>4. \A s, u \in Seq(Frames) :
           /\ Len(s) \in 0 .. Len(Cat(s, u))
           /\ SubSeq(Cat(s, u), 1, Len(s)) = s
           /\ SubSeq(Cat(s, u), Len(s) + 1, Len(Cat(s, u))) = u
    BY ONLY CatSplit
  <2>5. ASSUME NEW s \in Seq(Frames), NEW u \in Seq(Frames), u = Cat(s, x)
        PROVE  Bus!IsPrefixOf(s, u)
    <3>1. Len(s) \in 0 .. Len(u) /\ s = SubSeq(u, 1, Len(s))
      BY <2>3, <2>4, <2>5
    <3> QED
      BY ONLY <3>1 DEF Bus!IsPrefixOf
  <2>6. Bus!IsPrefixOf(Owed(k)', Owed(k))
    BY ONLY <2>1, <2>3, <2>5
  <2> QED
    BY <1>3, <2>1, <2>2, <2>6
<1> QED
  BY <1>1, <1>2, <1>3, <1>4 DEF Bus!Cut

-----------------------------------------------------------------------------
(* The steps that deliver and publish events change no subscription and     *)
(* lose nobody.                                                             *)
Steady == Members' = Members /\ Gone' = Gone

LEMMA SteadyRoster ==
  ASSUME UNCHANGED <<backlog, fdOf, mode, subscriptions>>
  PROVE  Steady
<1>1. \A k \in Conns, t \in Topics : Member(k, t)' <=> Member(k, t)
  BY DEF Member
<1>2. \A k \in Conns : Lost(k)' <=> Lost(k)
  BY DEF Lost, Connected, Attached
<1>3. \A m \in Conns \X Topics : Member(m[1], m[2])' <=> Member(m[1], m[2])
  BY <1>1
<1>4. Members' = Members
  BY <1>3 DEF Members
<1> QED
  BY <1>2, <1>4 DEF Steady, Gone

(* What reaches a client is taken off the front of what it is owed.         *)
LEMMA DeliverStep ==
  ASSUME IInv, IInv', Traffic, Traffic', NEW j \in Conns, Delivers(j)
  PROVE  Bus!Deliver(j) \/ UNCHANGED Bus!vars
<1>1. Members' = Members /\ Gone' = Gone
  BY SteadyRoster DEF Delivers, Steady
<1>2. \A k \in Conns : Account(k) /\ Account(k)'
  BY AccountNow, AccountLater
<1>3. ASSUME NEW k \in Conns \ {j} PROVE Owed(k)' = Owed(k)
  <2>1. Back(k)' = Back(k) /\ mode'[k] = mode[k]
    BY DEF Delivers, Rests, Kept
  <2> QED
    BY <1>2, <2>1 DEF Account
<1>4. PICK x \in Seq(Frames) : Owed(j) = Cat(x, Owed(j)')
  <2>1. PICK r \in Seq(Frames) : Back(j) = Cat(r, Back(j)') /\ mode'[j] = mode[j]
    BY DEF Delivers, Hears, Taken
  <2>2. Back(j)' \in Seq(Frames)
    BY <1>2 DEF Account
  <2>3. Only(Back(j), AnEvent) = Cat(Only(r, AnEvent), Only(Back(j)', AnEvent))
        /\ Only(r, AnEvent) \in Seq(Frames)
    BY <2>1, <2>2, EventsOf
  <2>4. <<>> \in Seq(Frames) /\ \A s \in Seq(Frames) : Cat(s, <<>>) = s /\ Cat(<<>>, s) = s
    BY ONLY CatEmpty
  <2> QED
    BY <1>2, <2>1, <2>3, <2>4 DEF Account
<1>5. Owed(j) \in Seq(Frames) /\ Owed(j)' \in Seq(Frames)
  BY <1>2 DEF Account
<1>6. Debts \in [Conns -> Seq(Frames)] /\ Debts' \in [Conns -> Seq(Frames)]
      /\ \A k \in Conns : Debts[k] = Owed(k) /\ Debts'[k] = Owed(k)'
  BY <1>2 DEF Debts, Account
<1>7. \A s, u \in Seq(Frames) :
         /\ Len(s) \in 0 .. Len(Cat(s, u))
         /\ SubSeq(Cat(s, u), 1, Len(s)) = s
         /\ SubSeq(Cat(s, u), Len(s) + 1, Len(Cat(s, u))) = u
  BY ONLY CatSplit
<1>8. CASE x = <<>>
  <2>1. \A s \in Seq(Frames) : Cat(s, <<>>) = s /\ Cat(<<>>, s) = s
    BY ONLY CatEmpty
  <2>2. Owed(j)' = Owed(j)
    BY <1>4, <1>5, <1>8, <2>1
  <2>3. \A k \in Conns : Debts'[k] = Debts[k]
    BY <1>3, <1>6, <2>2
  <2>4. Debts' = Debts
    BY <1>6, <2>3
  <2> QED
    BY <1>1, <2>4 DEF Bus!vars
<1>9. CASE x # <<>>
  <2>1. Len(x) \in Nat \ {0}
    BY <1>4, <1>9, LenProperties, EmptySeq
  <2>2. ASSUME NEW a \in Seq(Frames), NEW b \in Seq(Frames), a = Cat(x, b)
        PROVE  Len(x) \in 1 .. Len(a) /\ b = SubSeq(a, Len(x) + 1, Len(a))
    <3>1. Len(x) \in 0 .. Len(a) /\ b = SubSeq(a, Len(x) + 1, Len(a))
      BY <1>4, <1>7, <2>2
    <3>2. Len(a) \in Nat
      BY LenProperties
    <3> QED
      BY ONLY <2>1, <3>1, <3>2
  <2>3. Len(x) \in 1 .. Len(Owed(j)) /\ Owed(j)' = SubSeq(Owed(j), Len(x) + 1, Len(Owed(j)))
    BY ONLY <1>4, <1>5, <2>2
  <2>4. PICK n \in 1 .. Len(Debts[j]) : Debts'[j] = SubSeq(Debts[j], n + 1, Len(Debts[j]))
    BY <1>6, <2>3
  <2>5. \A k \in Conns \ {j} : Debts'[k] = Debts[k]
    BY <1>3, <1>6
  <2> DEFINE d == SubSeq(Debts[j], n + 1, Len(Debts[j]))
  <2>6. Debts' = [Debts EXCEPT ![j] = d]
    <3>1. Debts'[j] = d
      BY <2>4
    <3> HIDE DEF d
    <3> QED
      BY <1>6, <2>5, <3>1
  <2> QED
    BY <1>1, <2>6 DEF Bus!Deliver
<1> QED
  BY <1>8, <1>9

(* An event is queued behind what a subscriber is owed.                     *)
LEMMA QueuedDebts ==
  ASSUME IInv, IInv', Traffic, Traffic', NEW k \in Conns, mode'[k] = mode[k],
         NEW c, NEW z \in Seq(Frames), c = <<>> \/ (c \in Seq(Frames) /\ \E e \in EventFrames : c = One(e)),
         z = <<>> \/ (\E f \in Replies : z = One(f)), Back(k)' = Cat(Back(k), Cat(c, z))
  PROVE  Owed(k)' = IF mode[k] = "closed" THEN Owed(k) ELSE Cat(Owed(k), c)
<1>1. Account(k) /\ Account(k)'
  BY AccountNow, AccountLater
<1>2. /\ <<>> \in Seq(Frames)
      /\ \A s \in Seq(Frames) : Cat(s, <<>>) = s /\ Cat(<<>>, s) = s
  BY ONLY CatEmpty
<1>3. \A s, t \in Seq(Frames) : Cat(s, t) \in Seq(Frames)
  BY ONLY CatType
<1>4. c \in Seq(Frames) /\ Only(c, AnEvent) = c
  BY <1>2, EventsOf
<1>5. Only(z, AnEvent) = <<>>
  <2>1. \A f \in Replies : f \notin AnEvent
    BY DEF Replies, AnEvent, IsEvent
  <2> QED
    BY <2>1, EventsOf
<1>6. Only(Cat(c, z), AnEvent) = c
  BY <1>2, <1>4, <1>5, EventsOf
<1>7. Only(Back(k)', AnEvent) = Cat(Only(Back(k), AnEvent), c)
  <2>1. Cat(c, z) \in Seq(Frames) /\ Back(k) \in Seq(Frames)
    BY <1>1, <1>3, <1>4 DEF Account
  <2> QED
    BY <1>6, <2>1, EventsOf
<1> QED
  BY <1>1, <1>7 DEF Account

(* Exactly the subscribers of its topic get a copy of an event.             *)
LEMMA PublishStep ==
  ASSUME IInv, IInv', Traffic, Traffic', Steady,
         NEW e, e = NoFrame \/ e \in EventFrames,
         \A k \in Conns : Owed(k)' = IF mode[k] = "closed" THEN Owed(k)
                                                           ELSE Cat(Owed(k), Copy(k, e))
  PROVE  (\E f \in EventFrames : Bus!Publish(f)) \/ UNCHANGED Bus!vars
<1>1. Members' = Members /\ Gone' = Gone
  BY DEF Steady
<1>2. \A k \in Conns : Owed(k) \in Seq(Frames) /\ Owed(k)' \in Seq(Frames)
  BY AccountNow, AccountLater DEF Account
<1>3. Debts \in [Conns -> Seq(Frames)] /\ Debts' \in [Conns -> Seq(Frames)]
      /\ \A k \in Conns : Debts[k] = Owed(k) /\ Debts'[k] = Owed(k)'
  BY <1>2 DEF Debts
<1>4. CASE e = NoFrame
  <2>1. ASSUME NEW k \in Conns PROVE Owed(k)' = Owed(k)
    <3>1. Copy(k, e) = <<>>
      BY <1>4, CopyTypes
    <3>2. \A s \in Seq(Frames) : Cat(s, <<>>) = s /\ Cat(<<>>, s) = s
      BY ONLY CatEmpty
    <3> QED
      BY <1>2, <3>1, <3>2
  <2>2. \A k \in Conns : Debts'[k] = Debts[k]
    BY <1>3, <2>1
  <2>3. Debts' = Debts
    BY <1>3, <2>2
  <2> QED
    BY <1>1, <2>3 DEF Bus!vars
<1>5. CASE e # NoFrame
  <2>1. e \in EventFrames /\ e \in Frames /\ e.topic \in Topics
    BY <1>5, Kinds
  <2>2. Recipients(e) = subscriptions[e.topic]
    BY <1>5, <2>1 DEF Recipients, IInv, NothingInherited
  <2>3. ASSUME NEW k \in Conns
        PROVE  Debts'[k] = IF <<k, e.topic>> \in Members THEN Append(Debts[k], e)
                                                         ELSE Debts[k]
    <3>1. <<k, e.topic>> \in Members
            <=> mode[k] # "closed" /\ \E fd \in Recipients(e) : fdOf[fd] = k
      BY <2>1, <2>2 DEF Members, Member
    <3>2. Copy(k, e) = IF \E fd \in Recipients(e) : fdOf[fd] = k THEN One(e) ELSE <<>>
      BY DEF Copy
    <3>3. \A s \in Seq(Frames), f \in Frames :
             One(f) \in Seq(Frames) /\ Append(s, f) = Cat(s, One(f))
      BY ONLY CatOne
    <3>4. \A s \in Seq(Frames) : Cat(s, <<>>) = s /\ Cat(<<>>, s) = s
      BY ONLY CatEmpty
    <3>5. Append(Owed(k), e) = Cat(Owed(k), One(e)) /\ Cat(Owed(k), <<>>) = Owed(k)
      BY <1>2, <2>1, <3>3, <3>4
    <3> QED
      BY <1>3, <3>1, <3>2, <3>5
  <2>4. Debts' = [k \in Conns |-> IF <<k, e.topic>> \in Members
                                  THEN Append(Debts[k], e) ELSE Debts[k]]
    BY <1>3, <2>3
  <2> QED
    BY <1>1, <2>1, <2>4 DEF Bus!Publish
<1> QED
  BY <1>4, <1>5

(* A step that queues the copies of an event, behind them an answer or not. *)
LEMMA CopiesPublish ==
  ASSUME IInv, IInv', Traffic, Traffic', Steady, NEW e, e = NoFrame \/ e \in EventFrames,
         \A k \in Conns :
           /\ mode'[k] = mode[k]
           /\ \E z \in Seq(Frames) : /\ z = <<>> \/ \E f \in Replies : z = One(f)
                                     /\ Back(k)' = Cat(Back(k), Cat(Copy(k, e), z))
  PROVE  (\E f \in EventFrames : Bus!Publish(f)) \/ UNCHANGED Bus!vars
<1>1. e = NoFrame \/ e \in Frames
  BY Kinds
<1>2. ASSUME NEW k \in Conns
      PROVE  Owed(k)' = IF mode[k] = "closed" THEN Owed(k) ELSE Cat(Owed(k), Copy(k, e))
  <2>1. PICK z \in Seq(Frames) : /\ z = <<>> \/ \E f \in Replies : z = One(f)
                                 /\ Back(k)' = Cat(Back(k), Cat(Copy(k, e), z))
    OBVIOUS
  <2>2. /\ Copy(k, e) \in Seq(Frames)
        /\ Copy(k, e) # <<>> => Copy(k, e) = One(e)
        /\ e = NoFrame => Copy(k, e) = <<>>
    BY <1>1, CopyTypes
  <2>3. \/ Copy(k, e) = <<>>
        \/ (Copy(k, e) \in Seq(Frames) /\ \E f \in EventFrames : Copy(k, e) = One(f))
    BY <2>2
  <2> QED
    BY <2>1, <2>3, QueuedDebts
<1> QED
  BY <1>2, PublishStep

(* publish, and the requests and events of which it is the handling.        *)
LEMMA PublishRefined ==
  ASSUME IInv, IInv', Traffic, Traffic', Publish \/ HandleRequest \/ HandleEvent
  PROVE  (\E f \in EventFrames : Bus!Publish(f)) \/ UNCHANGED Bus!vars
<1>1. /\ <<>> \in Seq(Frames)
      /\ \A s \in Seq(Frames) : Cat(s, <<>>) = s /\ Cat(<<>>, s) = s
  BY ONLY CatEmpty
<1>2. CASE Publish
  <2>1. PICK e \in NewEvents : out' = Published(e) /\ Numbered(e)
    BY <1>2 DEF Publish
  <2>2. UNCHANGED <<backlog, fdOf, up, down, cliBuf, srvBuf, mode, subscriptions>>
    BY <1>2 DEF Publish, kernel, client
  <2>3. e = NoFrame \/ e \in EventFrames
    BY <2>1, NewEventFrames DEF Traffic
  <2>4. \A k \in Conns : Queued(k, Copy(k, e)) /\ Copy(k, e) \in Seq(Frames)
    BY <2>1, <2>2, <2>3, Kinds, PublishPaths
  <2>5. \A k \in Conns : mode'[k] = mode[k] /\ Back(k)' = Cat(Back(k), Cat(Copy(k, e), <<>>))
    BY <1>1, <2>2, <2>4 DEF Queued
  <2>6. Steady
    BY <2>2, SteadyRoster
  <2> QED
    BY <1>1, <2>3, <2>5, <2>6, CopiesPublish
<1>3. CASE HandleRequest
  <2>1. PICK e \in NewEvents :
          /\ Numbered(e)
          /\ \A k \in Conns :
               IF k = fdOf[cur]
               THEN Served(k, Cat(Copy(k, e), One(Response(frame.id))))
               ELSE Queued(k, Copy(k, e))
    BY <1>3, RequestPaths
  <2>2. e = NoFrame \/ e \in EventFrames
    BY <2>1, NewEventFrames DEF Traffic
  <2>3. UNCHANGED <<backlog, fdOf, mode, subscriptions>>
    BY <1>3 DEF HandleRequest, TakeFrame, kernel, client
  <2>4. frame \in Frames /\ Response(frame.id) \in Replies
    BY <1>3, RequestPaths, FrameIds, Kinds
  <2>5. One(Response(frame.id)) \in Seq(Frames)
    <3>1. \A x : One(x) \in Seq(Frames) <=> x \in Frames
      BY ONLY OneOf
    <3> QED
      BY <2>4, <3>1, Kinds
  <2>6. ASSUME NEW k \in Conns
        PROVE  /\ mode'[k] = mode[k]
               /\ \E z \in Seq(Frames) : /\ z = <<>> \/ \E f \in Replies : z = One(f)
                                         /\ Back(k)' = Cat(Back(k), Cat(Copy(k, e), z))
    <3>1. CASE k = fdOf[cur]
      <4>1. Back(k)' = Cat(Back(k), Cat(Copy(k, e), One(Response(frame.id))))
        BY <2>1, <3>1 DEF Served
      <4> QED
        BY <2>3, <2>4, <2>5, <4>1
    <3>2. CASE k # fdOf[cur]
      <4>1. Back(k)' = Cat(Back(k), Copy(k, e)) /\ Copy(k, e) \in Seq(Frames)
        BY <2>1, <2>2, <3>2, CopyTypes, Kinds DEF Queued
      <4> QED
        BY <1>1, <2>3, <4>1
    <3> QED
      BY <3>1, <3>2
  <2>7. Steady
    BY <2>3, SteadyRoster
  <2> QED
    BY <2>2, <2>6, <2>7, CopiesPublish
<1>4. CASE HandleEvent
  <2>1. /\ frame.type = "event" /\ fdOf[cur] \in Conns
        /\ \A k \in Conns : IF k = fdOf[cur] THEN Served(k, Copy(k, frame))
                             ELSE Queued(k, Copy(k, frame))
    BY <1>4, EventPaths
  <2>2. frame \in EventFrames
    <3>1. pc = "frames" /\ frame.whole
      BY <1>4 DEF HandleEvent, AtFrame
    <3>2. frame \in ToServer(mode[fdOf[cur]])
      BY <3>1, FrameSort DEF Traffic
    <3> QED
      BY <2>1, <3>1, <3>2 DEF ToServer, FromFramed, CutEvents, Asks, Lines
  <2>3. UNCHANGED <<backlog, fdOf, mode, subscriptions>>
    BY <1>4 DEF HandleEvent, TakeFrame, kernel, client
  <2>4. \A k \in Conns : Back(k)' = Cat(Back(k), Copy(k, frame)) /\ Copy(k, frame) \in Seq(Frames)
    BY <2>1, <2>2, CopyTypes, Kinds DEF Served, Queued
  <2>5. \A k \in Conns : mode'[k] = mode[k]
                         /\ Back(k)' = Cat(Back(k), Cat(Copy(k, frame), <<>>))
    BY <1>1, <2>3, <2>4
  <2>6. Steady
    BY <2>3, SteadyRoster
  <2> QED
    BY <1>1, <2>2, <2>5, <2>6, CopiesPublish
<1> QED
  BY <1>2, <1>3, <1>4

(* A command of a legacy connection, whose end is no loss to the bus.       *)
LEMMA LegacyRefined ==
  ASSUME IInv, IInv', Traffic, Traffic', ParkedLegacy
  PROVE  (\E f \in EventFrames : Bus!Publish(f)) \/ UNCHANGED Bus!vars
<1>1. PICK j \in Conns : j = fdOf[cur]
  BY DEF ParkedLegacy, IInv, TypeOK, Bookkeeping, DescriptorsAccounted, Free
<1>2. /\ IsLine(j)
      /\ \E r \in Seq(Frames) : /\ Back(j)' = Cat(Back(j), r)
                                /\ r = <<>> \/ r = One(Response(0))
      /\ \E e \in NewEvents :
           /\ Numbered(e) /\ Copy(j, e) = <<>>
           /\ \A k \in Conns \ {j} : /\ Queued(k, Copy(k, e))
                                     /\ Connected(k)' <=> Connected(k)
  BY <1>1, LegacyPaths
<1>3. PICK e \in NewEvents :
        /\ Numbered(e) /\ Copy(j, e) = <<>>
        /\ \A k \in Conns \ {j} : /\ Queued(k, Copy(k, e))
                                  /\ Connected(k)' <=> Connected(k)
  BY <1>2
<1>4. e = NoFrame \/ e \in EventFrames
  BY <1>3, NewEventFrames DEF Traffic
<1>5. mode' = mode /\ subscriptions' = subscriptions /\ cur \in pending /\ Close({cur})
  BY DEF ParkedLegacy, client
<1>6. mode[j] \in {"legacy", "closed"}
  BY <1>2, LineSender
<1>7. Steady
  <2>1. /\ \A t \in Topics : \A fd \in subscriptions[t] : fd # cur /\ fd \in Fds
        /\ \A fd \in Fds \ {cur} : fdOf'[fd] = fdOf[fd]
    BY <1>5 DEF IInv, TypeOK, NothingInherited, Bookkeeping, DescriptorsAccounted, Close
  <2>2. \A k \in Conns, t \in Topics : Member(k, t)' <=> Member(k, t)
    BY <1>5, <2>1 DEF Member
  <2>3. \A m \in Conns \X Topics : Member(m[1], m[2])' <=> Member(m[1], m[2])
    BY <2>2
  <2>4. Members' = Members
    BY <2>3 DEF Members
  <2>5. \A k \in Conns : Lost(k)' <=> Lost(k)
    BY <1>3, <1>5, <1>6 DEF Lost
  <2> QED
    BY <2>4, <2>5 DEF Steady, Gone
<1>8. /\ <<>> \in Seq(Frames)
      /\ \A s \in Seq(Frames) : Cat(s, <<>>) = s /\ Cat(<<>>, s) = s
  BY ONLY CatEmpty
<1>9. ASSUME NEW k \in Conns
      PROVE  /\ mode'[k] = mode[k]
             /\ \E z \in Seq(Frames) : /\ z = <<>> \/ \E f \in Replies : z = One(f)
                                       /\ Back(k)' = Cat(Back(k), Cat(Copy(k, e), z))
  <2>1. CASE k = j
    <3>1. PICK r \in Seq(Frames) : /\ Back(j)' = Cat(Back(j), r)
                                   /\ r = <<>> \/ r = One(Response(0))
      BY <1>2
    <3>2. Cat(Copy(j, e), r) = r /\ Response(0) \in Replies
      BY <1>3, <1>8, Kinds
    <3> QED
      BY <1>5, <2>1, <3>1, <3>2
  <2>2. CASE k # j
    <3>1. Back(k)' = Cat(Back(k), Copy(k, e)) /\ Copy(k, e) \in Seq(Frames)
      BY <1>3, <1>4, <2>2, CopyTypes, Kinds DEF Queued
    <3> QED
      BY <1>5, <1>8, <3>1
  <2> QED
    BY <2>1, <2>2
<1> QED
  BY <1>4, <1>7, <1>9, CopiesPublish

(* A subscription is made or ended; the answer to it is no event.           *)
LEMMA SubscribeRefined ==
  ASSUME IInv, IInv', Traffic, Traffic', HandleSubscribe \/ HandleUnsubscribe
  PROVE  (\E k \in Conns : Bus!Join(k) \/ Bus!Leave(k)) \/ UNCHANGED Bus!vars
<1>1. pc = "frames" /\ TakeFrame /\ Acknowledge
  BY DEF HandleSubscribe, HandleUnsubscribe, AtFrame
<1>2. /\ frame \in Frames
      /\ fdOf[cur] \in Conns /\ Attached(fdOf[cur])
      /\ \A k \in Conns : IF k = fdOf[cur] THEN Served(k, One(Ack(frame.id)))
                           ELSE Kept(k)
  BY <1>1, AckPaths
<1>3. PICK j \in Conns : j = fdOf[cur]
  BY <1>2
<1>4. UNCHANGED <<backlog, fdOf, mode>>
  BY <1>1 DEF TakeFrame, kernel, client
<1>5. Gone' = Gone
  <2>1. \A k \in Conns : Lost(k)' <=> Lost(k)
    BY <1>4 DEF Lost, Connected, Attached
  <2> QED
    BY <2>1 DEF Gone
<1>6. Debts' = Debts
  <2>1. /\ <<>> \in Seq(Frames)
        /\ \A s \in Seq(Frames) : Cat(s, <<>>) = s /\ Cat(<<>>, s) = s
    BY ONLY CatEmpty
  <2>2. \A x : One(x) \in Seq(Frames) <=> x \in Frames
    BY ONLY OneOf
  <2>3. Ack(frame.id) \in Replies /\ One(Ack(frame.id)) \in Seq(Frames)
    BY <1>2, <2>2, FrameIds, Kinds
  <2>4. \A k \in Conns : Account(k) /\ Account(k)'
    BY AccountNow, AccountLater
  <2>5. Owed(j)' = Owed(j)
    <3>1. Back(j)' = Cat(Back(j), Cat(<<>>, One(Ack(frame.id))))
      BY <1>2, <1>3, <2>1, <2>3 DEF Served
    <3>2. Owed(j)' = IF mode[j] = "closed" THEN Owed(j) ELSE Cat(Owed(j), <<>>)
      BY <1>4, <2>1, <2>3, <3>1, QueuedDebts
    <3>3. Owed(j) \in Seq(Frames)
      BY <2>4 DEF Account
    <3> QED
      BY <2>1, <3>2, <3>3
  <2>6. ASSUME NEW k \in Conns PROVE Owed(k)' = Owed(k)
    <3>1. k # j => Back(k)' = Back(k)
      BY <1>2, <1>3 DEF Kept
    <3> QED
      BY <1>4, <2>4, <2>5, <3>1 DEF Account
  <2> QED
    BY <2>6 DEF Debts
<1>7. cur \in Fds /\ \A fd \in Fds : fdOf[fd] = j => fd = cur
  BY <1>1, <1>3, FrameSort DEF Traffic, IInv, Bookkeeping, DescriptorsAccounted, Free
<1>8. subscriptions \in [Topics -> SUBSET Fds]
  BY DEF IInv, TypeOK
<1> DEFINE o == frame.topic
<1>9. \A k \in Conns, t \in Topics :
        /\ Member(k, t) <=> mode[k] # "closed" /\ \E fd \in subscriptions[t] : fdOf[fd] = k
        /\ Member(k, t)' <=> mode[k] # "closed" /\ \E fd \in subscriptions'[t] : fdOf[fd] = k
  BY <1>4 DEF Member
<1>10. /\ Members \subseteq Conns \X Topics /\ Members' \subseteq Conns \X Topics
       /\ \A k \in Conns, t \in Topics : /\ <<k, t>> \in Members <=> Member(k, t)
                                         /\ <<k, t>> \in Members' <=> Member(k, t)'
  BY DEF Members
<1>11. CASE HandleSubscribe
  <2>1. \A t \in Topics :
          subscriptions'[t] = IF t = o THEN subscriptions[t] \cup {cur} ELSE subscriptions[t]
    BY <1>8, <1>11 DEF HandleSubscribe
  <2>2. ASSUME NEW k \in Conns, NEW t \in Topics
        PROVE  Member(k, t)' <=> Member(k, t) \/ (t = o /\ k = j /\ mode[j] # "closed")
    <3>1. (\E fd \in subscriptions'[t] : fdOf[fd] = k)
            <=> (\E fd \in subscriptions[t] : fdOf[fd] = k) \/ (t = o /\ k = j)
      <4>1. CASE t = o
        BY <1>3, <2>1, <4>1
      <4>2. CASE t # o
        BY <2>1, <4>2
      <4> QED
        BY <4>1, <4>2
    <3> QED
      BY <1>9, <3>1
  <2>3. CASE o \in Topics /\ mode[j] # "closed"
    <3>1. Members' = Members \cup {<<j, o>>}
      BY <1>10, <2>2, <2>3
    <3>2. j \notin Gone
      BY <1>2, <1>3, <2>3 DEF Gone, Lost, Connected
    <3> QED
      BY <1>5, <1>6, <2>3, <3>1, <3>2 DEF Bus!Join
  <2>4. CASE ~(o \in Topics /\ mode[j] # "closed")
    <3>1. Members' = Members
      BY <1>10, <2>2, <2>4
    <3> QED
      BY <1>5, <1>6, <3>1 DEF Bus!vars
  <2> QED
    BY <2>3, <2>4
<1>12. CASE HandleUnsubscribe
  <2>1. \A t \in Topics :
          subscriptions'[t] = IF t = o THEN subscriptions[t] \ {cur} ELSE subscriptions[t]
    BY <1>8, <1>12 DEF HandleUnsubscribe
  <2>2. ASSUME NEW k \in Conns, NEW t \in Topics
        PROVE  Member(k, t)' <=> Member(k, t) /\ ~(t = o /\ k = j)
    <3>1. (\E fd \in subscriptions'[t] : fdOf[fd] = k)
            <=> (\E fd \in subscriptions[t] : fdOf[fd] = k) /\ ~(t = o /\ k = j)
      <4>1. CASE t = o
        <5>1. subscriptions'[t] = subscriptions[t] \ {cur} /\ subscriptions[t] \subseteq Fds
          BY <1>8, <2>1, <4>1
        <5> QED
          BY <1>3, <1>7, <4>1, <5>1
      <4>2. CASE t # o
        BY <2>1, <4>2
      <4> QED
        BY <4>1, <4>2
    <3> QED
      BY <1>9, <3>1
  <2>3. CASE o \in Topics
    <3>1. Members' = Members \ {<<j, o>>}
      BY <1>10, <2>2, <2>3
    <3> QED
      BY <1>5, <1>6, <2>3, <3>1 DEF Bus!Leave
  <2>4. CASE o \notin Topics
    <3>1. Members' = Members
      BY <1>10, <2>2, <2>4
    <3> QED
      BY <1>5, <1>6, <3>1 DEF Bus!vars
  <2> QED
    BY <2>3, <2>4
<1> QED
  BY <1>11, <1>12

-----------------------------------------------------------------------------
(* Every step of the bus is a step of publish/subscribe or changes nothing  *)
(* of it.                                                                   *)

LEMMA BusInit == Init => Bus!Init
<1> SUFFICES ASSUME Init PROVE Bus!Init
  OBVIOUS
<1>1. \A k \in Conns : mode[k] = "idle"
  BY DEF Init
<1>2. Gone = {}
  BY <1>1 DEF Gone, Lost
<1>3. Members = {}
  BY DEF Init, Members, Member
<1>4. \A k \in Conns : Owed(k) = <<>>
  BY <1>1, InitInv, InitTraffic, AccountNow DEF Account
<1>5. Debts = [k \in Conns |-> <<>>]
  BY <1>4 DEF Debts
<1> QED
  BY <1>2, <1>3, <1>5 DEF Bus!Init

LEMMA BusStep ==
  ASSUME IInv, IInv', Traffic, Traffic', [Next]_vars
  PROVE  [Bus!Next]_(Bus!vars)
<1>1. Tidy /\ (\A k \in Conns : Plain(k)) => Bus!Next
  BY PlainCuts DEF Bus!Next
<1>2. CASE UNCHANGED vars
  <2>1. UNCHANGED <<backlog, fdOf, up, down, cliBuf, srvBuf, out, client>>
    BY <1>2 DEF vars, kernel, client, bus
  <2>2. \A k \in Conns : Plain(k)
    BY <2>1, StillPaths, ServerStep, Bystander
  <2> QED
    BY <1>1, <1>2, <2>2, TidySteps
<1>3. CASE Poll \/ AcceptEnds \/ Ignore \/ NothingToRead \/ ParkedFramed
           \/ FrameWaits \/ Accept \/ Receive \/ Flush
  BY <1>1, <1>3, StillMoves, TidySteps
<1>4. CASE \/ \E fd \in Fds : Expire(fd)
           \/ ParkedHungUp \/ HungUp \/ HandleCorrupt \/ FlushFails \/ Stop
  BY <1>1, <1>4, CloseMoves, TidySteps
<1>5. CASE HandleUnknown \/ FrameCompletes
  BY <1>1, <1>5, StrayMoves, TidySteps
<1>6. CASE ParkedLegacy
  BY <1>6, LegacyRefined DEF Bus!Next
<1>7. CASE Publish \/ HandleRequest \/ HandleEvent
  BY <1>7, PublishRefined DEF Bus!Next
<1>8. CASE HandleSubscribe \/ HandleUnsubscribe
  BY <1>8, SubscribeRefined DEF Bus!Next
<1>9. ASSUME NEW j \in Conns, Client(j) PROVE [Bus!Next]_(Bus!vars)
  <2>1. (\A k \in Conns : Plain(k)) \/ Delivers(j)
    BY <1>9, ClientMoves
  <2>2. Tidy
    BY <1>9, TidyClient
  <2>3. Delivers(j) => Bus!Deliver(j) \/ UNCHANGED Bus!vars
    BY DeliverStep
  <2> QED
    BY <1>1, <2>1, <2>2, <2>3 DEF Bus!Next
<1> QED
  BY <1>2, <1>3, <1>4, <1>5, <1>6, <1>7, <1>8, <1>9 DEF Next, Loop, Parked, Handle

(* The bus implements publish/subscribe, for every number of connections,   *)
(* descriptors, topics and events and every socket buffer size: an event    *)
(* reaches exactly the connections subscribed to its topic when it is       *)
(* published, once and in the order of publication; a connection that is    *)
(* cut off may lose the newest of them but receives no other.               *)
THEOREM BusImplementsPubSub == Spec => ImplementsPubSub
<1>1. Delivery /\ Delivery' /\ [Next]_vars => [Bus!Next]_(Bus!vars)
  BY BusStep DEF Delivery
<1> QED
  BY <1>1, BusInit, DeliveryInvariant, PTL DEF Spec, ImplementsPubSub, Bus!Spec
=============================================================================
