------------------------------- MODULE PubSub -------------------------------
(***************************************************************************)
(* What the IPC bus promises its framed clients, without sockets, queues   *)
(* or descriptors: an event reaches exactly the connections subscribed to  *)
(* its topic when it is published, each one receives its events once and   *)
(* in the order they were published, and a connection that is lost may     *)
(* lose the newest of the events it is owed but receives nothing new.      *)
(***************************************************************************)
EXTENDS Naturals, Sequences

CONSTANTS Conns,   \* the connections
          Topics,  \* the topics
          Events   \* the events, records with a field "topic"

VARIABLES member,  \* <<connection, topic>>: who is subscribed to what
          owed,    \* per connection, the events published and not delivered
          gone     \* the connections that are lost

vars == <<member, owed, gone>>

IsPrefixOf(s, t) == \E n \in 0 .. Len(t) : s = SubSeq(t, 1, n)

Init ==
  /\ member = {}
  /\ owed = [k \in Conns |-> <<>>]
  /\ gone = {}

Join(k) ==
  /\ k \notin gone
  /\ \E t \in Topics : member' = member \cup {<<k, t>>}
  /\ UNCHANGED <<owed, gone>>

Leave(k) ==
  /\ \E t \in Topics : member' = member \ {<<k, t>>}
  /\ UNCHANGED <<owed, gone>>

(* Every subscriber of its topic is owed the event, last.                   *)
Publish(e) ==
  /\ owed' = [k \in Conns |-> IF <<k, e.topic>> \in member
                              THEN Append(owed[k], e) ELSE owed[k]]
  /\ UNCHANGED <<member, gone>>

(* A connection takes the oldest of its events, one or several.             *)
Deliver(k) ==
  /\ \E n \in 1 .. Len(owed[k]) :
       owed' = [owed EXCEPT ![k] = SubSeq(@, n + 1, Len(@))]
  /\ UNCHANGED <<member, gone>>

(* Connections are lost, with their subscriptions; of what they are owed    *)
(* only the oldest part may still reach them.                               *)
Cut ==
  /\ gone \subseteq gone' /\ gone' \subseteq Conns
  /\ member' = {m \in member : m[1] \notin gone'}
  /\ DOMAIN owed' = Conns
  /\ \A k \in Conns : IF k \in gone' THEN IsPrefixOf(owed'[k], owed[k])
                                     ELSE owed'[k] = owed[k]

Next ==
  \/ Cut
  \/ \E k \in Conns : Join(k) \/ Leave(k) \/ Deliver(k)
  \/ \E e \in Events : Publish(e)

Spec == Init /\ [][Next]_vars
=============================================================================
