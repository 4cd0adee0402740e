--------------------------- MODULE Screens_proofs ---------------------------
(***************************************************************************)
(* The safety properties of Screens, and that it implements ScreenFeed,    *)
(* for any viewers, buffers, websockets and length of output.              *)
(***************************************************************************)
EXTENDS Screens, SequenceTheorems, TLAPS

-----------------------------------------------------------------------------
(* Streams that skip and repeat nothing.                                   *)

\* What m does to a terminal that shows p, in its turn: the next piece, or the
\* first repaint.
Fits(p, m, n) ==
  /\ m.at \in 0..n
  /\ \/ m.kind = "repaint" /\ p = Blank
     \/ m.kind = "piece" /\ p # Blank /\ m.at = p + 1

\* ch brings a terminal that shows p forward, message by message, within n.
InTurn(p, ch, n) ==
  \A i \in 1..Len(ch) : Fits(IF i = 1 THEN p ELSE ch[i - 1].at, ch[i], n)

\* What a terminal that shows p shows in the end.
EndOf(p, ch) == IF ch = <<>> THEN p ELSE ch[Len(ch)].at

Drawn(n) == (0..n) \cup {Blank}

-----------------------------------------------------------------------------
(* The inductive invariant.                                                *)

HostTypes ==
  /\ output \in 0..MaxOutput
  /\ push \in [stage : {"down", "greeted", "sending"}, on : 0..Dials]
  /\ Bounded(feed)
  /\ wire \in [Sockets -> Seq(Message)]
Stages == {"away", "found", "joined", "streaming"}
WatchTypes ==
  /\ watch \in [Viewers -> [stage : Stages, live : Sockets \cup {None},
                            backlog : Painted, late : BOOLEAN]]
  /\ sub \in [Viewers -> Channels] /\ \A v \in Viewers : Len(sub[v].ch) <= Buffer
  /\ shown \in [Viewers -> Painted]
HubTypes ==
  /\ reader \in [Sockets -> {"none", "accepted", "reading", "ended"}]
  /\ content \in [Sockets -> Painted]
  /\ subs \in [Sockets -> SUBSET Viewers]
  /\ current \in Sockets \cup {None}
Types == HostTypes /\ HubTypes /\ WatchTypes

\* A websocket that is not dialled yet has nothing in it, nor one that push has
\* only said hello on.
Unused ==
  \A s \in Sockets :
    /\ s > push.on => reader[s] = "none"
    /\ s > push.on \/ (s = push.on /\ push.stage = "greeted" /\ reader[s] # "ended")
         => wire[s] = <<>> /\ content[s] = Blank

\* From the session on the hub back to the agent, the messages on the way are
\* in turn, and the last is the agent's last, while push is not behind.
Sent(s) == EndOf(content[s], wire[s])
Fed ==
  /\ \A s \in Sockets :
       /\ content[s] \in Drawn(output)
       /\ reader[s] # "ended" => InTurn(content[s], wire[s], output)
  /\ push.stage # "down" => push.on \in Sockets
  /\ push.stage = "sending" /\ reader[push.on] # "ended" =>
       /\ InTurn(Sent(push.on), feed.ch, output)
       /\ Sent(push.on) # Blank
       /\ ~feed.closed => EndOf(Sent(push.on), feed.ch) = output

\* So they are from what a viewer's terminal shows, or is about to, to what the
\* session has drawn that the viewer is subscribed to.
Holds(v) == IF watch[v].stage = "joined" THEN watch[v].backlog ELSE shown[v]
Watching(v) == watch[v].stage \in {"joined", "streaming"}
Shows ==
  \A v \in Viewers :
    /\ shown[v] \in Drawn(output) /\ Holds(v) \in Drawn(output)
    /\ watch[v].stage # "streaming" => shown[v] = Blank
    /\ watch[v].stage # "away" => watch[v].live \in Sockets
    /\ Watching(v) => InTurn(Holds(v), sub[v].ch, output)
Subscribed ==
  \A s \in Sockets : \A v \in subs[s] :
    /\ Watching(v) /\ watch[v].live = s /\ ~sub[v].closed
    /\ EndOf(Holds(v), sub[v].ch) = content[s]

IInv == Types /\ Unused /\ Fed /\ Shows /\ Subscribed /\ RegisteredIsFed

-----------------------------------------------------------------------------
(* Lemmas on streams.                                                      *)

LEMMA Constants ==
  /\ Dials \in Nat /\ Dials >= 1 /\ MaxOutput \in Nat /\ Buffer \in Nat /\ Buffer >= 1
  /\ Blank \notin Nat /\ Garbled \notin Nat /\ Garbled # Blank /\ None \notin Sockets
  BY BoundsAssumption, TokensAssumption DEF Sockets

\* A message in its turn is drawn.
LEMMA FitsIsDrawn ==
  ASSUME NEW n \in Nat, NEW p \in Drawn(n), NEW m, Fits(p, m, n)
  PROVE  Draw(p, m) = m.at /\ m.at \in Drawn(n) /\ m.at # Blank
  BY Constants DEF Fits, Draw, Drawn

LEMMA EndIsDrawn ==
  ASSUME NEW n \in Nat, NEW p \in Drawn(n), NEW ch \in Seq(Message), InTurn(p, ch, n)
  PROVE  /\ EndOf(p, ch) \in Drawn(n)
         /\ p # Blank => EndOf(p, ch) # Blank
  <1>1. CASE ch = <<>>
    BY <1>1 DEF EndOf
  <1>2. CASE ch # <<>>
    <2>1. Len(ch) \in 1..Len(ch)
      BY <1>2
    <2>2. ch[Len(ch)].at \in 0..n
      BY <2>1 DEF InTurn, Fits
    <2> QED BY <1>2, <2>2, Constants DEF EndOf, Drawn
  <1> QED BY <1>1, <1>2

LEMMA EmptyInTurn ==
  ASSUME NEW p, NEW n
  PROVE  InTurn(p, <<>>, n) /\ EndOf(p, <<>>) = p
  BY DEF InTurn, EndOf

LEMMA OneInTurn ==
  ASSUME NEW n \in Nat, NEW p, NEW m \in Message, Fits(p, m, n)
  PROVE  InTurn(p, Append(<<>>, m), n) /\ EndOf(p, Append(<<>>, m)) = m.at
  <1> DEFINE c == Append(<<>>, m)
  <1>1. c = <<m>> /\ Len(c) = 1 /\ c[1] = m /\ c # <<>>
    OBVIOUS
  <1> QED BY <1>1 DEF InTurn, EndOf

\* The message that fits the end of a stream prolongs it.
LEMMA AppendInTurn ==
  ASSUME NEW n \in Nat, NEW p, NEW ch \in Seq(Message), NEW m \in Message,
         InTurn(p, ch, n), Fits(EndOf(p, ch), m, n)
  PROVE  InTurn(p, Append(ch, m), n) /\ EndOf(p, Append(ch, m)) = m.at
  <1> DEFINE c == Append(ch, m)
  <1>1. /\ Len(c) = Len(ch) + 1 /\ c[Len(c)] = m /\ c # <<>>
        /\ \A i \in 1..Len(ch) : c[i] = ch[i]
    OBVIOUS
  <1>2. EndOf(p, c) = m.at
    BY <1>1 DEF EndOf
  <1>3. ASSUME NEW i \in 1..Len(c)
        PROVE  Fits(IF i = 1 THEN p ELSE c[i - 1].at, c[i], n)
    <2>1. CASE i \in 1..Len(ch)
      <3>1. i = 1 \/ i - 1 \in 1..Len(ch)
        BY <2>1
      <3>2. (IF i = 1 THEN p ELSE c[i - 1].at) = (IF i = 1 THEN p ELSE ch[i - 1].at)
        BY <1>1, <3>1
      <3> QED BY <1>1, <2>1, <3>2 DEF InTurn
    <2>2. CASE i = Len(ch) + 1
      <3>1. (IF i = 1 THEN p ELSE c[i - 1].at) = EndOf(p, ch)
        <4>1. CASE ch = <<>>
          BY <2>2, <4>1 DEF EndOf
        <4>2. CASE ch # <<>>
          <5>1. Len(ch) \in 1..Len(ch) /\ i # 1 /\ i - 1 = Len(ch)
            BY <2>2, <4>2
          <5> QED BY <1>1, <4>2, <5>1 DEF EndOf
        <4> QED BY <4>1, <4>2
      <3>2. c[i] = m
        BY <1>1, <2>2
      <3> QED BY <3>1, <3>2
    <2> QED BY <1>1, <2>1, <2>2
  <1> QED BY <1>2, <1>3 DEF InTurn

\* Drawing the first message leaves the rest in turn.
LEMMA TailInTurn ==
  ASSUME NEW n \in Nat, NEW p, NEW ch \in Seq(Message), ch # <<>>, InTurn(p, ch, n)
  PROVE  /\ Head(ch) \in Message /\ Tail(ch) \in Seq(Message)
         /\ Fits(p, Head(ch), n)
         /\ InTurn(Head(ch).at, Tail(ch), n)
         /\ EndOf(Head(ch).at, Tail(ch)) = EndOf(p, ch)
  <1> DEFINE t == Tail(ch)
  <1>1. /\ Head(ch) = ch[1] /\ 1 \in 1..Len(ch) /\ Len(t) = Len(ch) - 1
        /\ t \in Seq(Message) /\ ch[1] \in Message
        /\ \A i \in 1..Len(t) : t[i] = ch[i + 1]
    OBVIOUS
  <1>2. Fits(p, ch[1], n)
    BY <1>1 DEF InTurn
  <1>3. ASSUME NEW i \in 1..Len(t)
        PROVE  Fits(IF i = 1 THEN ch[1].at ELSE t[i - 1].at, t[i], n)
    <2>1. i + 1 \in 1..Len(ch) /\ i + 1 # 1 /\ (i + 1) - 1 = i
      BY <1>1
    <2>2. Fits(ch[i].at, ch[i + 1], n)
      BY <2>1 DEF InTurn
    <2>3. i # 1 => t[i - 1] = ch[i]
      <3>1. i # 1 => i - 1 \in 1..Len(t) /\ (i - 1) + 1 = i
        BY <1>1
      <3> QED BY <1>1, <3>1
    <2>4. (IF i = 1 THEN ch[1].at ELSE t[i - 1].at) = ch[i].at
      BY <2>3
    <2>5. t[i] = ch[i + 1]
      BY <1>1
    <2> HIDE DEF t
    <2> QED BY <2>2, <2>4, <2>5
  <1>4. EndOf(ch[1].at, t) = EndOf(p, ch)
    <2>1. CASE t = <<>>
      <3>1. Len(ch) = 1
        BY <1>1, <2>1
      <3> HIDE DEF t
      <3> QED BY <2>1, <3>1 DEF EndOf
    <2>2. CASE t # <<>>
      <3>1. Len(t) \in 1..Len(t) /\ Len(t) + 1 = Len(ch)
        BY <1>1, <2>2
      <3> QED BY <1>1, <2>2, <3>1 DEF EndOf
    <2> QED BY <2>1, <2>2
  <1>5. InTurn(ch[1].at, t, n)
    BY <1>3 DEF InTurn
  <1> HIDE DEF t
  <1> QED BY <1>1, <1>2, <1>4, <1>5 DEF t

\* What was in turn stays so when the agent writes on.
LEMMA InTurnGrows ==
  ASSUME NEW n \in Nat, NEW p, NEW ch, InTurn(p, ch, n)
  PROVE  InTurn(p, ch, n + 1)
  BY DEF InTurn, Fits

-----------------------------------------------------------------------------
(* Subscriptions.                                                          *)

LEMMA OfferTypes ==
  ASSUME NEW s \in Channels, Len(s.ch) <= Buffer, NEW m \in Message
  PROVE  /\ Offer(s, m) \in Channels /\ Len(Offer(s, m).ch) <= Buffer
         /\ Kept(s) => Offer(s, m).ch = Append(s.ch, m)
         /\ Kept(s) /\ ~s.closed => ~Offer(s, m).closed
         /\ ~Kept(s) => Offer(s, m).ch = s.ch /\ Offer(s, m).closed
  <1>1. Len(s.ch) \in Nat /\ Append(s.ch, m) \in Seq(Message)
        /\ Len(Append(s.ch, m)) = Len(s.ch) + 1
    BY DEF Channels
  <1>2. CASE Kept(s)
    BY <1>1, <1>2, Constants DEF Offer, Kept, Channels
  <1>3. CASE ~Kept(s)
    BY <1>1, <1>3, Constants DEF Offer, Kept, Channels
  <1> QED BY <1>2, <1>3

LEMMA MessageTypes ==
  /\ \A k \in 0..MaxOutput : Piece(k) \in Message /\ Repaint(k) \in Message
  /\ \A p \in Painted, m \in Message : Draw(p, m) \in Painted
  /\ NewSub \in Channels /\ NoSub \in Channels
  /\ NewSub.ch = <<>> /\ NoSub.ch = <<>> /\ Len(NewSub.ch) = 0 /\ Len(NoSub.ch) = 0
  /\ Away \in [stage : Stages, live : Sockets \cup {None}, backlog : Painted, late : BOOLEAN]
  BY DEF Piece, Repaint, Message, Painted, Draw, NewSub, NoSub, Channels, Away, Stages

\* Reading a channel.
LEMMA ReadTypes ==
  ASSUME NEW s \in Channels, s.ch # <<>>, Len(s.ch) <= Buffer
  PROVE  /\ Head(s.ch) \in Message
         /\ [s EXCEPT !.ch = Tail(@)] \in Channels
         /\ [s EXCEPT !.ch = Tail(@)].ch = Tail(s.ch)
         /\ Len(Tail(s.ch)) <= Buffer
  <1>1. s.ch \in Seq(Message) /\ s.closed \in BOOLEAN
    BY DEF Channels
  <1>2. Head(s.ch) \in Message /\ Tail(s.ch) \in Seq(Message) /\ Len(Tail(s.ch)) <= Len(s.ch)
    BY <1>1
  <1> QED BY <1>1, <1>2, Constants DEF Channels

\* What drop and send make of the viewers' channels.
LEMMA DroppedTypes ==
  ASSUME WatchTypes, NEW vs \in SUBSET Viewers
  PROVE  /\ Dropped(vs) \in [Viewers -> Channels]
         /\ \A v \in Viewers : Dropped(vs)[v].ch = sub[v].ch
         /\ \A v \in vs : Dropped(vs)[v].closed
         /\ \A v \in Viewers \ vs : Dropped(vs)[v] = sub[v]
  BY DEF WatchTypes, Dropped, Channels

\* Leave, of one viewer.
LEMMA LeaveStep ==
  ASSUME Types, NEW v \in Viewers, Leave(v)
  PROVE  /\ UNCHANGED <<hostVars, wire, reader, content, current>>
         /\ watch'[v] = Away /\ sub'[v] = NoSub /\ shown'[v] = Blank
         /\ \A u \in Viewers \ {v} :
              watch'[u] = watch[u] /\ sub'[u] = sub[u] /\ shown'[u] = shown[u]
         /\ \A s \in Sockets : subs'[s] = subs[s] \ {v}
  BY DEF Types, WatchTypes, HubTypes, Leave

-----------------------------------------------------------------------------
(* Every step keeps the types.                                             *)

LEMMA HostTypesStep ==
  ASSUME Types, Unused, Fed, [Next]_vars
  PROVE  HostTypes'
  <1> USE DEF Types, HostTypes
  <1>1. CASE AgentWrites
    <2>1. output \in 0..MaxOutput /\ output' = output + 1 /\ output' \in 0..MaxOutput
      BY <1>1, Constants DEF AgentWrites
    <2>2. Piece(output + 1) \in Message
      BY <2>1, MessageTypes
    <2>3. feed \in Channels /\ Len(feed.ch) <= Buffer
      BY DEF Bounded
    <2>4. Bounded(feed)'
      BY <1>1, <2>2, <2>3, OfferTypes DEF AgentWrites, Bounded
    <2> QED BY <1>1, <2>1, <2>4 DEF AgentWrites
  <1>2. CASE Dial
    BY <1>2, Constants DEF Dial, Bounded
  <1>3. CASE Subscribe
    <2>1. Repaint(output) \in Message /\ push.on \in Sockets /\ NewSub \in Channels
          /\ Len(NewSub.ch) <= Buffer
      BY <1>3, MessageTypes, Constants DEF Subscribe, Fed
    <2>2. Append(wire[push.on], Repaint(output)) \in Seq(Message)
      BY <2>1
    <2>3. wire' \in [Sockets -> Seq(Message)]
      BY <1>3, <2>1, <2>2 DEF Subscribe
    <2>4. Bounded(feed)'
      BY <1>3, <2>1 DEF Subscribe, Bounded
    <2> QED BY <1>3, <2>3, <2>4 DEF Subscribe
  <1>4. CASE PushSends
    <2>1. /\ Head(feed.ch) \in Message /\ Bounded(feed)'
      BY <1>4, ReadTypes DEF PushSends, Bounded
    <2>2. push.on \in Sockets
      BY <1>4 DEF PushSends, Fed
    <2>3. Append(wire[push.on], Head(feed.ch)) \in Seq(Message)
      BY <2>1, <2>2
    <2> QED BY <1>4, <2>1, <2>2, <2>3 DEF PushSends
  <1>5. CASE PushDropped
    BY <1>5 DEF PushDropped, Bounded
  <1>6. CASE PushFails
    <2>1. NoSub \in Channels /\ Len(NoSub.ch) <= Buffer
      BY MessageTypes, Constants
    <2> QED BY <1>6, <2>1 DEF PushFails, Bounded
  <1>7. ASSUME NEW s \in Sockets, Write(s) PROVE HostTypes'
    <2>1. Tail(wire[s]) \in Seq(Message)
      BY <1>7 DEF Write
    <2> QED BY <1>7, <2>1 DEF Write, hostVars, Bounded
  <1>8. ASSUME NEW s \in Sockets, Open(s) PROVE HostTypes'
    BY <1>8 DEF Open, hostVars, Bounded
  <1>9. ASSUME NEW s \in Sockets, ScreenEnds(s) PROVE HostTypes'
    BY <1>9 DEF ScreenEnds, hostVars, Bounded
  <1>10. ASSUME NEW v \in Viewers,
                Find(v) \/ Join(v) \/ SendBacklog(v) \/ Deliver(v) \/ StreamEnds(v) \/ ViewerGoes(v)
         PROVE  HostTypes'
    BY <1>10 DEF Find, Join, SendBacklog, Deliver, StreamEnds, ViewerGoes, Leave, hostVars,
                 Bounded
  <1>11. CASE UNCHANGED vars
    BY <1>11 DEF vars, hostVars, Bounded
  <1> QED BY <1>1, <1>2, <1>3, <1>4, <1>5, <1>6, <1>7, <1>8, <1>9, <1>10, <1>11 DEF Next

LEMMA HubTypesStep ==
  ASSUME Types, Shows, [Next]_vars
  PROVE  HubTypes'
  <1> USE DEF Types, HubTypes
  <1>1. CASE AgentWrites \/ Subscribe \/ PushSends \/ PushDropped \/ PushFails
    BY <1>1 DEF AgentWrites, Subscribe, PushSends, PushDropped, PushFails, hubVars
  <1>2. CASE Dial
    BY <1>2 DEF Dial
  <1>3. ASSUME NEW s \in Sockets, Open(s) PROVE HubTypes'
    BY <1>3 DEF Open
  <1>4. ASSUME NEW s \in Sockets, Write(s) PROVE HubTypes'
    <2>1. Head(wire[s]) \in Message
      BY <1>4 DEF Write, HostTypes
    <2>2. Draw(content[s], Head(wire[s])) \in Painted
      BY <2>1, MessageTypes
    <2>3. content' \in [Sockets -> Painted]
      BY <1>4, <2>2 DEF Write
    <2>4. subs' \in [Sockets -> SUBSET Viewers]
      BY <1>4 DEF Write
    <2> QED BY <1>4, <2>3, <2>4 DEF Write
  <1>5. ASSUME NEW s \in Sockets, ScreenEnds(s) PROVE HubTypes'
    BY <1>5 DEF ScreenEnds
  <1>6. ASSUME NEW v \in Viewers, Join(v) PROVE HubTypes'
    BY <1>6 DEF Join, Shows
  <1>7. ASSUME NEW v \in Viewers, Find(v) \/ SendBacklog(v) \/ Deliver(v) PROVE HubTypes'
    BY <1>7 DEF Find, SendBacklog, Deliver, hubVars
  <1>8. ASSUME NEW v \in Viewers, StreamEnds(v) \/ ViewerGoes(v) PROVE HubTypes'
    BY <1>8 DEF StreamEnds, ViewerGoes, Leave
  <1>9. CASE UNCHANGED vars
    BY <1>9 DEF vars, hubVars
  <1> QED BY <1>1, <1>2, <1>3, <1>4, <1>5, <1>6, <1>7, <1>8, <1>9 DEF Next

LEMMA WatchTypesStep ==
  ASSUME Types, Shows, [Next]_vars
  PROVE  WatchTypes'
  <1>0. ASSUME NEW vs \in SUBSET Viewers, sub' = Dropped(vs)
        PROVE  sub' \in [Viewers -> Channels] /\ \A v \in Viewers : sub'[v].ch = sub[v].ch
    <2>1. WatchTypes
      BY DEF Types
    <2>2. Dropped(vs) \in [Viewers -> Channels] /\ \A v \in Viewers : Dropped(vs)[v].ch = sub[v].ch
      BY <2>1, DroppedTypes
    <2> QED BY <1>0, <2>2
  <1> USE DEF Types, WatchTypes
  <1> DEFINE W == [stage : Stages, live : Sockets \cup {None}, backlog : Painted,
                   late : BOOLEAN]
  <1>1. CASE AgentWrites \/ Dial \/ Subscribe \/ PushSends \/ PushDropped \/ PushFails
    BY <1>1 DEF AgentWrites, Dial, Subscribe, PushSends, PushDropped, PushFails, watchVars
  <1>2. ASSUME NEW s \in Sockets, Open(s) PROVE WatchTypes'
    <2>1. sub' = sub \/ (current \in Sockets /\ sub' = Dropped(subs[current]))
      BY <1>2 DEF Open, HubTypes
    <2>2. sub' \in [Viewers -> Channels] /\ \A v \in Viewers : sub'[v].ch = sub[v].ch
      BY <1>0, <2>1 DEF HubTypes
    <2> QED BY <1>2, <2>2 DEF Open
  <1>3. ASSUME NEW s \in Sockets, Write(s) PROVE WatchTypes'
    <2>1. Head(wire[s]) \in Message
      BY <1>3 DEF Write, HostTypes
    <2>2. \A v \in Viewers : Offer(sub[v], Head(wire[s])) \in Channels
                             /\ Len(Offer(sub[v], Head(wire[s])).ch) <= Buffer
      BY <2>1, OfferTypes
    <2>3. sub' = [v \in Viewers |-> IF v \in subs[s] THEN Offer(sub[v], Head(wire[s]))
                                    ELSE sub[v]]
      BY <1>3 DEF Write
    <2>4. sub' \in [Viewers -> Channels] /\ \A v \in Viewers : Len(sub'[v].ch) <= Buffer
      BY <2>2, <2>3
    <2> QED BY <1>3, <2>4 DEF Write
  <1>4. ASSUME NEW s \in Sockets, ScreenEnds(s) PROVE WatchTypes'
    <2>1. sub' = sub \/ sub' = Dropped(subs[s])
      BY <1>4 DEF ScreenEnds, HubTypes
    <2>2. sub' \in [Viewers -> Channels] /\ \A v \in Viewers : sub'[v].ch = sub[v].ch
      BY <1>0, <2>1 DEF HubTypes
    <2> QED BY <1>4, <2>2 DEF ScreenEnds
  <1>5. ASSUME NEW v \in Viewers, Find(v) PROVE WatchTypes'
    <2>1. [Away EXCEPT !.stage = "found", !.live = current] \in W
      BY MessageTypes DEF HubTypes, Stages, Away, Painted
    <2> QED BY <1>5, <2>1 DEF Find
  <1>6. ASSUME NEW v \in Viewers, Join(v) PROVE WatchTypes'
    <2>1. watch[v].live \in Sockets
      BY <1>6 DEF Join, Shows
    <2>2. [stage |-> "joined", live |-> watch[v].live, backlog |-> content[watch[v].live],
           late |-> watch[v].live # current] \in W
      BY <2>1 DEF HubTypes, Stages
    <2>3. NewSub \in Channels /\ Len(NewSub.ch) <= Buffer
      BY MessageTypes, Constants
    <2> QED BY <1>6, <2>2, <2>3 DEF Join
  <1>7. ASSUME NEW v \in Viewers, SendBacklog(v) PROVE WatchTypes'
    <2>1. [watch[v] EXCEPT !.stage = "streaming"] \in W
      BY DEF Stages
    <2> QED BY <1>7, <2>1 DEF SendBacklog
  <1>8. ASSUME NEW v \in Viewers, Deliver(v) PROVE WatchTypes'
    <2>1. Head(sub[v].ch) \in Message
          /\ [sub[v] EXCEPT !.ch = Tail(@)] \in Channels
          /\ Len([sub[v] EXCEPT !.ch = Tail(@)].ch) <= Buffer
      BY <1>8, ReadTypes DEF Deliver
    <2>2. Draw(shown[v], Head(sub[v].ch)) \in Painted
      BY <2>1, MessageTypes
    <2>3. sub' = [sub EXCEPT ![v] = [sub[v] EXCEPT !.ch = Tail(@)]]
      BY <1>8 DEF Deliver
    <2> QED BY <1>8, <2>1, <2>2, <2>3 DEF Deliver
  <1>9. ASSUME NEW v \in Viewers, StreamEnds(v) \/ ViewerGoes(v) PROVE WatchTypes'
    <2>1. /\ watch' = [watch EXCEPT ![v] = Away] /\ sub' = [sub EXCEPT ![v] = NoSub]
          /\ shown' = [shown EXCEPT ![v] = Blank]
      BY <1>9 DEF StreamEnds, ViewerGoes, Leave
    <2>2. Away \in W /\ NoSub \in Channels /\ Len(NoSub.ch) <= Buffer /\ Blank \in Painted
      BY MessageTypes, Constants DEF Painted
    <2> QED BY <2>1, <2>2
  <1>10. CASE UNCHANGED vars
    BY <1>10 DEF vars, watchVars
  <1> QED BY <1>1, <1>2, <1>3, <1>4, <1>5, <1>6, <1>7, <1>8, <1>9, <1>10 DEF Next

-----------------------------------------------------------------------------
(* Every step keeps what goes over the websockets in turn.                 *)

LEMMA UnusedStep ==
  ASSUME Types, Unused, Fed, [Next]_vars
  PROVE  Unused'
  <1> USE DEF Unused
  <1>1. push.on \in Nat /\ Sockets \subseteq Nat
    BY Constants DEF Types, HostTypes, Sockets
  <1>2. CASE AgentWrites
    BY <1>2 DEF AgentWrites, hubVars
  <1>3. CASE Dial
    <2>1. /\ push'.on = push.on + 1 /\ push'.stage = "greeted"
          /\ wire' = wire /\ content' = content
          /\ \A s \in Sockets : s > push.on + 1 => reader'[s] = reader[s]
      BY <1>1, <1>3 DEF Dial, Types, HubTypes
    <2>2. \A s \in Sockets : s > push.on + 1 => s > push.on
      BY <1>1
    <2>3. \A s \in Sockets : s = push.on + 1 => s > push.on
      BY <1>1
    <2> QED BY <2>1, <2>2, <2>3
  <1>4. CASE Subscribe
    <2>1. /\ push'.on = push.on /\ push'.stage = "sending"
          /\ reader' = reader /\ content' = content
          /\ \A s \in Sockets : s # push.on => wire'[s] = wire[s]
      BY <1>4 DEF Subscribe, Types, HostTypes, hubVars
    <2>2. \A s \in Sockets : s > push.on => s # push.on
      BY <1>1
    <2> QED BY <2>1, <2>2
  <1>5. CASE PushSends
    <2>1. /\ push' = push /\ push.stage = "sending"
          /\ reader' = reader /\ content' = content
          /\ \A s \in Sockets : s # push.on => wire'[s] = wire[s]
      BY <1>5 DEF PushSends, Types, HostTypes, hubVars
    <2>2. \A s \in Sockets : s > push.on => s # push.on
      BY <1>1
    <2> QED BY <2>1, <2>2
  <1>6. CASE PushDropped \/ PushFails
    BY <1>6 DEF PushDropped, PushFails, Types, HostTypes, hubVars
  <1>7. ASSUME NEW s \in Sockets, Open(s) PROVE Unused'
    BY <1>7 DEF Open, hostVars, Types, HubTypes
  <1>8. ASSUME NEW s \in Sockets, Write(s) PROVE Unused'
    <2>1. /\ reader' = reader /\ push' = push
          /\ \A x \in Sockets : x # s => wire'[x] = wire[x] /\ content'[x] = content[x]
      BY <1>8 DEF Write, hostVars, Types, HostTypes, HubTypes
    <2>2. ~(s > push.on) /\ ~(s = push.on /\ push.stage = "greeted")
      BY <1>8 DEF Write
    <2> QED BY <2>1, <2>2
  <1>9. ASSUME NEW s \in Sockets, ScreenEnds(s) PROVE Unused'
    <2>1. /\ content' = content /\ push' = push /\ reader'[s] = "ended"
          /\ \A x \in Sockets : x # s => wire'[x] = wire[x] /\ reader'[x] = reader[x]
      BY <1>9 DEF ScreenEnds, hostVars, Types, HostTypes, HubTypes
    <2>2. ~(s > push.on)
      BY <1>9 DEF ScreenEnds
    <2> QED BY <2>1, <2>2
  <1>10. ASSUME NEW v \in Viewers,
                Find(v) \/ Join(v) \/ SendBacklog(v) \/ Deliver(v) \/ StreamEnds(v) \/ ViewerGoes(v)
         PROVE  Unused'
    BY <1>10 DEF Find, Join, SendBacklog, Deliver, StreamEnds, ViewerGoes, Leave, hostVars,
                 hubVars
  <1>11. CASE UNCHANGED vars
    BY <1>11 DEF vars, hostVars, hubVars
  <1> QED BY <1>2, <1>3, <1>4, <1>5, <1>6, <1>7, <1>8, <1>9, <1>10, <1>11 DEF Next

\* What a stream holds when it has what the agent wrote last, and the agent writes.
LEMMA WrittenInTurn ==
  ASSUME NEW n \in Nat, NEW p \in Drawn(n), p # Blank, NEW ch \in Seq(Message),
         n + 1 \in 0..MaxOutput, InTurn(p, ch, n), EndOf(p, ch) = n
  PROVE  InTurn(p, Append(ch, Piece(n + 1)), n + 1)
         /\ EndOf(p, Append(ch, Piece(n + 1))) = n + 1
  <1>1. InTurn(p, ch, n + 1)
    BY InTurnGrows
  <1>2. Piece(n + 1) \in Message /\ Piece(n + 1).at = n + 1 /\ Piece(n + 1).kind = "piece"
    BY MessageTypes DEF Piece
  <1>3. Fits(n, Piece(n + 1), n + 1)
    BY <1>2, Constants DEF Fits
  <1> QED BY <1>1, <1>2, <1>3, AppendInTurn

LEMMA FedStep ==
  ASSUME Types, Unused, Fed, [Next]_vars
  PROVE  Fed'
  <1>0. /\ output \in Nat /\ output <= MaxOutput /\ push.on \in Nat /\ Sockets \subseteq Nat
        /\ wire \in [Sockets -> Seq(Message)] /\ content \in [Sockets -> Painted]
        /\ reader \in [Sockets -> {"none", "accepted", "reading", "ended"}]
        /\ feed \in Channels /\ feed.ch \in Seq(Message) /\ Len(feed.ch) <= Buffer
    BY Constants DEF Types, HostTypes, HubTypes, Sockets, Bounded, Channels
  <1>1. CASE AgentWrites
    <2>1. /\ output' = output + 1 /\ output + 1 \in 0..MaxOutput
          /\ UNCHANGED <<push, wire, reader, content>>
      BY <1>0, <1>1, Constants DEF AgentWrites, hubVars
    <2>2. \A s \in Sockets :
            /\ content[s] \in Drawn(output + 1)
            /\ reader[s] # "ended" => InTurn(content[s], wire[s], output + 1)
      BY <1>0, InTurnGrows DEF Fed, Drawn
    <2>3. ASSUME push.stage = "sending", reader[push.on] # "ended"
          PROVE  /\ InTurn(Sent(push.on), feed'.ch, output + 1)
                 /\ Sent(push.on) # Blank
                 /\ ~feed'.closed => EndOf(Sent(push.on), feed'.ch) = output + 1
      <3>1. /\ InTurn(Sent(push.on), feed.ch, output) /\ Sent(push.on) # Blank
            /\ ~feed.closed => EndOf(Sent(push.on), feed.ch) = output
            /\ push.on \in Sockets
        BY <2>3 DEF Fed
      <3>2. Sent(push.on) \in Drawn(output)
        BY <1>0, <2>3, <3>1, EndIsDrawn DEF Fed, Sent
      <3>3. InTurn(Sent(push.on), feed.ch, output + 1)
        BY <1>0, <3>1, InTurnGrows
      <3>4. CASE feed' = feed /\ feed.closed
        BY <3>1, <3>3, <3>4
      <3>5. CASE ~feed.closed /\ feed' = Offer(feed, Piece(output + 1))
        <4>1. Piece(output + 1) \in Message
          BY <2>1, MessageTypes
        <4>2. CASE Kept(feed)
          <5>1. feed'.ch = Append(feed.ch, Piece(output + 1))
            BY <1>0, <3>5, <4>1, <4>2, OfferTypes
          <5> QED BY <1>0, <2>1, <3>1, <3>2, <3>5, <5>1, WrittenInTurn
        <4>3. CASE ~Kept(feed)
          <5>1. feed'.ch = feed.ch /\ feed'.closed
            BY <1>0, <3>5, <4>1, <4>3, OfferTypes
          <5> QED BY <3>1, <3>3, <5>1
        <4> QED BY <4>2, <4>3
      <3>6. feed.closed \in BOOLEAN
        BY <1>0 DEF Channels
      <3> QED BY <1>1, <3>4, <3>5, <3>6 DEF AgentWrites
    <2> QED BY <2>1, <2>2, <2>3 DEF Fed, Sent
  <1>2. CASE Dial
    <2>1. /\ push'.stage = "greeted" /\ push'.on = push.on + 1 /\ push.on + 1 \in Sockets
          /\ UNCHANGED <<output, wire, content>>
          /\ \A s \in Sockets : s # push.on + 1 => reader'[s] = reader[s]
      BY <1>0, <1>2, Constants DEF Dial, Sockets
    <2>2. reader[push.on + 1] = "none"
      BY <1>0, <2>1 DEF Unused
    <2> QED BY <2>1, <2>2 DEF Fed
  <1>3. CASE Subscribe
    <2> DEFINE s == push.on
               m == Repaint(output)
    <2>1. /\ push'.stage = "sending" /\ push'.on = s /\ s \in Sockets
          /\ push.stage = "greeted" /\ feed' = NewSub
          /\ wire'[s] = Append(wire[s], m)
          /\ \A x \in Sockets : x # s => wire'[x] = wire[x]
          /\ UNCHANGED <<output, reader, content>>
      BY <1>0, <1>3 DEF Subscribe, Fed, Types, HostTypes, hubVars
    <2>2. m \in Message /\ m.at = output /\ m.kind = "repaint"
      BY <1>0, MessageTypes DEF Repaint
    <2>3. ASSUME reader[s] # "ended"
          PROVE  InTurn(content[s], wire'[s], output) /\ EndOf(content[s], wire'[s]) = output
      <3>1. wire[s] = <<>> /\ content[s] = Blank
        BY <2>1, <2>3 DEF Unused
      <3>2. Fits(Blank, m, output)
        BY <1>0, <2>2 DEF Fits
      <3> QED BY <1>0, <2>1, <2>2, <3>1, <3>2, OneInTurn
    <2>4. feed'.ch = <<>>
      BY <2>1, MessageTypes
    <2>5. InTurn(output, <<>>, output) /\ EndOf(output, <<>>) = output /\ output # Blank
      BY <1>0, EmptyInTurn, Constants
    <2> HIDE DEF s, m
    <2>6. ASSUME NEW x \in Sockets
          PROVE  /\ content'[x] \in Drawn(output')
                 /\ reader'[x] # "ended" => InTurn(content'[x], wire'[x], output')
      BY <2>1, <2>3, <2>6 DEF Fed
    <2>7. ASSUME reader'[push'.on] # "ended"
          PROVE  /\ InTurn(Sent(push.on)', feed'.ch, output') /\ Sent(push.on)' # Blank
                 /\ EndOf(Sent(push.on)', feed'.ch) = output'
      BY <2>1, <2>3, <2>4, <2>5, <2>7 DEF Sent, s
    <2> QED BY <2>1, <2>6, <2>7 DEF Fed, Sent, s
  <1>4. CASE PushSends
    <2> DEFINE s == push.on
               m == Head(feed.ch)
    <2>1. /\ push' = push /\ push.stage = "sending" /\ s \in Sockets
          /\ feed.ch # <<>>
          /\ feed'.ch = Tail(feed.ch) /\ feed'.closed = feed.closed
          /\ wire'[s] = Append(wire[s], m)
          /\ \A x \in Sockets : x # s => wire'[x] = wire[x]
          /\ UNCHANGED <<output, reader, content>>
      BY <1>0, <1>4 DEF PushSends, Fed, Channels, hubVars
    <2>2. ASSUME reader[s] # "ended"
          PROVE  /\ InTurn(content[s], wire'[s], output)
                 /\ EndOf(content[s], wire'[s]) = m.at
                 /\ m.at # Blank
                 /\ InTurn(m.at, Tail(feed.ch), output)
                 /\ ~feed.closed => EndOf(m.at, Tail(feed.ch)) = output
      <3>1. /\ InTurn(content[s], wire[s], output) /\ InTurn(Sent(s), feed.ch, output)
            /\ ~feed.closed => EndOf(Sent(s), feed.ch) = output
        BY <2>1, <2>2 DEF Fed
      <3>2. /\ m \in Message /\ Fits(Sent(s), m, output)
            /\ InTurn(m.at, Tail(feed.ch), output)
            /\ EndOf(m.at, Tail(feed.ch)) = EndOf(Sent(s), feed.ch)
        BY <1>0, <2>1, <3>1, TailInTurn
      <3>3. m.at # Blank
        BY <1>0, <3>2, Constants DEF Fits
      <3> QED BY <1>0, <2>1, <3>1, <3>2, <3>3, AppendInTurn DEF Sent
    <2> HIDE DEF s, m
    <2>3. ASSUME NEW x \in Sockets
          PROVE  /\ content'[x] \in Drawn(output')
                 /\ reader'[x] # "ended" => InTurn(content'[x], wire'[x], output')
      BY <2>1, <2>2, <2>3 DEF Fed
    <2> QED BY <2>1, <2>2, <2>3 DEF Fed, Sent, s
  <1>5. CASE PushDropped \/ PushFails
    <2>1. push'.stage = "down" /\ UNCHANGED <<output, wire, reader, content>>
      BY <1>5 DEF PushDropped, PushFails, hubVars, Types, HostTypes
    <2> QED BY <2>1 DEF Fed
  <1>6. ASSUME NEW s \in Sockets, Open(s) PROVE Fed'
    <2>1. /\ UNCHANGED <<output, push, feed, wire, content>>
          /\ \A x \in Sockets : reader[x] = "ended" <=> reader'[x] = "ended"
      BY <1>0, <1>6 DEF Open, hostVars
    <2> QED BY <2>1 DEF Fed, Sent
  <1>7. ASSUME NEW s \in Sockets, Write(s) PROVE Fed'
    <2> DEFINE m == Head(wire[s])
    <2>1. /\ UNCHANGED <<output, push, feed, reader>> /\ reader[s] = "reading"
          /\ wire[s] # <<>> /\ wire'[s] = Tail(wire[s])
          /\ content'[s] = Draw(content[s], m)
          /\ \A x \in Sockets : x # s => wire'[x] = wire[x] /\ content'[x] = content[x]
      BY <1>0, <1>7 DEF Write, hostVars
    <2>2. /\ Fits(content[s], m, output) /\ content[s] \in Drawn(output)
          /\ InTurn(m.at, Tail(wire[s]), output)
          /\ EndOf(m.at, Tail(wire[s])) = Sent(s)
      BY <1>0, <2>1, TailInTurn DEF Fed, Sent
    <2>3. content'[s] = m.at /\ m.at \in Drawn(output)
      BY <1>0, <2>1, <2>2, FitsIsDrawn
    <2> HIDE DEF m
    <2>4. \A x \in Sockets : Sent(x)' = Sent(x)
      <3>1. Sent(s)' = EndOf(m.at, Tail(wire[s]))
        BY <2>1, <2>3 DEF Sent
      <3>2. \A x \in Sockets : x # s => Sent(x)' = Sent(x)
        BY <2>1 DEF Sent
      <3> QED BY <2>2, <3>1, <3>2
    <2>5. push.stage # "down" => Sent(push.on)' = Sent(push.on)
      BY <2>1, <2>4 DEF Fed
    <2>6. ASSUME NEW x \in Sockets
          PROVE  /\ content'[x] \in Drawn(output')
                 /\ reader'[x] # "ended" => InTurn(content'[x], wire'[x], output')
      BY <2>1, <2>2, <2>3, <2>6 DEF Fed
    <2> QED BY <2>1, <2>5, <2>6 DEF Fed, Sent
  <1>8. ASSUME NEW s \in Sockets, ScreenEnds(s) PROVE Fed'
    <2>1. /\ UNCHANGED <<output, push, feed, content>> /\ reader'[s] = "ended"
          /\ \A x \in Sockets : x # s => wire'[x] = wire[x] /\ reader'[x] = reader[x]
      BY <1>0, <1>8 DEF ScreenEnds, hostVars
    <2>2. \A x \in Sockets : reader'[x] # "ended" => x # s /\ Sent(x)' = Sent(x)
      BY <2>1 DEF Sent
    <2>3. ASSUME NEW x \in Sockets
          PROVE  /\ content'[x] \in Drawn(output')
                 /\ reader'[x] # "ended" => InTurn(content'[x], wire'[x], output')
      BY <2>1, <2>3 DEF Fed
    <2>4. ASSUME push'.stage = "sending", reader'[push'.on] # "ended"
          PROVE  /\ InTurn(Sent(push.on)', feed'.ch, output') /\ Sent(push.on)' # Blank
                 /\ ~feed'.closed => EndOf(Sent(push.on)', feed'.ch) = output'
      BY <2>1, <2>2, <2>4 DEF Fed
    <2> QED BY <2>1, <2>3, <2>4 DEF Fed, Sent
  <1>9. ASSUME NEW v \in Viewers,
               Find(v) \/ Join(v) \/ SendBacklog(v) \/ Deliver(v) \/ StreamEnds(v) \/ ViewerGoes(v)
        PROVE  Fed'
    <2>1. UNCHANGED <<output, push, feed, wire, reader, content>>
      BY <1>9 DEF Find, Join, SendBacklog, Deliver, StreamEnds, ViewerGoes, Leave, hostVars,
                  hubVars
    <2> QED BY <2>1 DEF Fed, Sent
  <1>10. CASE UNCHANGED vars
    BY <1>10 DEF vars, hostVars, hubVars, Fed, Sent
  <1> QED BY <1>1, <1>2, <1>3, <1>4, <1>5, <1>6, <1>7, <1>8, <1>9, <1>10 DEF Next

-----------------------------------------------------------------------------
(* Every step keeps what the viewers get in turn.                          *)

LEMMA TypesFacts ==
  ASSUME Types
  PROVE  /\ output \in Nat /\ output <= MaxOutput
         /\ wire \in [Sockets -> Seq(Message)] /\ content \in [Sockets -> Painted]
         /\ subs \in [Sockets -> SUBSET Viewers] /\ current \in Sockets \cup {None}
         /\ DOMAIN watch = Viewers /\ DOMAIN sub = Viewers /\ DOMAIN shown = Viewers
         /\ \A v \in Viewers :
              /\ watch[v] \in [stage : Stages, live : Sockets \cup {None},
                               backlog : Painted, late : BOOLEAN]
              /\ sub[v] \in Channels /\ sub[v].ch \in Seq(Message) /\ sub[v].closed \in BOOLEAN
              /\ Len(sub[v].ch) <= Buffer
  BY Constants DEF Types, HostTypes, HubTypes, WatchTypes, Channels

\* A viewer is subscribed to one session.
LEMMA OneSession ==
  ASSUME Subscribed, NEW s \in Sockets, NEW x \in Sockets, x # s, NEW v \in subs[x]
  PROVE  v \notin subs[s]
  BY DEF Subscribed

\* What a message does to whom it is sent to.
LEMMA WriteStep ==
  ASSUME Types, Fed, Shows, Subscribed, NEW s \in Sockets, Write(s)
  PROVE  /\ UNCHANGED <<output, watch, shown, current, reader>>
         /\ subs'[s] = {v \in subs[s] : Kept(sub[v])}
         /\ \A x \in Sockets : x # s => content'[x] = content[x] /\ subs'[x] = subs[x]
         /\ \A v \in Viewers \ subs[s] : sub'[v] = sub[v]
         /\ \A v \in subs[s] :
              /\ InTurn(Holds(v), sub'[v].ch, output)
              /\ Kept(sub[v]) => /\ EndOf(Holds(v), sub'[v].ch) = content'[s]
                                 /\ ~sub'[v].closed
  <1> DEFINE m == Head(wire[s])
  <1>1. /\ UNCHANGED <<output, watch, shown, current, reader>>
        /\ wire[s] # <<>> /\ wire[s] \in Seq(Message) /\ reader[s] = "reading"
        /\ content'[s] = Draw(content[s], m)
        /\ subs'[s] = {v \in subs[s] : Kept(sub[v])}
        /\ \A x \in Sockets : x # s => content'[x] = content[x] /\ subs'[x] = subs[x]
        /\ \A v \in Viewers \ subs[s] : sub'[v] = sub[v]
        /\ \A v \in subs[s] : sub'[v] = Offer(sub[v], m)
    BY TypesFacts DEF Write, hostVars
  <1>2. /\ m \in Message /\ Fits(content[s], m, output) /\ content[s] \in Drawn(output)
    BY <1>1, TailInTurn, TypesFacts DEF Fed
  <1>3. content'[s] = m.at
    BY <1>1, <1>2, FitsIsDrawn, TypesFacts
  <1> HIDE DEF m
  <1>4. ASSUME NEW v \in subs[s]
        PROVE  /\ InTurn(Holds(v), sub'[v].ch, output)
               /\ Kept(sub[v]) => /\ EndOf(Holds(v), sub'[v].ch) = content'[s]
                                  /\ ~sub'[v].closed
    <2>1. /\ v \in Viewers /\ InTurn(Holds(v), sub[v].ch, output)
          /\ EndOf(Holds(v), sub[v].ch) = content[s] /\ ~sub[v].closed
          /\ sub[v] \in Channels /\ sub[v].ch \in Seq(Message) /\ Len(sub[v].ch) <= Buffer
          /\ output \in Nat
      BY TypesFacts DEF Subscribed, Shows
    <2>2. CASE Kept(sub[v])
      <3>1. sub'[v].ch = Append(sub[v].ch, m) /\ ~sub'[v].closed
        BY <1>1, <1>2, <2>1, <2>2, OfferTypes
      <3> QED BY <1>2, <1>3, <2>1, <3>1, AppendInTurn
    <2>3. CASE ~Kept(sub[v])
      <3>1. sub'[v].ch = sub[v].ch
        BY <1>1, <1>2, <2>1, <2>3, OfferTypes
      <3> QED BY <2>1, <2>3, <3>1
    <2> QED BY <2>2, <2>3
  <1> QED BY <1>1, <1>4

LEMMA ShowsStep ==
  ASSUME Types, Fed, Shows, Subscribed, [Next]_vars
  PROVE  Shows'
  <1>1. CASE AgentWrites
    <2>1. output' = output + 1 /\ UNCHANGED <<watch, sub, shown>>
      BY <1>1 DEF AgentWrites, watchVars
    <2>2. Drawn(output) \subseteq Drawn(output + 1)
      BY TypesFacts DEF Drawn
    <2>3. \A v \in Viewers :
            InTurn(Holds(v), sub[v].ch, output) => InTurn(Holds(v), sub[v].ch, output + 1)
      BY TypesFacts, InTurnGrows
    <2> QED BY <2>1, <2>2, <2>3 DEF Shows, Holds, Watching
  <1>2. CASE Dial \/ Subscribe \/ PushSends \/ PushDropped \/ PushFails
    <2>1. UNCHANGED <<output, watch, sub, shown>>
      BY <1>2 DEF Dial, Subscribe, PushSends, PushDropped, PushFails, watchVars
    <2> QED BY <2>1 DEF Shows, Holds, Watching
  <1>3. ASSUME NEW s \in Sockets, Open(s) \/ ScreenEnds(s) PROVE Shows'
    <2>1. /\ UNCHANGED <<output, watch, shown>>
          /\ sub' = sub \/ \E vs \in SUBSET Viewers : sub' = Dropped(vs)
      BY <1>3, TypesFacts DEF Open, ScreenEnds, hostVars
    <2>2. \A v \in Viewers : sub'[v].ch = sub[v].ch
      BY <2>1, DroppedTypes DEF Types
    <2> QED BY <2>1, <2>2 DEF Shows, Holds, Watching
  <1>4. ASSUME NEW s \in Sockets, Write(s) PROVE Shows'
    <2>1. UNCHANGED <<output, watch, shown>>
      BY <1>4, WriteStep
    <2>2. ASSUME NEW v \in Viewers, Watching(v)
          PROVE  InTurn(Holds(v), sub'[v].ch, output)
      <3>1. CASE v \in subs[s]
        BY <1>4, <3>1, WriteStep
      <3>2. CASE v \notin subs[s]
        <4>1. sub'[v] = sub[v]
          BY <1>4, <3>2, WriteStep
        <4> QED BY <2>2, <4>1 DEF Shows
      <3> QED BY <3>1, <3>2
    <2> QED BY <2>1, <2>2 DEF Shows, Holds, Watching
  <1>5. ASSUME NEW v \in Viewers, Find(v) PROVE Shows'
    <2>1. /\ UNCHANGED <<output, sub, shown>> /\ watch[v].stage = "away"
          /\ watch'[v].stage = "found" /\ watch'[v].live \in Sockets
          /\ \A u \in Viewers \ {v} : watch'[u] = watch[u]
      BY <1>5, TypesFacts DEF Find, Away, hostVars
    <2> QED BY <2>1 DEF Shows, Holds, Watching
  <1>6. ASSUME NEW v \in Viewers, Join(v) PROVE Shows'
    <2>1. /\ UNCHANGED <<output, shown>> /\ watch[v].stage = "found"
          /\ watch'[v].stage = "joined" /\ watch'[v].live = watch[v].live
          /\ watch'[v].backlog = content[watch[v].live] /\ sub'[v] = NewSub
          /\ watch[v].live \in Sockets
          /\ \A u \in Viewers \ {v} : watch'[u] = watch[u] /\ sub'[u] = sub[u]
      BY <1>6, TypesFacts DEF Join, Shows, hostVars
    <2>2. content[watch[v].live] \in Drawn(output)
      BY <2>1 DEF Fed
    <2>3. InTurn(content[watch[v].live], NewSub.ch, output)
      BY EmptyInTurn, MessageTypes
    <2>4. ASSUME NEW u \in Viewers \ {v}
          PROVE  /\ shown'[u] \in Drawn(output') /\ Holds(u)' \in Drawn(output')
                 /\ watch'[u].stage # "streaming" => shown'[u] = Blank
                 /\ watch'[u].stage # "away" => watch'[u].live \in Sockets
                 /\ Watching(u)' => InTurn(Holds(u)', sub'[u].ch, output')
      BY <2>1 DEF Shows, Holds, Watching
    <2>5. /\ shown'[v] \in Drawn(output') /\ Holds(v)' \in Drawn(output')
          /\ watch'[v].stage # "streaming" => shown'[v] = Blank
          /\ watch'[v].stage # "away" => watch'[v].live \in Sockets
          /\ Watching(v)' => InTurn(Holds(v)', sub'[v].ch, output')
      BY <2>1, <2>2, <2>3 DEF Shows, Holds, Watching
    <2> QED BY <2>4, <2>5 DEF Shows
  <1>7. ASSUME NEW v \in Viewers, SendBacklog(v) PROVE Shows'
    <2>1. /\ UNCHANGED <<output, sub>> /\ watch[v].stage = "joined"
          /\ watch'[v].stage = "streaming" /\ watch'[v].live = watch[v].live
          /\ shown'[v] = watch[v].backlog
          /\ \A u \in Viewers \ {v} : watch'[u] = watch[u] /\ shown'[u] = shown[u]
      BY <1>7, TypesFacts DEF SendBacklog, hostVars
    <2> QED BY <2>1 DEF Shows, Holds, Watching
  <1>8. ASSUME NEW v \in Viewers, Deliver(v) PROVE Shows'
    <2> DEFINE m == Head(sub[v].ch)
    <2>1. /\ UNCHANGED <<output, watch>> /\ watch[v].stage = "streaming"
          /\ sub[v].ch # <<>> /\ sub[v].ch \in Seq(Message)
          /\ shown'[v] = Draw(shown[v], m) /\ sub'[v].ch = Tail(sub[v].ch)
          /\ \A u \in Viewers \ {v} : sub'[u] = sub[u] /\ shown'[u] = shown[u]
      BY <1>8, TypesFacts DEF Deliver, hostVars, Channels
    <2>2. InTurn(shown[v], sub[v].ch, output) /\ shown[v] \in Drawn(output)
      BY <2>1 DEF Shows, Watching, Holds
    <2>3. Fits(shown[v], m, output) /\ InTurn(m.at, Tail(sub[v].ch), output)
      BY <2>1, <2>2, TailInTurn, TypesFacts
    <2>4. shown'[v] = m.at /\ m.at \in Drawn(output)
      BY <2>1, <2>2, <2>3, FitsIsDrawn, TypesFacts
    <2> HIDE DEF m
    <2> QED BY <2>1, <2>3, <2>4 DEF Shows, Holds, Watching
  <1>9. ASSUME NEW v \in Viewers, StreamEnds(v) \/ ViewerGoes(v) PROVE Shows'
    <2>1. /\ UNCHANGED output /\ watch'[v] = Away /\ shown'[v] = Blank
          /\ \A u \in Viewers \ {v} :
               watch'[u] = watch[u] /\ sub'[u] = sub[u] /\ shown'[u] = shown[u]
      BY <1>9, LeaveStep DEF StreamEnds, ViewerGoes, hostVars
    <2> QED BY <2>1 DEF Shows, Holds, Watching, Away, Drawn
  <1>10. CASE UNCHANGED vars
    BY <1>10 DEF vars, hostVars, watchVars, Shows, Holds, Watching
  <1> QED BY <1>1, <1>2, <1>3, <1>4, <1>5, <1>6, <1>7, <1>8, <1>9, <1>10 DEF Next

LEMMA SubscribedStep ==
  ASSUME Types, Fed, Shows, Subscribed, [Next]_vars
  PROVE  Subscribed'
  <1> DEFINE Here(s, v) == /\ Watching(v) /\ watch[v].live = s /\ ~sub[v].closed
                           /\ EndOf(Holds(v), sub[v].ch) = content[s]
  <1>0. \A s \in Sockets : \A v \in subs[s] : v \in Viewers /\ Here(s, v)
    BY TypesFacts DEF Subscribed
  <1>1. CASE AgentWrites \/ Dial \/ Subscribe \/ PushSends \/ PushDropped \/ PushFails
    <2>1. UNCHANGED <<content, subs, watch, sub, shown>>
      BY <1>1 DEF AgentWrites, Dial, Subscribe, PushSends, PushDropped, PushFails, hubVars,
                  watchVars
    <2> QED BY <2>1 DEF Subscribed, Watching, Holds
  <1>2. ASSUME NEW s \in Sockets, Open(s) \/ ScreenEnds(s) PROVE Subscribed'
    <2>1. UNCHANGED <<watch, shown, content>>
      BY <1>2 DEF Open, ScreenEnds
    <2>2. \/ UNCHANGED <<subs, sub>>
          \/ \E x \in Sockets : subs' = [subs EXCEPT ![x] = {}] /\ sub' = Dropped(subs[x])
      BY <1>2, TypesFacts DEF Open, ScreenEnds
    <2>3. CASE UNCHANGED <<subs, sub>>
      BY <2>1, <2>3 DEF Subscribed, Watching, Holds
    <2>4. ASSUME NEW x \in Sockets, subs' = [subs EXCEPT ![x] = {}], sub' = Dropped(subs[x])
          PROVE  Subscribed'
      <3>1. ASSUME NEW y \in Sockets, NEW v \in subs'[y]
            PROVE  y # x /\ v \in subs[y] /\ sub'[v] = sub[v]
        <4>1. y # x /\ v \in subs[y] /\ v \in Viewers /\ subs[x] \in SUBSET Viewers
          BY <2>4, <3>1, TypesFacts
        <4>2. v \notin subs[x]
          BY <4>1, OneSession
        <4> QED BY <2>4, <4>1, <4>2, DroppedTypes DEF Types
      <3> QED BY <2>1, <3>1 DEF Subscribed, Watching, Holds
    <2> QED BY <2>2, <2>3, <2>4
  <1>3. ASSUME NEW s \in Sockets, Write(s) PROVE Subscribed'
    <2>1. UNCHANGED <<watch, shown>> /\ subs'[s] = {v \in subs[s] : Kept(sub[v])}
      BY <1>3, WriteStep
    <2>2. ASSUME NEW v \in subs'[s]
          PROVE  Here(s, v)'
      <3>1. v \in subs[s] /\ Kept(sub[v])
        BY <2>1
      <3>2. ~sub'[v].closed /\ EndOf(Holds(v), sub'[v].ch) = content'[s]
        BY <1>3, <3>1, WriteStep
      <3>3. Watching(v) /\ watch[v].live = s
        BY <3>1 DEF Subscribed
      <3> QED BY <2>1, <3>2, <3>3 DEF Watching, Holds
    <2>3. ASSUME NEW x \in Sockets, x # s, NEW v \in subs'[x]
          PROVE  Here(x, v)'
      <3>1. subs'[x] = subs[x] /\ content'[x] = content[x] /\ v \in Viewers
        BY <1>0, <1>3, <2>3, WriteStep
      <3>2. sub'[v] = sub[v]
        <4>1. v \notin subs[s]
          BY <2>3, <3>1, OneSession
        <4> QED BY <1>3, <3>1, <4>1, WriteStep
      <3> QED BY <1>0, <2>1, <3>1, <3>2 DEF Watching, Holds
    <2> HIDE DEF Here
    <2>4. \A x \in Sockets : \A v \in subs'[x] : Here(x, v)'
      BY <2>2, <2>3
    <2> QED BY <2>4 DEF Here, Subscribed
  <1>4. ASSUME NEW v \in Viewers, Find(v) PROVE Subscribed'
    <2>1. /\ UNCHANGED <<content, subs, sub, shown>> /\ watch[v].stage = "away"
          /\ \A u \in Viewers \ {v} : watch'[u] = watch[u]
      BY <1>4, TypesFacts DEF Find, hubVars
    <2>2. \A s \in Sockets : v \notin subs[s]
      BY <2>1 DEF Subscribed, Watching
    <2> QED BY <1>0, <2>1, <2>2 DEF Subscribed, Watching, Holds
  <1>5. ASSUME NEW v \in Viewers, Join(v) PROVE Subscribed'
    <2>0. watch[v].live \in Sockets
      BY <1>5 DEF Join, Shows
    <2> PICK s \in Sockets : s = watch[v].live
      BY <2>0
    <2>1. /\ UNCHANGED <<content, shown>> /\ watch[v].stage = "found" /\ s \in Sockets
          /\ watch'[v].stage = "joined" /\ watch'[v].live = s
          /\ watch'[v].backlog = content[s] /\ sub'[v] = NewSub
          /\ \A u \in Viewers \ {v} : watch'[u] = watch[u] /\ sub'[u] = sub[u]
          /\ subs'[s] = subs[s] \cup {v} /\ \A x \in Sockets : x # s => subs'[x] = subs[x]
      BY <1>5, TypesFacts DEF Join, Shows
    <2>2. \A x \in Sockets : v \notin subs[x]
      BY <2>1 DEF Subscribed, Watching
    <2>3. ~NewSub.closed /\ EndOf(content[s], NewSub.ch) = content[s]
      BY MessageTypes, EmptyInTurn DEF NewSub
    <2>4. Here(s, v)'
      BY <2>1, <2>3 DEF Watching, Holds
    <2>5. ASSUME NEW x \in Sockets, NEW u \in subs'[x], u # v
          PROVE  Here(x, u)'
      BY <1>0, <2>1, <2>5 DEF Watching, Holds
    <2>6. \A x \in Sockets : v \in subs'[x] => x = s
      BY <2>1, <2>2
    <2> HIDE DEF Here
    <2>7. \A x \in Sockets : \A u \in subs'[x] : Here(x, u)'
      BY <2>4, <2>5, <2>6
    <2> QED BY <2>7 DEF Here, Subscribed
  <1>6. ASSUME NEW v \in Viewers, SendBacklog(v) PROVE Subscribed'
    <2>1. /\ UNCHANGED <<content, subs, sub>> /\ watch[v].stage = "joined"
          /\ watch'[v].stage = "streaming" /\ watch'[v].live = watch[v].live
          /\ shown'[v] = watch[v].backlog
          /\ \A u \in Viewers \ {v} : watch'[u] = watch[u] /\ shown'[u] = shown[u]
      BY <1>6, TypesFacts DEF SendBacklog, hubVars
    <2> QED BY <1>0, <2>1 DEF Subscribed, Watching, Holds
  <1>7. ASSUME NEW v \in Viewers, Deliver(v) PROVE Subscribed'
    <2> DEFINE m == Head(sub[v].ch)
    <2>1. /\ UNCHANGED <<content, subs, watch>> /\ watch[v].stage = "streaming"
          /\ sub[v].ch # <<>> /\ sub[v].ch \in Seq(Message)
          /\ shown'[v] = Draw(shown[v], m) /\ sub'[v] = [sub[v] EXCEPT !.ch = Tail(@)]
          /\ \A u \in Viewers \ {v} : sub'[u] = sub[u] /\ shown'[u] = shown[u]
      BY <1>7, TypesFacts DEF Deliver, hubVars
    <2>2. sub'[v].ch = Tail(sub[v].ch) /\ (~sub[v].closed => ~sub'[v].closed)
      BY <2>1, TypesFacts DEF Channels
    <2>3. InTurn(shown[v], sub[v].ch, output) /\ shown[v] \in Drawn(output)
      BY <2>1 DEF Shows, Watching, Holds
    <2>4. Fits(shown[v], m, output) /\ EndOf(m.at, Tail(sub[v].ch)) = EndOf(shown[v], sub[v].ch)
      BY <2>1, <2>3, TailInTurn, TypesFacts
    <2>5. shown'[v] = m.at
      BY <2>1, <2>3, <2>4, FitsIsDrawn, TypesFacts
    <2> HIDE DEF m
    <2>6. EndOf(shown'[v], sub'[v].ch) = EndOf(shown[v], sub[v].ch)
      BY <2>2, <2>4, <2>5
    <2>7. ASSUME NEW x \in Sockets, NEW u \in subs[x]
          PROVE  Here(x, u)'
      <3>1. CASE u = v
        BY <1>0, <2>1, <2>2, <2>6, <3>1 DEF Watching, Holds
      <3>2. CASE u # v
        BY <1>0, <2>1, <3>2 DEF Watching, Holds
      <3> QED BY <3>1, <3>2
    <2> HIDE DEF Here
    <2>8. \A x \in Sockets : \A u \in subs'[x] : Here(x, u)'
      BY <2>1, <2>7
    <2> QED BY <2>8 DEF Here, Subscribed
  <1>8. ASSUME NEW v \in Viewers, StreamEnds(v) \/ ViewerGoes(v) PROVE Subscribed'
    <2>1. /\ UNCHANGED content /\ \A s \in Sockets : subs'[s] = subs[s] \ {v}
          /\ \A u \in Viewers \ {v} :
               watch'[u] = watch[u] /\ sub'[u] = sub[u] /\ shown'[u] = shown[u]
      BY <1>8, LeaveStep DEF StreamEnds, ViewerGoes
    <2> QED BY <1>0, <2>1 DEF Subscribed, Watching, Holds
  <1>9. CASE UNCHANGED vars
    BY <1>9 DEF vars, hubVars, watchVars, Subscribed, Holds, Watching
  <1> QED BY <1>1, <1>2, <1>3, <1>4, <1>5, <1>6, <1>7, <1>8, <1>9 DEF Next

LEMMA RegisteredStep ==
  ASSUME Types, Unused, Shows, Subscribed, RegisteredIsFed, [Next]_vars
  PROVE  RegisteredIsFed'
  <1> USE DEF RegisteredIsFed
  <1>0. reader \in [Sockets -> {"none", "accepted", "reading", "ended"}]
    BY DEF Types, HubTypes
  <1>1. CASE AgentWrites \/ Subscribe \/ PushSends \/ PushDropped \/ PushFails
    BY <1>1 DEF AgentWrites, Subscribe, PushSends, PushDropped, PushFails, hubVars, watchVars
  <1>2. CASE Dial
    <2>1. UNCHANGED <<current, subs, watch>>
      BY <1>2 DEF Dial, watchVars
    <2>2. push.on + 1 \in Sockets /\ push.on + 1 > push.on
      BY <1>2, Constants DEF Dial, Sockets, Types, HostTypes
    <2>3. reader[push.on + 1] = "none" /\ reader' = [reader EXCEPT ![push.on + 1] = "accepted"]
      BY <1>2, <2>2 DEF Dial, Unused
    <2>4. current # None => reader'[current] = "reading"
      BY <1>0, <2>3, TypesFacts
    <2> QED BY <2>1, <2>4
  <1>3. ASSUME NEW s \in Sockets, Open(s) PROVE RegisteredIsFed'
    <2>1. current' = s /\ watch' = watch /\ reader'[s] = "reading"
      BY <1>0, <1>3 DEF Open
    <2>2. \A x \in Sockets : \A v \in subs'[x] : watch[v].late
      <3>1. CASE current = None
        <4>1. subs' = subs
          BY <1>3, <3>1 DEF Open
        <4> QED BY <3>1, <4>1, Constants
      <3>2. CASE current # None
        <4>1. subs' = [subs EXCEPT ![current] = {}] /\ current \in Sockets
          BY <1>3, <3>2, TypesFacts DEF Open
        <4> QED BY <4>1, TypesFacts
      <3> QED BY <3>1, <3>2
    <2> QED BY <2>1, <2>2

  <1>4. ASSUME NEW s \in Sockets, Write(s) PROVE RegisteredIsFed'
    <2>1. UNCHANGED <<watch, current, reader>> /\ \A x \in Sockets : subs'[x] \subseteq subs[x]
      BY <1>4, TypesFacts DEF Write
    <2> QED BY <2>1
  <1>5. ASSUME NEW s \in Sockets, ScreenEnds(s) PROVE RegisteredIsFed'
    <2>1. watch' = watch /\ \A x \in Sockets : x # s => reader'[x] = reader[x]
      BY <1>0, <1>5 DEF ScreenEnds
    <2>2. CASE current = s
      <3>1. current' = None /\ subs' = [subs EXCEPT ![s] = {}]
        BY <1>5, <2>2 DEF ScreenEnds
      <3> QED BY <2>1, <2>2, <3>1, TypesFacts
    <2>3. CASE current # s
      <3>1. current' = current /\ subs' = subs
        BY <1>5, <2>3 DEF ScreenEnds
      <3> QED BY <2>1, <2>3, <3>1, TypesFacts
    <2> QED BY <2>2, <2>3
  <1>6. ASSUME NEW v \in Viewers, Find(v) PROVE RegisteredIsFed'
    <2>1. /\ UNCHANGED <<subs, current, reader>> /\ watch[v].stage = "away"
          /\ \A u \in Viewers \ {v} : watch'[u] = watch[u]
      BY <1>6, TypesFacts DEF Find, hubVars
    <2>2. \A s \in Sockets : v \notin subs[s]
      BY <2>1 DEF Subscribed, Watching
    <2> QED BY <2>1, <2>2, TypesFacts
  <1>7. ASSUME NEW v \in Viewers, Join(v) PROVE RegisteredIsFed'
    <2> DEFINE s == watch[v].live
    <2>1. /\ UNCHANGED <<current, reader>> /\ watch[v].stage = "found" /\ s \in Sockets
          /\ watch'[v].late = (s # current)
          /\ \A u \in Viewers \ {v} : watch'[u] = watch[u]
          /\ subs'[s] = subs[s] \cup {v} /\ \A x \in Sockets : x # s => subs'[x] = subs[x]
      BY <1>7, TypesFacts DEF Join, Shows
    <2>2. \A x \in Sockets : v \notin subs[x]
      BY <2>1 DEF Subscribed, Watching
    <2>3. s = current \/ watch'[v].late
      BY <2>1
    <2> HIDE DEF s
    <2> QED BY <2>1, <2>2, <2>3, TypesFacts
  <1>8. ASSUME NEW v \in Viewers, SendBacklog(v) \/ Deliver(v) PROVE RegisteredIsFed'
    <2>1. /\ UNCHANGED <<subs, current, reader>>
          /\ \A u \in Viewers : watch'[u].late = watch[u].late
      BY <1>8, TypesFacts DEF SendBacklog, Deliver, hubVars
    <2> QED BY <2>1, TypesFacts
  <1>9. ASSUME NEW v \in Viewers, StreamEnds(v) \/ ViewerGoes(v) PROVE RegisteredIsFed'
    <2>1. /\ UNCHANGED <<reader, current>> /\ \A s \in Sockets : subs'[s] = subs[s] \ {v}
          /\ \A u \in Viewers \ {v} : watch'[u] = watch[u]
      BY <1>9, LeaveStep DEF StreamEnds, ViewerGoes
    <2> QED BY <2>1, TypesFacts
  <1>10. CASE UNCHANGED vars
    BY <1>10 DEF vars, hubVars, watchVars
  <1> QED BY <1>1, <1>2, <1>3, <1>4, <1>5, <1>6, <1>7, <1>8, <1>9, <1>10 DEF Next

-----------------------------------------------------------------------------
(* The invariant holds, and the safety properties with it.                 *)

LEMMA InitHolds == Init => IInv
  <1> SUFFICES ASSUME Init PROVE IInv
    OBVIOUS
  <1> USE DEF Init
  <1>1. HostTypes
    BY MessageTypes, Constants DEF HostTypes, Bounded, Channels
  <1>2. HubTypes
    BY DEF HubTypes, Painted
  <1>3. WatchTypes
    BY MessageTypes, Constants DEF WatchTypes, Painted
  <1>4. Unused
    BY DEF Unused
  <1>5. Fed
    BY EmptyInTurn DEF Fed, Drawn
  <1>6. Shows
    BY EmptyInTurn DEF Shows, Drawn, Holds, Watching, Away
  <1>7. Subscribed /\ RegisteredIsFed
    BY DEF Subscribed, RegisteredIsFed
  <1> QED BY <1>1, <1>2, <1>3, <1>4, <1>5, <1>6, <1>7 DEF IInv, Types

LEMMA NextKeeps == IInv /\ [Next]_vars => IInv'
  BY HostTypesStep, HubTypesStep, WatchTypesStep, UnusedStep, FedStep, ShowsStep,
     SubscribedStep, RegisteredStep DEF IInv, Types

LEMMA Invariant == Spec => []IInv
  BY InitHolds, NextKeeps, PTL DEF Spec

\* Every state has its types: no buffer holds more than it was made for, on the
\* host or on the hub (viewerBuffer).
THEOREM TypeCorrect == Spec => []TypeOK
  <1>1. IInv => TypeOK
    BY DEF IInv, Types, HostTypes, HubTypes, WatchTypes, TypeOK, Bounded, Stages
  <1> QED BY <1>1, Invariant, PTL

\* No session sends into a channel it has closed, or to a watch of another
\* session (send, drop, cancel).
THEOREM SendsAreSafe == Spec => []SubscribersAreOpen
  <1>1. IInv => SubscribersAreOpen
    BY DEF IInv, Subscribed, SubscribersAreOpen
  <1> QED BY <1>1, Invariant, PTL

\* The session under the agent's name is read into, and nobody who came in time
\* is left on another (screens.open, screens.close).
THEOREM SessionsAreFed == Spec => []RegisteredIsFed
  <1>1. IInv => RegisteredIsFed
    BY DEF IInv
  <1> QED BY <1>1, Invariant, PTL

-----------------------------------------------------------------------------
(* The screens implement the feed.                                         *)

LEMMA FeedInit == Init => Feed!Init
  BY DEF Init, Feed!Init

LEMMA FeedStep ==
  ASSUME IInv, [Next]_vars
  PROVE  [Feed!Next]_<<output, shown>>
  <1> USE DEF IInv
  <1>1. CASE AgentWrites
    BY <1>1 DEF AgentWrites, watchVars, Feed!Next, Feed!AgentWrites
  <1>2. CASE Dial \/ Subscribe \/ PushSends \/ PushDropped \/ PushFails
    BY <1>2 DEF Dial, Subscribe, PushSends, PushDropped, PushFails, watchVars
  <1>3. ASSUME NEW s \in Sockets, Open(s) \/ Write(s) \/ ScreenEnds(s)
        PROVE  UNCHANGED <<output, shown>>
    BY <1>3 DEF Open, Write, ScreenEnds, hostVars
  <1>4. ASSUME NEW v \in Viewers, Find(v) \/ Join(v)
        PROVE  UNCHANGED <<output, shown>>
    BY <1>4 DEF Find, Join, hostVars
  <1>5. ASSUME NEW v \in Viewers, SendBacklog(v)
        PROVE  [Feed!Next]_<<output, shown>>
    <2>1. /\ output' = output /\ shown' = [shown EXCEPT ![v] = Holds(v)] /\ shown[v] = Blank
          /\ Holds(v) \in Drawn(output)
      BY <1>5 DEF SendBacklog, Shows, Holds, hostVars
    <2>2. CASE Holds(v) = Blank
      <3>1. shown' = shown
        BY <2>1, <2>2 DEF Types, WatchTypes
      <3> QED BY <2>1, <3>1
    <2>3. CASE Holds(v) \in 0..output
      BY <2>1, <2>3 DEF Feed!Next, Feed!Repaint
    <2> QED BY <2>1, <2>2, <2>3 DEF Drawn
  <1>6. ASSUME NEW v \in Viewers, Deliver(v)
        PROVE  [Feed!Next]_<<output, shown>>
    <2> DEFINE m == Head(sub[v].ch)
    <2>1. /\ output' = output /\ watch[v].stage = "streaming"
          /\ sub[v].ch # <<>> /\ sub[v].ch \in Seq(Message)
          /\ shown' = [shown EXCEPT ![v] = Draw(shown[v], m)]
      BY <1>6, TypesFacts DEF Deliver, hostVars
    <2>2. InTurn(shown[v], sub[v].ch, output) /\ shown[v] \in Drawn(output)
      BY <2>1 DEF Shows, Watching, Holds
    <2>3. Fits(shown[v], m, output) /\ Draw(shown[v], m) = m.at
      BY <2>1, <2>2, TailInTurn, FitsIsDrawn, TypesFacts
    <2> HIDE DEF m
    <2>4. CASE shown[v] = Blank
      <3>1. m.at \in 0..output
        BY <2>3 DEF Fits
      <3> QED BY <2>1, <2>3, <2>4, <3>1 DEF Feed!Next, Feed!Repaint
    <2>5. CASE shown[v] # Blank
      <3>1. m.at = shown[v] + 1 /\ shown[v] < output
        BY <2>2, <2>3, <2>5, TypesFacts DEF Fits, Drawn
      <3> QED BY <2>1, <2>3, <2>5, <3>1 DEF Feed!Next, Feed!Follow
    <2> QED BY <2>4, <2>5
  <1>7. ASSUME NEW v \in Viewers, StreamEnds(v) \/ ViewerGoes(v)
        PROVE  [Feed!Next]_<<output, shown>>
    <2>1. output' = output /\ shown' = [shown EXCEPT ![v] = Blank]
      BY <1>7 DEF StreamEnds, ViewerGoes, Leave, hostVars
    <2>2. CASE shown[v] = Blank
      <3>1. shown' = shown
        BY <2>1, <2>2 DEF Types, WatchTypes
      <3> QED BY <2>1, <3>1
    <2>3. CASE shown[v] # Blank
      BY <2>1, <2>3 DEF Feed!Next, Feed!Leave
    <2> QED BY <2>2, <2>3
  <1>8. CASE UNCHANGED vars
    BY <1>8 DEF vars, hostVars, watchVars
  <1> QED BY <1>1, <1>2, <1>3, <1>4, <1>5, <1>6, <1>7, <1>8 DEF Next

\* What every browser shows is what the agent's terminal showed, whole, and it
\* moves through the output piece by piece, through two sessions that drop
\* whoever is slow and websockets that break at any moment (ScreenFeed).
THEOREM ImplementsFeed == Spec => FeedSpec
  <1>1. IInv /\ [Next]_vars => [Feed!Next]_<<output, shown>>
    BY FeedStep
  <1> QED BY <1>1, FeedInit, Invariant, PTL DEF Spec, FeedSpec, Feed!Spec

=============================================================================
