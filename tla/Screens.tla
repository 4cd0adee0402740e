------------------------------- MODULE Screens -------------------------------
(***************************************************************************)
(* One agent's screen on its way to the browsers (internal/session, the    *)
(* stream and push of internal/host/agents.go, screens.go and the          *)
(* handlers of the screen and watch websockets in internal/hub/server.go). *)
(*                                                                         *)
(* It is fanned out twice.  On the host the agent's output goes through a  *)
(* session whose one subscriber, push, carries it to the hub over a        *)
(* websocket; whenever that breaks, or push falls behind and is dropped,   *)
(* another is dialled and begins with a repaint.  On the hub each of these *)
(* websockets has a session of its own, registered under the agent's name, *)
(* and every browser watching is a subscriber of one of them.  A session   *)
(* never waits for a subscriber: one whose buffer is full is dropped.      *)
(*                                                                         *)
(* Output is a sequence of pieces, 1, 2, ...; a message is a piece, or a   *)
(* repaint that holds everything up to one.  A terminal that is fed a      *)
(* piece out of turn is Garbled.                                           *)
(***************************************************************************)
EXTENDS Naturals, Sequences, FiniteSets

CONSTANTS
    Viewers,     \* browsers, each with one watch websocket at a time
    Dials,       \* how many screen websockets the host opens: a bound
    MaxOutput,   \* pieces the agent writes: a bound
    Buffer,      \* viewerBuffer
    Blank, Garbled, None

ASSUME BoundsAssumption == {Dials, MaxOutput, Buffer} \subseteq Nat \ {0}

ASSUME TokensAssumption == {Blank, Garbled, None} \cap Nat = {} /\ Blank # Garbled

VARIABLES
    output,      \* pieces written: what the host's session has drawn
    push,        \* the host's push: its stage, and the websocket it sends on
    feed,        \* its subscription to the host's session
    wire,        \* [1..Dials -> Seq(Message)], sent by push, not yet read
    reader,      \* [1..Dials -> stage], the hub's handleScreen for each
    content,     \* [1..Dials -> what the hub's session of each has drawn]
    subs,        \* [1..Dials -> SUBSET Viewers], its subscribers
    current,     \* the session registered under the agent's name, or None
    watch,       \* [Viewers -> stage and session of its handleWatch]
    sub,         \* [Viewers -> its subscription]
    shown        \* [Viewers -> what its terminal has drawn]

hostVars  == <<output, push, feed>>
hubVars   == <<reader, content, subs, current>>
watchVars == <<watch, sub, shown>>
vars == <<hostVars, wire, hubVars, watchVars>>

-----------------------------------------------------------------------------
(* Messages, terminals and subscriptions.                                  *)

Sockets == 1..Dials
Painted == (0..MaxOutput) \cup {Blank, Garbled}

Piece(n)   == [kind |-> "piece", at |-> n]
Repaint(p) == [kind |-> "repaint", at |-> p]

Message == [kind : {"piece", "repaint"}, at : Painted]

\* What a terminal shows after m.
Draw(p, m) ==
    IF m.kind = "repaint" THEN m.at
    ELSE IF p \notin {Blank, Garbled} /\ m.at = p + 1 THEN m.at ELSE Garbled

\* A subscriber's channel.
NoSub   == [ch |-> <<>>, closed |-> TRUE]
NewSub  == [ch |-> <<>>, closed |-> FALSE]

\* Mutant: a full buffer loses the message, not the subscriber.
Offer_Skips(s, m) ==
    IF Len(s.ch) < Buffer THEN [s EXCEPT !.ch = Append(@, m)] ELSE s

\* Mutant: one message more than the buffer holds.
Offer_OneMore(s, m) ==
    IF Len(s.ch) <= Buffer THEN [s EXCEPT !.ch = Append(@, m)]
    ELSE [s EXCEPT !.closed = TRUE]

\* send, to one subscriber: it gets the message or, its buffer full, is
\* dropped, and reads what it has to the end.
Offer(s, m) ==
    IF Len(s.ch) < Buffer THEN [s EXCEPT !.ch = Append(@, m)]
    ELSE [s EXCEPT !.closed = TRUE]

Kept(s) == Len(s.ch) < Buffer

Away == [stage |-> "away", live |-> None, backlog |-> Blank, late |-> FALSE]

Init ==
    /\ output = 0
    /\ push = [stage |-> "down", on |-> 0] /\ feed = NoSub
    /\ wire = [s \in Sockets |-> <<>>]
    /\ reader = [s \in Sockets |-> "none"]
    /\ content = [s \in Sockets |-> Blank]
    /\ subs = [s \in Sockets |-> {}] /\ current = None
    /\ watch = [v \in Viewers |-> Away]
    /\ sub = [v \in Viewers |-> NoSub]
    /\ shown = [v \in Viewers |-> Blank]

-----------------------------------------------------------------------------
(* The host.                                                               *)

\* The agent writes: Session.Write on the host, with push as its subscriber.
AgentWrites ==
    /\ output < MaxOutput
    /\ output' = output + 1
    /\ feed' = IF feed.closed THEN feed ELSE Offer(feed, Piece(output + 1))
    /\ UNCHANGED <<push, wire, hubVars, watchVars>>

\* push dials the hub and says hello.
Dial ==
    /\ push.stage = "down" /\ push.on < Dials
    /\ push' = [stage |-> "greeted", on |-> push.on + 1]
    /\ reader' = [reader EXCEPT ![push.on + 1] = "accepted"]
    /\ UNCHANGED <<output, feed, wire, content, subs, current, watchVars>>

\* It subscribes, and the backlog is what it sends first.
Subscribe ==
    /\ push.stage = "greeted"
    /\ push' = [push EXCEPT !.stage = "sending"]
    /\ feed' = NewSub
    /\ wire' = [wire EXCEPT ![push.on] = Append(@, Repaint(output))]
    /\ UNCHANGED <<output, hubVars, watchVars>>

PushSends ==
    /\ push.stage = "sending" /\ feed.ch # <<>>
    /\ wire' = [wire EXCEPT ![push.on] = Append(@, Head(feed.ch))]
    /\ feed' = [feed EXCEPT !.ch = Tail(@)]
    /\ UNCHANGED <<output, push, hubVars, watchVars>>

\* push returns: it was dropped and has read its channel to the end, ...
PushDropped ==
    /\ push.stage = "sending" /\ feed.closed /\ feed.ch = <<>>
    /\ push' = [push EXCEPT !.stage = "down"]
    /\ UNCHANGED <<output, feed, wire, hubVars, watchVars>>

\* ... or its websocket failed; either way it unsubscribes.
PushFails ==
    /\ push.stage \in {"greeted", "sending"}
    /\ push' = [push EXCEPT !.stage = "down"]
    /\ feed' = NoSub
    /\ UNCHANGED <<output, wire, hubVars, watchVars>>

-----------------------------------------------------------------------------
(* The hub's end of a screen websocket.                                    *)

\* drop, of each viewer of vs: its channel is closed, to be read to the end.
Dropped(vs) == [v \in Viewers |-> IF v \in vs THEN [sub[v] EXCEPT !.closed = TRUE] ELSE sub[v]]

\* Mutant: the session before is left to its viewers.
Open_KeepsWatchers(s) ==
    /\ reader[s] = "accepted"
    /\ reader' = [reader EXCEPT ![s] = "reading"]
    /\ current' = s
    /\ UNCHANGED <<hostVars, wire, content, subs, watchVars>>

\* The hello is read and screens.open registers a new session, closing the one
\* that was there: its handler reads on, into a session nobody finds any more.
Open(s) ==
    /\ reader[s] = "accepted"
    /\ reader' = [reader EXCEPT ![s] = "reading"]
    /\ current' = s
    /\ IF current = None THEN UNCHANGED <<subs, sub>>
       ELSE /\ subs' = [subs EXCEPT ![current] = {}]
            /\ sub' = Dropped(subs[current])
    /\ UNCHANGED <<hostVars, wire, content, watch, shown>>

\* Mutant: a viewer that is dropped stays subscribed.
Write_KeepsDropped(s) ==
    /\ reader[s] = "reading" /\ wire[s] # <<>>
    /\ LET m == Head(wire[s])
       IN  /\ content' = [content EXCEPT ![s] = Draw(@, m)]
           /\ sub' = [v \in Viewers |-> IF v \in subs[s] THEN Offer(sub[v], m) ELSE sub[v]]
    /\ wire' = [wire EXCEPT ![s] = Tail(@)]
    /\ UNCHANGED <<hostVars, reader, subs, current, watch, shown>>

\* A message arrives: Session.Write draws it and sends it on.
Write(s) ==
    /\ reader[s] = "reading" /\ wire[s] # <<>>
    /\ LET m == Head(wire[s])
       IN  /\ content' = [content EXCEPT ![s] = Draw(@, m)]
           /\ sub' = [v \in Viewers |-> IF v \in subs[s] THEN Offer(sub[v], m) ELSE sub[v]]
           /\ subs' = [subs EXCEPT ![s] = {v \in @ : Kept(sub[v])}]
    /\ wire' = [wire EXCEPT ![s] = Tail(@)]
    /\ UNCHANGED <<hostVars, reader, current, watch, shown>>

\* Mutant: whatever is registered under the name goes.
ScreenEnds_Unchecked(s) ==
    /\ reader[s] \in {"accepted", "reading"}
    /\ reader' = [reader EXCEPT ![s] = "ended"]
    /\ wire' = [wire EXCEPT ![s] = <<>>]
    /\ current' = None
    /\ subs' = [subs EXCEPT ![s] = {}]
    /\ sub' = Dropped(subs[s])
    /\ UNCHANGED <<hostVars, content, watch, shown>>

\* The websocket ends, everything in it read or not, whichever side notices
\* first: screens.close closes the session if it is still the one registered.
ScreenEnds(s) ==
    /\ reader[s] \in {"accepted", "reading"}
    /\ reader' = [reader EXCEPT ![s] = "ended"]
    /\ wire' = [wire EXCEPT ![s] = <<>>]
    /\ IF current = s
       THEN /\ current' = None
            /\ subs' = [subs EXCEPT ![s] = {}]
            /\ sub' = Dropped(subs[s])
       ELSE UNCHANGED <<current, subs, sub>>
    /\ UNCHANGED <<hostVars, content, watch, shown>>

-----------------------------------------------------------------------------
(* The hub's end of a watch websocket.                                     *)

\* handleWatch finds the agent's session; with none it answers 404.
Find(v) ==
    /\ watch[v].stage = "away" /\ current # None
    /\ watch' = [watch EXCEPT ![v] = [Away EXCEPT !.stage = "found", !.live = current]]
    /\ UNCHANGED <<hostVars, wire, hubVars, sub, shown>>

\* Having accepted the websocket it subscribes, and holds the backlog; "late"
\* notes a session that is no longer the one registered.
Join(v) ==
    /\ watch[v].stage = "found"
    /\ LET s == watch[v].live
       IN  /\ watch' = [watch EXCEPT ![v] = [stage |-> "joined", live |-> s,
                                            backlog |-> content[s], late |-> s # current]]
           /\ subs' = [subs EXCEPT ![s] = @ \cup {v}]
    /\ sub' = [sub EXCEPT ![v] = NewSub]
    /\ UNCHANGED <<hostVars, wire, reader, content, current, shown>>

\* The backlog is sent; a blank screen is no repaint.
SendBacklog(v) ==
    /\ watch[v].stage = "joined"
    /\ watch' = [watch EXCEPT ![v].stage = "streaming"]
    /\ shown' = [shown EXCEPT ![v] = watch[v].backlog]
    /\ UNCHANGED <<hostVars, wire, hubVars, sub>>

Deliver(v) ==
    /\ watch[v].stage = "streaming" /\ sub[v].ch # <<>>
    /\ shown' = [shown EXCEPT ![v] = Draw(@, Head(sub[v].ch))]
    /\ sub' = [sub EXCEPT ![v].ch = Tail(@)]
    /\ UNCHANGED <<hostVars, wire, hubVars, watch>>

\* handleWatch returns: it unsubscribes, and the browser will reconnect.
Leave(v) ==
    /\ watch' = [watch EXCEPT ![v] = Away]
    /\ subs' = [s \in Sockets |-> subs[s] \ {v}]
    /\ sub' = [sub EXCEPT ![v] = NoSub]
    /\ shown' = [shown EXCEPT ![v] = Blank]
    /\ UNCHANGED <<hostVars, wire, reader, content, current>>

\* Its channel is closed and read to the end.
StreamEnds(v) ==
    /\ watch[v].stage = "streaming" /\ sub[v].closed /\ sub[v].ch = <<>>
    /\ Leave(v)

\* The browser goes, or stops answering, or is no longer a member.
ViewerGoes(v) == watch[v].stage # "away" /\ Leave(v)

-----------------------------------------------------------------------------
Next ==
    \/ AgentWrites
    \/ Dial \/ Subscribe \/ PushSends \/ PushDropped \/ PushFails
    \/ \E s \in Sockets : Open(s) \/ Write(s) \/ ScreenEnds(s)
    \/ \E v \in Viewers : \/ Find(v) \/ Join(v) \/ SendBacklog(v) \/ Deliver(v)
                           \/ StreamEnds(v) \/ ViewerGoes(v)

Spec == Init /\ [][Next]_vars

\* Goroutines run on, a broken websocket is noticed at both ends (Keepalive),
\* and push dials again.
FairSpec ==
    /\ Spec
    /\ WF_vars(Dial \/ Subscribe \/ PushSends \/ PushDropped)
    /\ WF_vars(push.on > 0 /\ reader[push.on] = "ended" /\ PushFails)
    /\ \A s \in Sockets :
          /\ WF_vars(Open(s) \/ Write(s))
          /\ WF_vars((push.on # s \/ push.stage = "down") /\ ScreenEnds(s))
    /\ \A v \in Viewers : WF_vars(Join(v) \/ SendBacklog(v) \/ Deliver(v) \/ StreamEnds(v))

-----------------------------------------------------------------------------
(* Properties.                                                             *)

Channels == [ch : Seq(Message), closed : BOOLEAN]
Bounded(c) == c \in Channels /\ Len(c.ch) <= Buffer

TypeOK ==
    /\ output \in 0..MaxOutput
    /\ push \in [stage : {"down", "greeted", "sending"}, on : 0..Dials]
    /\ Bounded(feed)
    /\ wire \in [Sockets -> Seq(Message)]
    /\ reader \in [Sockets -> {"none", "accepted", "reading", "ended"}]
    /\ content \in [Sockets -> Painted]
    /\ subs \in [Sockets -> SUBSET Viewers]
    /\ current \in Sockets \cup {None}
    /\ watch \in [Viewers -> [stage : {"away", "found", "joined", "streaming"},
                              live : Sockets \cup {None}, backlog : Painted, late : BOOLEAN]]
    /\ \A v \in Viewers : Bounded(sub[v])
    /\ shown \in [Viewers -> Painted]

\* A session sends only to subscribers whose channel is open, which in Go is
\* the difference between a message and a panic, and each of those belongs to a
\* watch of that very session (send, drop, cancel).
SubscribersAreOpen ==
    \A s \in Sockets : \A v \in subs[s] : ~sub[v].closed /\ watch[v].live = s

\* What is registered under the agent's name has a websocket feeding it, and no
\* viewer who came in time is left on anything else (screens.open, screens.close).
RegisteredIsFed ==
    /\ current # None => reader[current] = "reading"
    /\ \A s \in Sockets : \A v \in subs[s] : s = current \/ watch[v].late

\* What every browser shows is what the agent's terminal showed, whole, and it
\* moves through the output piece by piece (ScreenFeed; Subscribe takes the
\* backlog and registers the stream in one critical section, and send drops a
\* viewer rather than skip).
Feed == INSTANCE ScreenFeed
            WITH Viewers <- Viewers, Blank <- Blank, output <- output, shown <- shown
FeedSpec == Feed!Spec

\* A browser that was subscribed before its screen was replaced or closed
\* catches up or is disconnected, and then it reconnects (send, drop, Close).
ViewersCatchUp ==
    \A v \in Viewers, n \in 0..MaxOutput :
        (shown[v] = n /\ output > n /\ ~watch[v].late) ~> (shown[v] # n)

=============================================================================
