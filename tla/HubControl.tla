----------------------------- MODULE HubControl -----------------------------
(***************************************************************************)
(* How the hub starts and stops agents on the hosts that are connected to  *)
(* it: the registry (internal/hub/registry.go), the stop requests          *)
(* (internal/hub/stops.go) and the handlers that use them, handleHost,     *)
(* handleCreate and handleDelete (internal/hub/server.go).                 *)
(*                                                                         *)
(* A member's request is a goroutine that takes the registry's lock, the   *)
(* stop requests' lock and the host's websocket one after the other and    *)
(* holds none of them in between, so every such section is an action here. *)
(* The host's side (internal/host/host.go, agents.go) is kept to what the  *)
(* hub can see of it: what runs, what is being stopped, and the reports.   *)
(*                                                                         *)
(* An agent is the moment it was created at (Agent.CreatedAt, a clock      *)
(* reading the hub stamps on it under the registry's lock and never stamps *)
(* twice); None stands for no agent.  The directory, the command and the   *)
(* label are left out: Add's refusals over them have the outcome of a      *)
(* taken name, which is that nothing changes.                              *)
(***************************************************************************)
EXTENDS Naturals, Sequences

CONSTANTS
  Hosts,        \* host ids of the org file
  Names,        \* agent names members may pick
  Requests,     \* handler goroutines serving members
  NoHost, NoName, NoRequest,
  Restored,     \* what each host runs at the start: [Hosts -> [Names -> agent]]
  FirstCreated, \* the clock at the start, above every restored agent's
  MaxCreated,   \* bound: last agent the clock lets members create
  MaxStops,     \* bound: last id of a stop request
  MaxDials,     \* bound: connections each host opens, [Hosts -> Nat]
  ReportBuffer, \* room in a host's reports channel (64 in the code)
  MaxExits,     \* bound: agents that give up or fail to start
  Patience      \* TRUE where stopTimeout (15 s) is never up

None == 0
Agents == 0..MaxCreated
StopIds == 0..MaxStops

ASSUME NullsAssumption == /\ NoHost \notin Hosts
                          /\ NoName \notin Names
                          /\ NoRequest \notin Requests
ASSUME BoundsAssumption == /\ MaxCreated \in Nat /\ MaxStops \in Nat
                           /\ MaxDials \in [Hosts -> Nat] /\ MaxExits \in Nat /\ ReportBuffer \in Nat
                           /\ Patience \in BOOLEAN
                           /\ FirstCreated \in 1..(MaxCreated + 1)
ASSUME RestoredAssumption == /\ Restored \in [Hosts -> [Names -> Agents]]
                             /\ \A h \in Hosts, n \in Names : Restored[h][n] < FirstCreated
                             /\ \A h \in Hosts, m, n \in Names :
                                  Restored[h][m] = Restored[h][n] /\ m # n => Restored[h][m] = None

VARIABLES
  agents,    \* registry: agents[h][n], what host h is listed as running as n
  failed,    \* registry: names of h whose Status is "failed"
  clock,     \* registry: the next CreatedAt
  pending,   \* stops.pending: the request whose pendingStop holds the name
  nextStop,  \* stops.next
  req,       \* the request goroutines, each with its locals and its pendingStop
  hubConn,   \* stage of handleHost for h: none, joined, closed, dropped
  session,   \* the connection handleHost serves for h
  welcomed,  \* whether handleHost has written its welcome
  hostConn,  \* the host's end: down, dialed (no welcome yet), up
  dial,      \* the connection the host has open, or had last
  hello,     \* Specs() as the host sent it when it dialed
  commands,  \* hub to host, on the connection both ends share
  running,   \* host: what it runs under each name
  stopping,  \* host: names whose process was told to end
  awaiting,  \* host: stops of this connection not reported yet
  reports,   \* host: the reports channel, kept across connections
  exits,     \* how many agents gave up so far
  finished,  \* history: ids of the stop requests the host saw through
  deleted    \* history: agents a member was told are gone (204)

regVars == <<agents, failed, clock>>
stopVars == <<pending, nextStop>>
hubVars == <<regVars, stopVars, req>>
linkVars == <<hubConn, session, welcomed, hostConn, dial, hello>>
hostVars == <<running, stopping, awaiting, exits, finished>>
vars == <<hubVars, linkVars, commands, hostVars, reports, deleted>>

Greeting == [type |-> "welcome", name |-> NoName, agent |-> None, id |-> 0]
NothingRuns == [n \in Names |-> None]

Idle == [pc |-> "idle", host |-> NoHost, name |-> NoName, agent |-> None,
         conn |-> 0, id |-> 0, result |-> "none"]

Creating == {"added", "spawning", "undo"}
Stopping == {"begun", "sending", "waiting", "confirmed", "finish"}

Init ==
  /\ agents = [h \in Hosts |-> NothingRuns]
  /\ failed = [h \in Hosts |-> {}]
  /\ clock = FirstCreated
  /\ pending = [n \in Names |-> NoRequest]
  /\ nextStop = 0
  /\ req = [r \in Requests |-> Idle]
  /\ hubConn = [h \in Hosts |-> "none"]
  /\ session = [h \in Hosts |-> 0]
  /\ welcomed = [h \in Hosts |-> FALSE]
  /\ hostConn = [h \in Hosts |-> "down"]
  /\ dial = [h \in Hosts |-> 0]
  /\ hello = [h \in Hosts |-> NothingRuns]
  /\ commands = [h \in Hosts |-> <<>>]
  /\ running = Restored
  /\ stopping = [h \in Hosts |-> {}]
  /\ awaiting = [h \in Hosts |-> {}]
  /\ reports = [h \in Hosts |-> <<>>]
  /\ exits = 0
  /\ finished = {}
  /\ deleted = {}

-----------------------------------------------------------------------------
(* The registry, under its mutex. *)

\* Registry.find looks in the agents of every connected host.
Listed(h, n, a) == a # None /\ agents[h][n] = a
Taken(n) == \E h \in Hosts : agents[h][n] # None
Connected(h) == hubConn[h] # "none"
ConnectedInstead(h, n) == Connected(h)   \* mutant: the host was found, not the agent
TakenOn(h, n) == agents[h][n] # None
TakenHere(h, n) == agents[h][n] # None   \* mutant: looks among the host's own agents
TakenElsewhere(h, n) == \E g \in Hosts \ {h} : agents[g][n] # None

\* What RemoveIf and SenderFor ask: the name still means the agent r was shown.
SameAgent(r) == Listed(req[r].host, req[r].name, req[r].agent)

\* A Sender is bound to the connection that was open when it was handed out.
\* It fails once the hub's end is closed; a host that is already gone is not
\* noticed, and what is sent to it is lost.
CanSend(r) == hubConn[req[r].host] = "joined" /\ session[req[r].host] = req[r].conn
Reaches(h) == hostConn[h] # "down" /\ dial[h] = session[h]
Send(h, c) == commands' = IF Reaches(h) THEN [commands EXCEPT ![h] = Append(@, c)]
                          ELSE commands

\* delete(h.agents, name), as Remove and RemoveIf do.
Unlist(h, n) == /\ agents' = [agents EXCEPT ![h][n] = None]
                /\ failed' = [failed EXCEPT ![h] = @ \ {n}]

(* The stop requests, under their mutex. *)

\* stops.begin: the name has no stop pending.
BeginAnyway(n) == TRUE                   \* mutant: no check for one under way
MayBegin(n) == pending[n] = NoRequest

\* stops.dropHost: the pendingStop of r is in the map, and is for host h.
NoStopOf(r, h) == FALSE                  \* mutant: dropHost is not called
StopOf(r, h) == \E n \in Names : pending[n] = r /\ req[r].host = h

\* stops.ack: a report completes the one request whose host and id it carries.
\* Mutant: the id is not compared.
AcksByName(r, h, m) == pending[m.name] = r /\ req[r].host = h
Acks(r, h, m) == /\ pending[m.name] = r
                 /\ req[r].host = h
                 /\ req[r].id = m.id

(* Agents.report: a full channel drops the news rather than block. *)
Report(h, type, n) ==
  reports' = IF Len(reports[h]) < ReportBuffer
             THEN [reports EXCEPT ![h] = Append(@, [type |-> type, name |-> n, id |-> 0])]
             ELSE reports

Goto(r, pc) == req' = [req EXCEPT ![r].pc = pc]
Answer(r) == req' = [req EXCEPT ![r] = Idle]

-----------------------------------------------------------------------------
(* POST /v1/agents: handleCreate. *)

\* registry.Add: the host is connected, the name is free everywhere.
CreateAdd(r, h, n) ==
  /\ req[r].pc = "idle"
  /\ Connected(h) /\ ~Taken(n)
  /\ clock <= MaxCreated
  /\ agents' = [agents EXCEPT ![h][n] = clock]
  /\ clock' = clock + 1
  /\ req' = [req EXCEPT ![r] = [Idle EXCEPT !.pc = "added", !.host = h, !.name = n,
                                            !.agent = clock, !.conn = session[h]]]
  /\ UNCHANGED <<failed, stopVars, linkVars, commands, hostVars, reports, deleted>>

\* registry.Agent(agent.Name) reads the agent back by its name: whoever has the
\* name by now is what the host will be asked to run.
CreateRead(r) ==
  /\ req[r].pc = "added"
  /\ \/ /\ ~Taken(req[r].name)
        /\ Answer(r)
     \/ \E h \in Hosts :
          /\ TakenOn(h, req[r].name)
          /\ req' = [req EXCEPT ![r].pc = "spawning",
                                ![r].agent = agents[h][req[r].name]]
  /\ UNCHANGED <<regVars, stopVars, linkVars, commands, hostVars, reports, deleted>>

CreateSend(r) ==
  /\ req[r].pc = "spawning"
  /\ \/ /\ CanSend(r)
        /\ Send(req[r].host, [type |-> "spawn", name |-> req[r].name,
                              agent |-> req[r].agent, id |-> 0])
        /\ Answer(r)
     \/ /\ ~CanSend(r)
        /\ Goto(r, "undo")
        /\ UNCHANGED commands
  /\ UNCHANGED <<regVars, stopVars, linkVars, hostVars, reports, deleted>>

\* registry.Remove: whatever agent has the name, on whatever host.
CreateUndo(r) ==
  /\ req[r].pc = "undo"
  /\ \/ \E h \in Hosts : TakenOn(h, req[r].name) /\ Unlist(h, req[r].name)
     \/ ~Taken(req[r].name) /\ UNCHANGED <<agents, failed>>
  /\ Answer(r)
  /\ UNCHANGED <<clock, stopVars, linkVars, commands, hostVars, reports, deleted>>

-----------------------------------------------------------------------------
(* DELETE /v1/agents/{name}: handleDelete.  The pendingStop it creates lives *)
(* in the request's own record: host, id, and result, which is "none" until  *)
(* done is set and the channel filled.                                       *)

\* registry.Agent(name).
DeleteRead(r, h, n) ==
  /\ req[r].pc = "idle"
  /\ TakenOn(h, n)
  /\ req' = [req EXCEPT ![r] = [Idle EXCEPT !.pc = "chosen", !.host = h, !.name = n,
                                            !.agent = agents[h][n]]]
  /\ UNCHANGED <<regVars, stopVars, linkVars, commands, hostVars, reports, deleted>>

\* stops.begin: one stop of a name at a time, each with an id of its own.
DeleteBegin(r) ==
  /\ req[r].pc = "chosen"
  /\ \/ /\ MayBegin(req[r].name)
        /\ nextStop < MaxStops
        /\ nextStop' = nextStop + 1
        /\ pending' = [pending EXCEPT ![req[r].name] = r]
        /\ req' = [req EXCEPT ![r].pc = "begun", ![r].id = nextStop + 1]
     \/ /\ ~MayBegin(req[r].name)
        /\ Answer(r)
        /\ UNCHANGED stopVars
  /\ UNCHANGED <<regVars, linkVars, commands, hostVars, reports, deleted>>

\* registry.SenderFor: only if the name is still the agent the member saw.
DeleteSender(r) ==
  /\ req[r].pc = "begun"
  /\ \/ /\ SameAgent(r)
        /\ req' = [req EXCEPT ![r].pc = "sending", ![r].conn = session[req[r].host]]
     \/ /\ ~SameAgent(r)
        /\ Goto(r, "finish")
  /\ UNCHANGED <<regVars, stopVars, linkVars, commands, hostVars, reports, deleted>>

DeleteSend(r) ==
  /\ req[r].pc = "sending"
  /\ \/ /\ CanSend(r)
        /\ Send(req[r].host, [type |-> "stop", name |-> req[r].name,
                              agent |-> None, id |-> req[r].id])
        /\ Goto(r, "waiting")
     \/ /\ ~CanSend(r)
        /\ Goto(r, "finish")
        /\ UNCHANGED commands
  /\ UNCHANGED <<regVars, stopVars, linkVars, hostVars, reports, deleted>>

AnyResult(r) == req[r].result # "none"   \* mutant: a failed stop counts as well
Confirmed(r) == req[r].result = "stopped"

\* The select: a result that is there is taken...
DeleteResult(r) ==
  /\ req[r].pc = "waiting"
  /\ req[r].result # "none"
  /\ Goto(r, IF Confirmed(r) THEN "confirmed" ELSE "finish")
  /\ UNCHANGED <<regVars, stopVars, linkVars, commands, hostVars, reports, deleted>>

\* ...unless stopTimeout was up as well: the select may then take either.
DeleteTimeout(r) ==
  /\ req[r].pc = "waiting"
  /\ ~Patience
  /\ Goto(r, "finish")
  /\ UNCHANGED <<regVars, stopVars, linkVars, commands, hostVars, reports, deleted>>

\* registry.RemoveIf, then the answer: 204 if it removed the agent, 409 if not.
DeleteRemove(r) ==
  /\ req[r].pc = "confirmed"
  /\ \/ /\ SameAgent(r)
        /\ Unlist(req[r].host, req[r].name)
        /\ deleted' = deleted \cup {req[r].agent}
     \/ /\ ~SameAgent(r)
        /\ UNCHANGED <<agents, failed, deleted>>
  /\ Goto(r, "finish")
  /\ UNCHANGED <<clock, stopVars, linkVars, commands, hostVars, reports>>

\* The deferred stops.finish.
DeleteFinish(r) ==
  /\ req[r].pc = "finish"
  /\ pending' = IF pending[req[r].name] = r
                THEN [pending EXCEPT ![req[r].name] = NoRequest] ELSE pending
  /\ Answer(r)
  /\ UNCHANGED <<regVars, nextStop, linkVars, commands, hostVars, reports, deleted>>

-----------------------------------------------------------------------------
(* A host's connection: handleHost on the hub's side, connect on the host's. *)

\* connect: dial, then the hello with what Specs() says is running now.
Dial(h) ==
  /\ hostConn[h] = "down"
  /\ dial[h] < MaxDials[h]
  /\ hostConn' = [hostConn EXCEPT ![h] = "dialed"]
  /\ dial' = [dial EXCEPT ![h] = @ + 1]
  /\ hello' = [hello EXCEPT ![h] = running[h]]
  /\ UNCHANGED <<hubVars, hubConn, session, welcomed, commands, hostVars, reports, deleted>>

\* registry.Join: the agents of the hello whose name no other host has.
Join(h) ==
  /\ hostConn[h] = "dialed" /\ dial[h] # session[h]
  /\ hubConn[h] = "none"
  /\ hubConn' = [hubConn EXCEPT ![h] = "joined"]
  /\ session' = [session EXCEPT ![h] = dial[h]]
  /\ commands' = [commands EXCEPT ![h] = <<>>]
  /\ agents' = [agents EXCEPT ![h] =
                  [n \in Names |-> IF TakenElsewhere(h, n) THEN None ELSE hello[h][n]]]
  /\ hello' = [hello EXCEPT ![h] = NothingRuns]
  /\ UNCHANGED <<failed, clock, stopVars, req, welcomed, hostConn, dial, hostVars, reports, deleted>>

\* registry.Join refuses a second connection of a host; the host dials again.
Refuse(h) ==
  /\ hostConn[h] = "dialed" /\ dial[h] # session[h]
  /\ hubConn[h] # "none"
  /\ hostConn' = [hostConn EXCEPT ![h] = "down"]
  /\ hello' = [hello EXCEPT ![h] = NothingRuns]
  /\ UNCHANGED <<hubVars, hubConn, session, welcomed, dial, commands, hostVars, reports, deleted>>

\* The welcome is written after Join has put the host within members' reach, so
\* a command may already be ahead of it.
Welcome(h) ==
  /\ hubConn[h] = "joined" /\ ~welcomed[h]
  /\ welcomed' = [welcomed EXCEPT ![h] = TRUE]
  /\ Send(h, Greeting)
  /\ UNCHANGED <<hubVars, hubConn, session, hostConn, dial, hello, hostVars, reports, deleted>>

\* The hub's end fails: a read error, a ping unanswered, a revoked token.
HubClosed(h) ==
  /\ hubConn[h] = "joined"
  /\ hubConn' = [hubConn EXCEPT ![h] = "closed"]
  /\ UNCHANGED <<hubVars, session, welcomed, hostConn, dial, hello, commands, hostVars, reports, deleted>>

\* Deferred: stops.dropHost, before anything else can use the host's name.
DropHost(h) ==
  /\ hubConn[h] = "closed"
  /\ hubConn' = [hubConn EXCEPT ![h] = "dropped"]
  /\ req' = [r \in Requests |->
               IF StopOf(r, h) /\ req[r].result = "none"
               THEN [req[r] EXCEPT !.result = "dropped"] ELSE req[r]]
  /\ UNCHANGED <<regVars, stopVars, session, welcomed,
                 hostConn, dial, hello, commands, hostVars, reports, deleted>>

\* Deferred: registry.Leave.
Leave(h) ==
  /\ hubConn[h] = "dropped"
  /\ hubConn' = [hubConn EXCEPT ![h] = "none"]
  /\ agents' = [agents EXCEPT ![h] = NothingRuns]
  /\ failed' = [failed EXCEPT ![h] = {}]
  /\ welcomed' = [welcomed EXCEPT ![h] = FALSE]
  /\ UNCHANGED <<clock, stopVars, req, session, hostConn, dial,
                 hello, commands, hostVars, reports, deleted>>

\* handleHost reads a report: stops.ack, or registry.SetStatus.
HubReport(h) ==
  /\ hubConn[h] = "joined"
  /\ hostConn[h] = "up" /\ dial[h] = session[h]
  /\ reports[h] # <<>>
  /\ reports' = [reports EXCEPT ![h] = Tail(@)]
  /\ LET m == Head(reports[h]) IN
       \/ /\ m.type = "stopped"
          /\ req' = [r \in Requests |->
                       IF Acks(r, h, m) /\ req[r].result = "none"
                       THEN [req[r] EXCEPT !.result = "stopped"] ELSE req[r]]
          /\ UNCHANGED failed
       \/ /\ m.type \in {"failed", "running"}
          /\ failed' = [failed EXCEPT ![h] =
                          IF ~TakenOn(h, m.name) THEN @
                          ELSE IF m.type = "failed" THEN @ \cup {m.name}
                          ELSE @ \ {m.name}]
          /\ UNCHANGED req
  /\ UNCHANGED <<agents, clock, stopVars, linkVars, commands, hostVars, deleted>>

-----------------------------------------------------------------------------
(* The host, as far as the hub can tell: obey, report and the agents. *)

\* The host's end of the connection is gone, with what was under way to it and
\* the goroutines that waited for stops (their context is the connection's).
HangUp(h) ==
  /\ hostConn' = [hostConn EXCEPT ![h] = "down"]
  /\ hello' = [hello EXCEPT ![h] = NothingRuns]
  /\ commands' = [commands EXCEPT ![h] = <<>>]
  /\ awaiting' = [awaiting EXCEPT ![h] = {}]

\* The connection fails.  Reports already taken from the channel are lost.
HostDown(h) ==
  /\ hostConn[h] # "down"
  /\ HangUp(h)
  /\ \E lost \in 0..Len(reports[h]) :
       reports' = [reports EXCEPT ![h] = SubSeq(@, lost + 1, Len(@))]
  /\ UNCHANGED <<hubVars, hubConn, session, welcomed, dial,
                 running, stopping, exits, finished, deleted>>

\* The host's process restarts: Restore starts what the state file lists, which
\* still has the agents that were being stopped.
HostRestart(h) ==
  /\ HangUp(h)
  /\ stopping' = [stopping EXCEPT ![h] = {}]
  /\ reports' = [reports EXCEPT ![h] = <<>>]
  /\ UNCHANGED <<hubVars, hubConn, session, welcomed, dial,
                 running, exits, finished, deleted>>

\* connect: the first message has to be the welcome, or the host hangs up.
HostWelcome(h) ==
  /\ hostConn[h] = "dialed" /\ dial[h] = session[h]
  /\ commands[h] # <<>>
  /\ \/ /\ Head(commands[h]).type = "welcome"
        /\ hostConn' = [hostConn EXCEPT ![h] = "up"]
        /\ commands' = [commands EXCEPT ![h] = Tail(@)]
        /\ UNCHANGED <<awaiting, hello>>
     \/ /\ Head(commands[h]).type # "welcome"
        /\ HangUp(h)
  /\ UNCHANGED <<hubVars, hubConn, session, welcomed, dial,
                 running, stopping, exits, finished, reports, deleted>>

Obeying(h, type) == /\ hostConn[h] = "up" /\ dial[h] = session[h]
                    /\ commands[h] # <<>>
                    /\ Head(commands[h]).type = type

\* obey, "spawn": Agents.Start refuses a name it has; it may also fail to start.
HostSpawn(h) ==
  /\ Obeying(h, "spawn")
  /\ commands' = [commands EXCEPT ![h] = Tail(@)]
  /\ LET c == Head(commands[h]) IN
       \/ /\ running[h][c.name] = None
          /\ running' = [running EXCEPT ![h][c.name] = c.agent]
          /\ Report(h, "running", c.name)
          /\ UNCHANGED exits
       \/ /\ running[h][c.name] # None
          /\ Report(h, "failed", c.name)
          /\ UNCHANGED <<running, exits>>
       \/ /\ running[h][c.name] = None
          /\ exits < MaxExits
          /\ exits' = exits + 1
          /\ Report(h, "failed", c.name)
          /\ UNCHANGED running
  /\ UNCHANGED <<hubVars, linkVars, stopping, awaiting, finished, deleted>>

\* obey, "stop": Agents.Stop marks the process, if there is one; a goroutine of
\* this connection waits for its end.
HostStop(h) ==
  /\ Obeying(h, "stop")
  /\ commands' = [commands EXCEPT ![h] = Tail(@)]
  /\ LET c == Head(commands[h]) IN
       /\ awaiting' = [awaiting EXCEPT ![h] =
                         @ \cup {[name |-> c.name, id |-> c.id, agent |-> running[h][c.name]]}]
       /\ stopping' = [stopping EXCEPT ![h] =
                         IF running[h][c.name] = None THEN @ ELSE @ \cup {c.name}]
  /\ UNCHANGED <<hubVars, linkVars, running, exits, finished, reports, deleted>>

\* The process a stop is for has ended: its record goes, and done is closed.
HostStopped(h, n) ==
  /\ n \in stopping[h]
  /\ stopping' = [stopping EXCEPT ![h] = @ \ {n}]
  /\ running' = [running EXCEPT ![h][n] = None]
  /\ UNCHANGED <<hubVars, linkVars, commands, awaiting, exits, finished, reports, deleted>>

\* The stop's goroutine sees done and puts its report in the channel.
HostAck(h, w) ==
  /\ w \in awaiting[h]
  /\ w.agent = None \/ running[h][w.name] # w.agent
  /\ Len(reports[h]) < ReportBuffer
  /\ awaiting' = [awaiting EXCEPT ![h] = @ \ {w}]
  /\ reports' = [reports EXCEPT ![h] =
                   Append(@, [type |-> "stopped", name |-> w.name, id |-> w.id])]
  /\ finished' = finished \cup {w.id}
  /\ UNCHANGED <<hubVars, linkVars, commands, running, stopping, exits, deleted>>

\* An agent will not stay up: supervision forgets it and reports it failed.
HostGivesUp(h, n) ==
  /\ running[h][n] # None /\ n \notin stopping[h]
  /\ exits < MaxExits
  /\ exits' = exits + 1
  /\ running' = [running EXCEPT ![h][n] = None]
  /\ Report(h, "failed", n)
  /\ UNCHANGED <<hubVars, linkVars, commands, stopping, awaiting, finished, deleted>>

-----------------------------------------------------------------------------
RequestStep(r) ==
  \/ CreateRead(r) \/ CreateSend(r) \/ CreateUndo(r)
  \/ DeleteBegin(r) \/ DeleteSender(r) \/ DeleteSend(r) \/ DeleteResult(r)
  \/ DeleteRemove(r) \/ DeleteFinish(r)

Next ==
  \/ \E r \in Requests : RequestStep(r) \/ DeleteTimeout(r)
  \/ \E r \in Requests, h \in Hosts, n \in Names : CreateAdd(r, h, n) \/ DeleteRead(r, h, n)
  \/ \E h \in Hosts :
       \/ Dial(h) \/ Join(h) \/ Refuse(h) \/ Welcome(h)
       \/ HubClosed(h) \/ DropHost(h) \/ Leave(h) \/ HubReport(h)
       \/ HostDown(h) \/ HostRestart(h) \/ HostWelcome(h) \/ HostSpawn(h) \/ HostStop(h)
       \/ \E n \in Names : HostStopped(h, n) \/ HostGivesUp(h, n)
       \/ \E w \in awaiting[h] : HostAck(h, w)

Spec == Init /\ [][Next]_vars

(* Goroutines are scheduled, a live connection delivers, and a dead one is   *)
(* noticed by the pings of both ends (session.Keepalive).  Nothing is        *)
(* assumed of members, of hosts dialing again, or of the stop's timeout.     *)
Notices(h) == HubClosed(h) /\ ~Reaches(h)
Obeys(h) == HostWelcome(h) \/ HostSpawn(h) \/ HostStop(h)

FairSpec ==
  /\ Spec
  /\ \A r \in Requests : WF_vars(RequestStep(r))
  /\ \A h \in Hosts : /\ WF_vars(Welcome(h))
                      /\ WF_vars(Notices(h))
                      /\ WF_vars(DropHost(h))
                      /\ WF_vars(Leave(h))
                      /\ WF_vars(HubReport(h))
                      /\ WF_vars(Obeys(h))
                      /\ WF_vars(\E n \in Names : HostStopped(h, n))
                      /\ WF_vars(\E w \in awaiting[h] : HostAck(h, w))

-----------------------------------------------------------------------------
(* What the hub promises. *)

\* A goroutine that serves a member, and every goroutine there is.
Serving == [pc : {"chosen"} \cup Creating \cup Stopping,
            host : Hosts, name : Names, agent : Agents \ {None},
            conn : Nat, id : StopIds, result : {"none", "stopped", "dropped"}]
Request == {Idle} \cup Serving
Command == [type : {"spawn", "stop"}, name : Names, agent : Agents, id : StopIds]
             \cup {Greeting}
News == [type : {"stopped", "running", "failed"}, name : Names, id : StopIds]
Wait == [name : Names, id : StopIds, agent : Agents]

HubTypeOK ==
  /\ agents \in [Hosts -> [Names -> Agents]]
  /\ failed \in [Hosts -> SUBSET Names]
  /\ clock \in 1..(MaxCreated + 1)
  /\ pending \in [Names -> Requests \cup {NoRequest}]
  /\ nextStop \in StopIds
  /\ req \in [Requests -> Request]
LinkTypeOK ==
  /\ hubConn \in [Hosts -> {"none", "joined", "closed", "dropped"}]
  /\ session \in [Hosts -> Nat]
  /\ welcomed \in [Hosts -> BOOLEAN]
  /\ hostConn \in [Hosts -> {"down", "dialed", "up"}]
  /\ dial \in [Hosts -> Nat]
  /\ hello \in [Hosts -> [Names -> Agents]]
  /\ commands \in [Hosts -> Seq(Command)]
HostTypeOK ==
  /\ running \in [Hosts -> [Names -> Agents]]
  /\ stopping \in [Hosts -> SUBSET Names]
  /\ awaiting \in [Hosts -> SUBSET Wait]
  /\ reports \in [Hosts -> Seq(News)]
  /\ exits \in 0..MaxExits
  /\ finished \in SUBSET StopIds
  /\ deleted \in SUBSET Agents

\* Every variable has the type the code gives it; a request that is served has a
\* host, a name and an agent.
TypeOK == HubTypeOK /\ LinkTypeOK /\ HostTypeOK

\* A name is an agent's address in every URL, so no two hosts may list it, even
\* when both come back from an outage running an agent of that name
\* (registry.Join, registry.Add).
NameOwnedByOneHost ==
  \A g, h \in Hosts, n \in Names :
    agents[g][n] # None /\ agents[h][n] # None => g = h

\* Whatever way a delete ends, it takes its pendingStop with it and nobody
\* else's: while the entry is there its request is under way, and while the
\* request is under way the entry is its own (stops.begin, stops.finish).
\* Otherwise a name would answer "this agent is already stopping" for ever, or
\* two deletes would share one.
StopsHaveOneOwner ==
  /\ \A n \in Names : pending[n] # NoRequest =>
       /\ req[pending[n]].pc \in Stopping
       /\ req[pending[n]].name = n
  /\ \A r \in Requests : req[r].pc \in Stopping => pending[req[r].name] = r

\* A delete believes the host only about its own request: a report that was
\* delayed, by a full channel or by a reconnect, never completes a later delete
\* of the same name (the comment on stopRequests).
StopWasConfirmed ==
  \A r \in Requests : req[r].result = "stopped" => req[r].id \in finished

\* A delete that waits for its host can still be told: the connection it sent
\* the stop over is served, or is closed with stops.dropHost yet to come.  That
\* needs dropHost to come after the close and before registry.Leave.
NoOrphanedWait ==
  \A r \in Requests :
    req[r].pc = "waiting" /\ req[r].result = "none" =>
      /\ hubConn[req[r].host] \in {"joined", "closed"}
      /\ session[req[r].host] = req[r].conn

\* Once a member was told, with 204, that an agent its host ran is gone, no host
\* runs it and no reconnect or restart brings it back to the list.  (Of an agent
\* whose spawn is still on its way this is not so: it may overtake the delete.)
\* This is of one host at a time: with two of them a create may read back another
\* host's agent of its name, and ask its own host to run that one as well.
DeletedForGood ==
  \A h \in Hosts, n \in Names :
    /\ agents[h][n] < FirstCreated => agents[h][n] \notin deleted
    /\ running[h][n] < FirstCreated => running[h][n] \notin deleted

\* A delete never sits out its timeout because a connection broke: it is
\* answered by the host or by the hub noticing that the host is gone.
DeleteAnswered ==
  \A r \in Requests : req[r].pc = "waiting" ~> req[r].pc # "waiting"

-----------------------------------------------------------------------------
(* What the code's comments say and a run refutes. *)

\* "A host that disconnects takes its agents with it" (registry.go:100): nothing
\* else takes an agent off the list but a delete of it, or the create that put
\* it there.
OnlyItsOwnLeaves ==
  [][\A h \in Hosts, n \in Names :
       agents[h][n] # None /\ agents'[h][n] # agents[h][n] =>
         \/ Leave(h)
         \/ \E r \in Requests : /\ DeleteRemove(r) \/ CreateUndo(r)
                                /\ req[r].host = h /\ req[r].agent = agents[h][n]]_vars

=============================================================================
