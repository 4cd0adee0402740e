------------------------- MODULE HubControl_proofs -------------------------
(* The safety properties of HubControl for any hosts, names and requests. *)
EXTENDS HubControl, TLAPS

-----------------------------------------------------------------------------
(* Facts about the values the variables range over. *)

LEMMA NullValues == None \in Agents /\ 0 \in StopIds /\ Agents \subseteq Nat
  BY BoundsAssumption DEF None, Agents, StopIds

\* A request that is not idle serves a member.
LEMMA ServingRequest ==
  ASSUME HubTypeOK, NEW r \in Requests, req[r].pc # "idle"
  PROVE  /\ req[r] \in Serving
         /\ req[r].host \in Hosts /\ req[r].name \in Names /\ req[r].agent \in Agents \ {None}
         /\ req[r].id \in StopIds
<1>1. req[r] \in Serving
  BY DEF HubTypeOK, Request, Idle
<1> QED
  BY <1>1 DEF Serving

\* A goroutine that is for some host serves a member.
LEMMA IdleRequest ==
  ASSUME HubTypeOK, NEW r \in Requests, NEW h \in Hosts, req[r].host = h
  PROVE  req[r].pc # "idle"
<1>1. req[r] # Idle
  BY NullsAssumption DEF Idle
<1>2. req[r] \in Serving
  BY <1>1 DEF HubTypeOK, Request
<1> QED
  BY <1>2 DEF Serving, Creating, Stopping

\* One request moves on to another valid state.
LEMMA RequestChange ==
  ASSUME HubTypeOK, NEW r \in Requests, NEW v \in Request
  PROVE  [req EXCEPT ![r] = v] \in [Requests -> Request]
  BY DEF HubTypeOK

LEMMA GotoTypeOK ==
  ASSUME HubTypeOK, NEW r \in Requests, req[r].pc # "idle",
         NEW pc \in {"chosen"} \cup Creating \cup Stopping, Goto(r, pc)
  PROVE  req' \in [Requests -> Request]
<1>1. [req[r] EXCEPT !.pc = pc] \in Serving
  BY ServingRequest DEF Serving
<1> QED
  BY <1>1, RequestChange DEF Goto, Request

LEMMA AnswerTypeOK ==
  ASSUME HubTypeOK, NEW r \in Requests, Answer(r)
  PROVE  req' \in [Requests -> Request]
  BY RequestChange DEF Answer, Request

LEMMA UnlistTypeOK ==
  ASSUME HubTypeOK, NEW h \in Hosts, NEW n \in Names, Unlist(h, n)
  PROVE  agents' \in [Hosts -> [Names -> Agents]] /\ failed' \in [Hosts -> SUBSET Names]
  BY NullValues DEF HubTypeOK, Unlist

\* What is sent to a host is the command that was meant to be.
LEMMA SendTypeOK ==
  ASSUME LinkTypeOK, NEW h \in Hosts, NEW c \in Command, Send(h, c)
  PROVE  commands' \in [Hosts -> Seq(Command)]
<1>1. Append(commands[h], c) \in Seq(Command)
  BY DEF LinkTypeOK
<1> QED
  BY <1>1 DEF LinkTypeOK, Send

\* Agents.report keeps the channel a sequence of reports.
LEMMA ReportTypeOK ==
  ASSUME HostTypeOK, NEW h \in Hosts, NEW n \in Names, NEW t \in {"running", "failed"},
         Report(h, t, n)
  PROVE  reports' \in [Hosts -> Seq(News)]
<1> DEFINE m == [type |-> t, name |-> n, id |-> 0]
<1>1. m \in News
  BY NullValues DEF News
<1> HIDE DEF m
<1>2. Append(reports[h], m) \in Seq(News)
  BY <1>1 DEF HostTypeOK
<1> QED
  BY <1>2 DEF Report, HostTypeOK, m

-----------------------------------------------------------------------------
(* Type correctness. *)

LEMMA InitTypeOK == Init => TypeOK
<1> SUFFICES ASSUME Init PROVE TypeOK
  OBVIOUS
<1>1. HubTypeOK
  BY NullValues, BoundsAssumption DEF Init, HubTypeOK, NothingRuns, Request, StopIds
<1>2. LinkTypeOK
  BY NullValues DEF Init, LinkTypeOK, NothingRuns
<1>3. HostTypeOK
  BY RestoredAssumption, BoundsAssumption DEF Init, HostTypeOK
<1> QED
  BY <1>1, <1>2, <1>3 DEF TypeOK

\* The steps a request takes by itself leave the hosts' side alone.
LEMMA RequestTypeOK ==
  ASSUME TypeOK, NEW r \in Requests, RequestStep(r) \/ DeleteTimeout(r)
  PROVE  TypeOK'
<1> USE DEF TypeOK
<1>1. CASE CreateRead(r)
  <2>1. req' \in [Requests -> Request]
    <3>1. CASE Answer(r)
      BY <3>1, AnswerTypeOK
    <3>2. ASSUME NEW h \in Hosts, TakenOn(h, req[r].name),
                 req' = [req EXCEPT ![r].pc = "spawning", ![r].agent = agents[h][req[r].name]]
          PROVE  req' \in [Requests -> Request]
      <4>1. req[r] \in Serving /\ req[r].name \in Names
        BY <1>1, ServingRequest DEF CreateRead
      <4>2. agents[h][req[r].name] \in Agents \ {None}
        BY <3>2, <4>1 DEF HubTypeOK, TakenOn
      <4>3. [req[r] EXCEPT !.pc = "spawning", !.agent = agents[h][req[r].name]] \in Request
        BY <4>1, <4>2 DEF Serving, Creating, Request
      <4>4. req' = [req EXCEPT ![r] = [req[r] EXCEPT !.pc = "spawning",
                                                     !.agent = agents[h][req[r].name]]]
        BY <3>2 DEF HubTypeOK
      <4> QED
        BY <4>3, <4>4, RequestChange
    <3> QED
      BY <1>1, <3>1, <3>2 DEF CreateRead
  <2> QED
    BY <1>1, <2>1 DEF CreateRead, HubTypeOK, LinkTypeOK, HostTypeOK,
                      regVars, stopVars, linkVars, hostVars
<1>2. CASE CreateSend(r)
  <2>1. req' \in [Requests -> Request]
    BY <1>2, AnswerTypeOK, GotoTypeOK DEF CreateSend, Creating
  <2>2. commands' \in [Hosts -> Seq(Command)]
    <3>1. req[r].host \in Hosts /\ req[r].name \in Names /\ req[r].agent \in Agents
      BY <1>2, ServingRequest DEF CreateSend
    <3>2. [type |-> "spawn", name |-> req[r].name, agent |-> req[r].agent, id |-> 0] \in Command
      BY <3>1, NullValues DEF Command
    <3> QED
      BY <1>2, <3>1, <3>2, SendTypeOK DEF CreateSend, LinkTypeOK
  <2> QED
    BY <1>2, <2>1, <2>2 DEF CreateSend, HubTypeOK, LinkTypeOK, HostTypeOK,
                            regVars, stopVars, linkVars, hostVars
<1>3. CASE CreateUndo(r)
  <2>1. req' \in [Requests -> Request]
    BY <1>3, AnswerTypeOK DEF CreateUndo
  <2>2. agents' \in [Hosts -> [Names -> Agents]] /\ failed' \in [Hosts -> SUBSET Names]
    <3>1. req[r].name \in Names
      BY <1>3, ServingRequest DEF CreateUndo
    <3> QED
      BY <1>3, <3>1, UnlistTypeOK DEF CreateUndo, HubTypeOK
  <2> QED
    BY <1>3, <2>1, <2>2 DEF CreateUndo, HubTypeOK, LinkTypeOK, HostTypeOK,
                            stopVars, linkVars, hostVars
<1>4. CASE DeleteBegin(r)
  <2>1. CASE MayBegin(req[r].name)
    <3>1. nextStop' \in StopIds /\ nextStop' = nextStop + 1
      BY <1>4, <2>1, BoundsAssumption DEF DeleteBegin, HubTypeOK, StopIds
    <3>2. req[r] \in Serving /\ req[r].name \in Names
      BY <1>4, ServingRequest DEF DeleteBegin
    <3>3. [req[r] EXCEPT !.pc = "begun", !.id = nextStop + 1] \in Request
      BY <3>1, <3>2 DEF Serving, Stopping, Request
    <3>4. req' = [req EXCEPT ![r] = [req[r] EXCEPT !.pc = "begun", !.id = nextStop + 1]]
      BY <1>4, <2>1 DEF DeleteBegin, HubTypeOK
    <3>5. req' \in [Requests -> Request]
      BY <3>3, <3>4, RequestChange
    <3>6. pending' \in [Names -> Requests \cup {NoRequest}]
      BY <1>4, <2>1, <3>2 DEF DeleteBegin, HubTypeOK
    <3> QED
      BY <1>4, <3>1, <3>5, <3>6 DEF DeleteBegin, HubTypeOK, LinkTypeOK, HostTypeOK,
                                    regVars, linkVars, hostVars
  <2>2. CASE ~MayBegin(req[r].name)
    <3>1. req' \in [Requests -> Request]
      BY <1>4, <2>2, AnswerTypeOK DEF DeleteBegin
    <3> QED
      BY <1>4, <2>2, <3>1 DEF DeleteBegin, HubTypeOK, LinkTypeOK, HostTypeOK,
                              regVars, stopVars, linkVars, hostVars
  <2> QED
    BY <2>1, <2>2
<1>5. CASE DeleteSender(r)
  <2>1. req' \in [Requests -> Request]
    <3>1. CASE Goto(r, "finish")
      BY <1>5, <3>1, GotoTypeOK DEF DeleteSender, Stopping
    <3>2. CASE req' = [req EXCEPT ![r].pc = "sending", ![r].conn = session[req[r].host]]
      <4>1. req[r] \in Serving /\ session[req[r].host] \in Nat
        BY <1>5, ServingRequest DEF DeleteSender, LinkTypeOK
      <4>2. [req[r] EXCEPT !.pc = "sending", !.conn = session[req[r].host]] \in Request
        BY <4>1 DEF Serving, Stopping, Request
      <4>3. req' = [req EXCEPT ![r] = [req[r] EXCEPT !.pc = "sending",
                                                     !.conn = session[req[r].host]]]
        BY <3>2 DEF HubTypeOK
      <4> QED
        BY <4>2, <4>3, RequestChange
    <3> QED
      BY <1>5, <3>1, <3>2 DEF DeleteSender
  <2> QED
    BY <1>5, <2>1 DEF DeleteSender, HubTypeOK, LinkTypeOK, HostTypeOK,
                      regVars, stopVars, linkVars, hostVars
<1>6. CASE DeleteSend(r)
  <2>1. req' \in [Requests -> Request]
    BY <1>6, GotoTypeOK DEF DeleteSend, Stopping
  <2>2. commands' \in [Hosts -> Seq(Command)]
    <3>1. req[r].host \in Hosts /\ req[r].name \in Names /\ req[r].id \in StopIds
      BY <1>6, ServingRequest DEF DeleteSend
    <3>2. [type |-> "stop", name |-> req[r].name, agent |-> None, id |-> req[r].id] \in Command
      BY <3>1, NullValues DEF Command
    <3> QED
      BY <1>6, <3>1, <3>2, SendTypeOK DEF DeleteSend, LinkTypeOK
  <2> QED
    BY <1>6, <2>1, <2>2 DEF DeleteSend, HubTypeOK, LinkTypeOK, HostTypeOK,
                            regVars, stopVars, linkVars, hostVars
<1>7. CASE DeleteResult(r)
  <2>1. req' \in [Requests -> Request]
    BY <1>7, GotoTypeOK DEF DeleteResult, Stopping
  <2> QED
    BY <1>7, <2>1 DEF DeleteResult, HubTypeOK, LinkTypeOK, HostTypeOK,
                      regVars, stopVars, linkVars, hostVars
<1>8. CASE DeleteRemove(r)
  <2>1. req' \in [Requests -> Request]
    BY <1>8, GotoTypeOK DEF DeleteRemove, Stopping
  <2>2. req[r].host \in Hosts /\ req[r].name \in Names /\ req[r].agent \in Agents
    BY <1>8, ServingRequest DEF DeleteRemove
  <2>3. agents' \in [Hosts -> [Names -> Agents]] /\ failed' \in [Hosts -> SUBSET Names]
    BY <1>8, <2>2, UnlistTypeOK DEF DeleteRemove, HubTypeOK
  <2>4. deleted' \in SUBSET Agents
    BY <1>8, <2>2 DEF DeleteRemove, HostTypeOK
  <2> QED
    BY <1>8, <2>1, <2>3, <2>4 DEF DeleteRemove, HubTypeOK, LinkTypeOK, HostTypeOK,
                                  stopVars, linkVars, hostVars
<1>9. CASE DeleteFinish(r)
  <2>1. req' \in [Requests -> Request]
    BY <1>9, AnswerTypeOK DEF DeleteFinish
  <2>2. pending' \in [Names -> Requests \cup {NoRequest}]
    BY <1>9, ServingRequest DEF DeleteFinish, HubTypeOK
  <2> QED
    BY <1>9, <2>1, <2>2 DEF DeleteFinish, HubTypeOK, LinkTypeOK, HostTypeOK,
                            regVars, linkVars, hostVars
<1>10. CASE DeleteTimeout(r)
  <2>1. req' \in [Requests -> Request]
    BY <1>10, GotoTypeOK DEF DeleteTimeout, Stopping
  <2> QED
    BY <1>10, <2>1 DEF DeleteTimeout, HubTypeOK, LinkTypeOK, HostTypeOK,
                       regVars, stopVars, linkVars, hostVars
<1> QED
  BY <1>1, <1>2, <1>3, <1>4, <1>5, <1>6, <1>7, <1>8, <1>9, <1>10 DEF RequestStep

\* A member sends a request.
LEMMA MemberTypeOK ==
  ASSUME TypeOK, NEW r \in Requests, NEW h \in Hosts, NEW n \in Names,
         CreateAdd(r, h, n) \/ DeleteRead(r, h, n)
  PROVE  TypeOK'
<1> USE DEF TypeOK
<1>1. CASE CreateAdd(r, h, n)
  <2>1. clock \in Agents \ {None} /\ clock + 1 \in 1..(MaxCreated + 1)
    BY <1>1, BoundsAssumption DEF CreateAdd, HubTypeOK, Agents, None
  <2>2. agents' \in [Hosts -> [Names -> Agents]]
    BY <1>1, <2>1 DEF CreateAdd, HubTypeOK
  <2>3. [Idle EXCEPT !.pc = "added", !.host = h, !.name = n, !.agent = clock,
                     !.conn = session[h]] \in Request
    BY <2>1, NullValues DEF LinkTypeOK, Idle, Request, Serving, Creating
  <2>4. req' \in [Requests -> Request]
    BY <1>1, <2>3, RequestChange DEF CreateAdd
  <2> QED
    BY <1>1, <2>1, <2>2, <2>4 DEF CreateAdd, HubTypeOK, LinkTypeOK, HostTypeOK,
                                  stopVars, linkVars, hostVars
<1>2. CASE DeleteRead(r, h, n)
  <2>1. agents[h][n] \in Agents \ {None}
    BY <1>2 DEF DeleteRead, TakenOn, HubTypeOK
  <2>2. [Idle EXCEPT !.pc = "chosen", !.host = h, !.name = n,
                     !.agent = agents[h][n]] \in Request
    BY <2>1, NullValues DEF Idle, Request, Serving
  <2>3. req' \in [Requests -> Request]
    BY <1>2, <2>2, RequestChange DEF DeleteRead
  <2> QED
    BY <1>2, <2>3 DEF DeleteRead, HubTypeOK, LinkTypeOK, HostTypeOK,
                      regVars, stopVars, linkVars, hostVars
<1> QED
  BY <1>1, <1>2

\* A result is put in a request's record by dropHost or by ack.
LEMMA ResultTypeOK ==
  ASSUME HubTypeOK, NEW S \in SUBSET Requests, NEW res \in {"stopped", "dropped"},
         \A r \in S : req[r].pc # "idle"
  PROVE  [r \in Requests |-> IF r \in S THEN [req[r] EXCEPT !.result = res] ELSE req[r]]
           \in [Requests -> Request]
<1>1. ASSUME NEW r \in S
      PROVE  [req[r] EXCEPT !.result = res] \in Request
  BY ServingRequest DEF Serving, Request
<1> QED
  BY <1>1 DEF HubTypeOK

\* The hub's end of a host's connection.
LEMMA HubSideTypeOK ==
  ASSUME TypeOK, NEW h \in Hosts,
         \/ Join(h) \/ Welcome(h) \/ HubClosed(h) \/ DropHost(h) \/ Leave(h) \/ HubReport(h)
  PROVE  TypeOK'
<1> USE DEF TypeOK
<1>1. CASE Join(h)
  <2>1. agents' \in [Hosts -> [Names -> Agents]]
    BY <1>1, NullValues DEF Join, HubTypeOK, LinkTypeOK
  <2>2. hello' \in [Hosts -> [Names -> Agents]] /\ commands' \in [Hosts -> Seq(Command)]
    BY <1>1, NullValues DEF Join, LinkTypeOK, NothingRuns
  <2> QED
    BY <1>1, <2>1, <2>2 DEF Join, HubTypeOK, LinkTypeOK, HostTypeOK, stopVars, hostVars
<1>2. CASE Welcome(h)
  <2>1. commands' \in [Hosts -> Seq(Command)]
    BY <1>2, SendTypeOK DEF Welcome, Command
  <2> QED
    BY <1>2, <2>1 DEF Welcome, HubTypeOK, LinkTypeOK, HostTypeOK,
                      hubVars, regVars, stopVars, hostVars
<1>3. CASE HubClosed(h)
  BY <1>3 DEF HubClosed, HubTypeOK, LinkTypeOK, HostTypeOK,
              hubVars, regVars, stopVars, hostVars
<1>4. CASE DropHost(h)
  <2> DEFINE S == {r \in Requests : StopOf(r, h) /\ req[r].result = "none"}
  <2>1. \A r \in S : req[r].pc # "idle"
    BY IdleRequest DEF StopOf
  <2>2. req' = [r \in Requests |->
                  IF r \in S THEN [req[r] EXCEPT !.result = "dropped"] ELSE req[r]]
    BY <1>4 DEF DropHost
  <2>3. req' \in [Requests -> Request]
    BY <2>1, <2>2, ResultTypeOK
  <2> QED
    BY <1>4, <2>3 DEF DropHost, HubTypeOK, LinkTypeOK, HostTypeOK,
                      regVars, stopVars, hostVars
<1>5. CASE Leave(h)
  <2>1. agents' \in [Hosts -> [Names -> Agents]]
    BY <1>5, NullValues DEF Leave, HubTypeOK, NothingRuns
  <2> QED
    BY <1>5, <2>1 DEF Leave, HubTypeOK, LinkTypeOK, HostTypeOK, stopVars, hostVars
<1>6. CASE HubReport(h)
  <2> DEFINE m == Head(reports[h])
             S == {r \in Requests : Acks(r, h, m) /\ req[r].result = "none"}
  <2>1. m \in News /\ Tail(reports[h]) \in Seq(News)
    BY <1>6 DEF HubReport, HostTypeOK
  <2>2. reports' \in [Hosts -> Seq(News)]
    BY <1>6, <2>1 DEF HubReport, HostTypeOK
  <2>3. failed' \in [Hosts -> SUBSET Names]
    <3>1. m.name \in Names
      BY <2>1 DEF News
    <3> QED
      BY <1>6, <3>1 DEF HubReport, HubTypeOK
  <2>4. req' \in [Requests -> Request]
    <3>1. \A r \in S : req[r].pc # "idle"
      BY IdleRequest DEF Acks
    <3>2. \/ req' = [r \in Requests |->
                       IF r \in S THEN [req[r] EXCEPT !.result = "stopped"] ELSE req[r]]
          \/ req' = req
      BY <1>6 DEF HubReport
    <3>3. [r \in Requests |-> IF r \in S THEN [req[r] EXCEPT !.result = "stopped"] ELSE req[r]]
            \in [Requests -> Request]
      BY <3>1, ResultTypeOK
    <3> QED
      BY <3>2, <3>3 DEF HubTypeOK
  <2> QED
    BY <1>6, <2>2, <2>3, <2>4 DEF HubReport, HubTypeOK, LinkTypeOK, HostTypeOK,
                                  stopVars, linkVars, hostVars
<1> QED
  BY <1>1, <1>2, <1>3, <1>4, <1>5, <1>6

\* A host that hangs up has nothing left of the connection.
LEMMA HangUpTypeOK ==
  ASSUME TypeOK, NEW h \in Hosts, HangUp(h)
  PROVE  /\ hostConn' \in [Hosts -> {"down", "dialed", "up"}]
         /\ hello' \in [Hosts -> [Names -> Agents]]
         /\ commands' \in [Hosts -> Seq(Command)]
         /\ awaiting' \in [Hosts -> SUBSET Wait]
  BY NullValues DEF TypeOK, LinkTypeOK, HostTypeOK, HangUp, NothingRuns

\* The command the host obeys.
LEMMA ObeyTypeOK ==
  ASSUME TypeOK, NEW h \in Hosts, NEW t \in {"spawn", "stop"}, Obeying(h, t)
  PROVE  /\ Head(commands[h]).name \in Names
         /\ Head(commands[h]).agent \in Agents
         /\ Head(commands[h]).id \in StopIds
         /\ Tail(commands[h]) \in Seq(Command)
<1>1. Head(commands[h]) \in Command /\ Tail(commands[h]) \in Seq(Command)
  BY DEF TypeOK, LinkTypeOK, Obeying
<1>2. Head(commands[h]).type = t /\ Greeting.type = "welcome"
  BY DEF Obeying, Greeting
<1> QED
  BY <1>1, <1>2 DEF Command

\* The host's end, and what the host does.
LEMMA HostSideTypeOK ==
  ASSUME TypeOK, NEW h \in Hosts,
         \/ Dial(h) \/ Refuse(h) \/ HostDown(h) \/ HostRestart(h) \/ HostWelcome(h)
         \/ HostSpawn(h) \/ HostStop(h)
         \/ \E n \in Names : HostStopped(h, n) \/ HostGivesUp(h, n)
         \/ \E w \in awaiting[h] : HostAck(h, w)
  PROVE  TypeOK'
<1> USE DEF TypeOK
<1>1. CASE Dial(h)
  BY <1>1 DEF Dial, HubTypeOK, LinkTypeOK, HostTypeOK, hubVars, regVars, stopVars, hostVars
<1>2. CASE Refuse(h)
  BY <1>2, NullValues DEF Refuse, NothingRuns, HubTypeOK, LinkTypeOK, HostTypeOK,
                          hubVars, regVars, stopVars, hostVars
<1>3. CASE HostDown(h)
  <2>1. reports' \in [Hosts -> Seq(News)]
    <3>1. PICK lost \in 0..Len(reports[h]) :
            reports' = [reports EXCEPT ![h] = SubSeq(@, lost + 1, Len(@))]
      BY <1>3 DEF HostDown
    <3>2. SubSeq(reports[h], lost + 1, Len(reports[h])) \in Seq(News)
      BY DEF HostTypeOK
    <3> QED
      BY <3>1, <3>2 DEF HostTypeOK
  <2> QED
    BY <1>3, <2>1, HangUpTypeOK DEF HostDown, HubTypeOK, LinkTypeOK, HostTypeOK,
                                    hubVars, regVars, stopVars
<1>4. CASE HostRestart(h)
  BY <1>4, HangUpTypeOK DEF HostRestart, HubTypeOK, LinkTypeOK, HostTypeOK,
                            hubVars, regVars, stopVars
<1>5. CASE HostWelcome(h)
  <2>1. /\ hostConn' \in [Hosts -> {"down", "dialed", "up"}]
        /\ hello' \in [Hosts -> [Names -> Agents]]
        /\ commands' \in [Hosts -> Seq(Command)]
        /\ awaiting' \in [Hosts -> SUBSET Wait]
    <3>1. CASE HangUp(h)
      BY <3>1, HangUpTypeOK
    <3>2. CASE ~HangUp(h)
      <4>1. Tail(commands[h]) \in Seq(Command)
        BY <1>5 DEF HostWelcome, LinkTypeOK
      <4>2. /\ hostConn' = [hostConn EXCEPT ![h] = "up"]
            /\ commands' = [commands EXCEPT ![h] = Tail(commands[h])]
            /\ awaiting' = awaiting /\ hello' = hello
        BY <1>5, <3>2 DEF HostWelcome
      <4> QED
        BY <4>1, <4>2 DEF LinkTypeOK, HostTypeOK
    <3> QED
      BY <3>1, <3>2
  <2> QED
    BY <1>5, <2>1 DEF HostWelcome, HubTypeOK, LinkTypeOK, HostTypeOK,
                      hubVars, regVars, stopVars
<1>6. CASE HostSpawn(h)
  <2> DEFINE c == Head(commands[h])
  <2>1. c.name \in Names /\ c.agent \in Agents /\ Tail(commands[h]) \in Seq(Command)
    BY <1>6, ObeyTypeOK DEF HostSpawn
  <2>2. reports' \in [Hosts -> Seq(News)]
    BY <1>6, <2>1, ReportTypeOK DEF HostSpawn
  <2>3. running' \in [Hosts -> [Names -> Agents]] /\ exits' \in 0..MaxExits
    <3>1. \/ running' = running
          \/ running' = [running EXCEPT ![h][c.name] = c.agent]
      BY <1>6 DEF HostSpawn
    <3>2. \/ exits' = exits
          \/ exits < MaxExits /\ exits' = exits + 1
      BY <1>6 DEF HostSpawn
    <3> HIDE DEF c
    <3>3. running' \in [Hosts -> [Names -> Agents]]
      <4>1. [running[h] EXCEPT ![c.name] = c.agent] \in [Names -> Agents]
        BY <2>1 DEF HostTypeOK
      <4> QED
        BY <3>1, <4>1 DEF HostTypeOK
    <3>4. exits' \in 0..MaxExits
      BY <3>2, BoundsAssumption DEF HostTypeOK
    <3> QED
      BY <3>3, <3>4
  <2>4. commands' \in [Hosts -> Seq(Command)]
    BY <1>6, <2>1 DEF HostSpawn, LinkTypeOK
  <2> QED
    BY <1>6, <2>2, <2>3, <2>4 DEF HostSpawn, HubTypeOK, LinkTypeOK, HostTypeOK,
                                  hubVars, regVars, stopVars, linkVars
<1>7. CASE HostStop(h)
  <2> DEFINE c == Head(commands[h])
             w == [name |-> c.name, id |-> c.id, agent |-> running[h][c.name]]
  <2>1. c.name \in Names /\ c.id \in StopIds /\ Tail(commands[h]) \in Seq(Command)
    BY <1>7, ObeyTypeOK DEF HostStop
  <2>2. w \in Wait
    BY <2>1 DEF Wait, HostTypeOK
  <2>3. awaiting' \in [Hosts -> SUBSET Wait]
    BY <1>7, <2>2 DEF HostStop, HostTypeOK
  <2>4. stopping' \in [Hosts -> SUBSET Names]
    BY <1>7, <2>1 DEF HostStop, HostTypeOK
  <2>5. commands' \in [Hosts -> Seq(Command)]
    BY <1>7, <2>1 DEF HostStop, LinkTypeOK
  <2> QED
    BY <1>7, <2>3, <2>4, <2>5 DEF HostStop, HubTypeOK, LinkTypeOK, HostTypeOK,
                                  hubVars, regVars, stopVars, linkVars
<1>8. ASSUME NEW n \in Names, HostStopped(h, n)
      PROVE  TypeOK'
  BY <1>8, NullValues DEF HostStopped, HubTypeOK, LinkTypeOK, HostTypeOK,
                          hubVars, regVars, stopVars, linkVars
<1>9. ASSUME NEW n \in Names, HostGivesUp(h, n)
      PROVE  TypeOK'
  <2>1. reports' \in [Hosts -> Seq(News)]
    BY <1>9, ReportTypeOK DEF HostGivesUp
  <2>2. running' \in [Hosts -> [Names -> Agents]] /\ exits' \in 0..MaxExits
    BY <1>9, NullValues, BoundsAssumption DEF HostGivesUp, HostTypeOK
  <2> QED
    BY <1>9, <2>1, <2>2 DEF HostGivesUp, HubTypeOK, LinkTypeOK, HostTypeOK,
                            hubVars, regVars, stopVars, linkVars
<1>10. ASSUME NEW w \in awaiting[h], HostAck(h, w)
       PROVE  TypeOK'
  <2> DEFINE m == [type |-> "stopped", name |-> w.name, id |-> w.id]
  <2>1. w \in Wait
    BY DEF HostTypeOK
  <2>2. m \in News /\ w.id \in StopIds
    BY <2>1 DEF News, Wait
  <2>3. reports' = [reports EXCEPT ![h] = Append(@, m)]
    BY <1>10 DEF HostAck
  <2> HIDE DEF m
  <2>4. Append(reports[h], m) \in Seq(News)
    BY <2>2 DEF HostTypeOK
  <2>5. reports' \in [Hosts -> Seq(News)]
    BY <2>3, <2>4 DEF HostTypeOK
  <2> QED
    BY <1>10, <2>2, <2>5 DEF HostAck, HubTypeOK, LinkTypeOK, HostTypeOK,
                             hubVars, regVars, stopVars, linkVars
<1> QED
  BY <1>1, <1>2, <1>3, <1>4, <1>5, <1>6, <1>7, <1>8, <1>9, <1>10

\* Every variable keeps the type the code gives it, for any number of hosts,
\* names and requests.
THEOREM TypeCorrect == Spec => []TypeOK
<1>1. TypeOK /\ [Next]_vars => TypeOK'
  <2> SUFFICES ASSUME TypeOK, [Next]_vars
               PROVE  TypeOK'
    OBVIOUS
  <2>1. CASE Next
    BY <2>1, RequestTypeOK, MemberTypeOK, HubSideTypeOK, HostSideTypeOK DEF Next
  <2>2. CASE UNCHANGED vars
    BY <2>2 DEF TypeOK, HubTypeOK, LinkTypeOK, HostTypeOK,
                vars, hubVars, regVars, stopVars, linkVars, hostVars
  <2> QED
    BY <2>1, <2>2
<1> QED
  BY InitTypeOK, <1>1, PTL DEF Spec

-----------------------------------------------------------------------------
(* One host to a name. *)

\* Taking agents off the list, or leaving it, gives no name to a second host.
LEMMA UnlistingKeepsOwners ==
  ASSUME NameOwnedByOneHost,
         \A h \in Hosts, n \in Names : agents'[h][n] \in {agents[h][n], None}
  PROVE  NameOwnedByOneHost'
  BY DEF NameOwnedByOneHost

\* registry.Add lists an agent only where no host has the name.
LEMMA AddKeepsOwners ==
  ASSUME TypeOK, NameOwnedByOneHost,
         NEW r \in Requests, NEW h \in Hosts, NEW n \in Names, CreateAdd(r, h, n)
  PROVE  NameOwnedByOneHost'
<1>1. \A g \in Hosts : agents[g][n] = None
  BY DEF CreateAdd, Taken
<1>2. \A g \in Hosts, m \in Names : g # h \/ m # n => agents'[g][m] = agents[g][m]
  BY DEF CreateAdd, TypeOK, HubTypeOK
<1> QED
  BY <1>1, <1>2 DEF NameOwnedByOneHost

\* registry.Join lists what no other host has.
LEMMA JoinKeepsOwners ==
  ASSUME TypeOK, NameOwnedByOneHost, NEW h \in Hosts, Join(h)
  PROVE  NameOwnedByOneHost'
<1>1. \A g \in Hosts \ {h}, n \in Names : agents'[g][n] = agents[g][n]
  BY DEF Join, TypeOK, HubTypeOK
<1>2. \A n \in Names : agents'[h][n] # None => \A g \in Hosts \ {h} : agents[g][n] = None
  BY DEF Join, TypeOK, HubTypeOK, TakenElsewhere
<1> QED
  BY <1>1, <1>2 DEF NameOwnedByOneHost

LEMMA NameOwnedStep ==
  ASSUME TypeOK, NameOwnedByOneHost, [Next]_vars
  PROVE  NameOwnedByOneHost'
<1>1. ASSUME NEW h \in Hosts, NEW n \in Names, Unlist(h, n)
      PROVE  NameOwnedByOneHost'
  BY <1>1, UnlistingKeepsOwners DEF Unlist, TypeOK, HubTypeOK
<1>2. ASSUME agents' = agents
      PROVE  NameOwnedByOneHost'
  BY <1>2 DEF NameOwnedByOneHost
<1>3. ASSUME NEW r \in Requests, RequestStep(r) \/ DeleteTimeout(r)
      PROVE  NameOwnedByOneHost'
  <2>1. CASE CreateUndo(r)
    BY <2>1, <1>1, <1>2, ServingRequest DEF CreateUndo, TypeOK
  <2>2. CASE DeleteRemove(r)
    BY <2>2, <1>1, <1>2, ServingRequest DEF DeleteRemove, TypeOK
  <2>3. CASE ~CreateUndo(r) /\ ~DeleteRemove(r)
    BY <1>2, <1>3, <2>3 DEF RequestStep, CreateRead, CreateSend, DeleteBegin, DeleteSender,
         DeleteSend, DeleteResult, DeleteFinish, DeleteTimeout, regVars
  <2> QED
    BY <2>1, <2>2, <2>3
<1>4. ASSUME NEW r \in Requests, NEW h \in Hosts, NEW n \in Names,
             CreateAdd(r, h, n) \/ DeleteRead(r, h, n)
      PROVE  NameOwnedByOneHost'
  BY <1>2, <1>4, AddKeepsOwners DEF DeleteRead, regVars
<1>5. ASSUME NEW h \in Hosts, Leave(h)
      PROVE  NameOwnedByOneHost'
  <2>1. \A g \in Hosts, n \in Names : agents'[g][n] \in {agents[g][n], None}
    BY <1>5 DEF Leave, NothingRuns, TypeOK, HubTypeOK
  <2> QED
    BY <2>1, UnlistingKeepsOwners
<1>6. ASSUME NEW h \in Hosts,
             \/ Welcome(h) \/ HubClosed(h) \/ DropHost(h) \/ HubReport(h)
             \/ Dial(h) \/ Refuse(h) \/ HostDown(h) \/ HostRestart(h) \/ HostWelcome(h)
             \/ HostSpawn(h) \/ HostStop(h)
             \/ \E n \in Names : HostStopped(h, n) \/ HostGivesUp(h, n)
             \/ \E w \in awaiting[h] : HostAck(h, w)
      PROVE  NameOwnedByOneHost'
  BY <1>2, <1>6 DEF Welcome, HubClosed, DropHost, HubReport, Dial, Refuse, HostDown,
       HostRestart, HostWelcome, HostSpawn, HostStop, HostStopped, HostGivesUp, HostAck,
       hubVars, regVars
<1>7. CASE UNCHANGED vars
  BY <1>2, <1>7 DEF vars, hubVars, regVars
<1> QED
  BY <1>3, <1>4, <1>5, <1>6, <1>7, JoinKeepsOwners DEF Next

\* No two hosts list the same name, however many of them come and go and however
\* their agents were named while they were away.
THEOREM NamesAreOwned == Spec => []NameOwnedByOneHost
<1>1. Init => NameOwnedByOneHost
  BY DEF Init, NothingRuns, NameOwnedByOneHost
<1> QED
  BY TypeCorrect, <1>1, NameOwnedStep, PTL DEF Spec

-----------------------------------------------------------------------------
(* One request to a pending stop. *)

\* A step that begins and ends no stop leaves them to their requests.
LEMMA SameStops ==
  ASSUME StopsHaveOneOwner, HubTypeOK, pending' = pending,
         \A r \in Requests : /\ req'[r].pc \in Stopping <=> req[r].pc \in Stopping
                             /\ req[r].pc \in Stopping => req'[r].name = req[r].name
  PROVE  StopsHaveOneOwner'
  BY DEF StopsHaveOneOwner, HubTypeOK

\* A request that goes on within its stop, or outside of one.
LEMMA GotoKeepsStops ==
  ASSUME StopsHaveOneOwner, HubTypeOK, NEW r \in Requests, req[r].pc # "idle",
         NEW pc, Goto(r, pc), pending' = pending,
         pc \in Stopping <=> req[r].pc \in Stopping
  PROVE  StopsHaveOneOwner'
<1>1. \A q \in Requests : /\ req'[q].name = req[q].name
                          /\ q # r => req'[q].pc = req[q].pc
  BY DEF Goto, HubTypeOK
<1>2. req'[r].pc = pc
  BY ServingRequest DEF Goto, HubTypeOK, Serving
<1> QED
  BY <1>1, <1>2, SameStops

\* A request that is answered without a stop to its name.
LEMMA AnswerKeepsStops ==
  ASSUME StopsHaveOneOwner, HubTypeOK, NEW r \in Requests, req[r].pc \notin Stopping,
         Answer(r), pending' = pending
  PROVE  StopsHaveOneOwner'
  BY SameStops DEF Answer, HubTypeOK, Idle, Stopping

\* stops.begin: the name was free, so the entry has one request and it one entry.
LEMMA BeginKeepsStops ==
  ASSUME StopsHaveOneOwner, TypeOK, NEW r \in Requests, DeleteBegin(r)
  PROVE  StopsHaveOneOwner'
<1> DEFINE n == req[r].name
<1>0. req[r].pc = "chosen" /\ n \in Names /\ HubTypeOK
  BY ServingRequest DEF DeleteBegin, TypeOK
<1>1. CASE MayBegin(n)
  <2>1. pending[n] = NoRequest /\ pending' = [pending EXCEPT ![n] = r]
    BY <1>1 DEF DeleteBegin, MayBegin
  <2>2. \A q \in Requests \ {r} : req'[q] = req[q]
    BY <1>1 DEF DeleteBegin, TypeOK, HubTypeOK
  <2>3. req'[r].pc = "begun" /\ req'[r].name = n
    BY <1>0, <1>1, ServingRequest DEF DeleteBegin, HubTypeOK, Serving
  <2>4. \A q \in Requests \ {r} : req[q].pc \in Stopping => req[q].name # n
    BY <2>1, NullsAssumption DEF StopsHaveOneOwner
  <2>5. \A m \in Names \ {n} : pending'[m] = pending[m] /\ pending[m] # r
    BY <1>0, <2>1, NullsAssumption DEF StopsHaveOneOwner, HubTypeOK, Stopping
  <2>6. pending'[n] = r
    BY <1>0, <2>1 DEF HubTypeOK
  <2>7. \A q \in Requests : req[q].pc \in Stopping => req[q].name \in Names
    BY <1>0, ServingRequest DEF Stopping
  <2>8. \A m \in Names : pending'[m] # NoRequest =>
          req'[pending'[m]].pc \in Stopping /\ req'[pending'[m]].name = m
    <3>1. ASSUME NEW m \in Names \ {n}, pending'[m] # NoRequest
          PROVE  req'[pending'[m]].pc \in Stopping /\ req'[pending'[m]].name = m
      BY <3>1, <1>0, <2>2, <2>5 DEF StopsHaveOneOwner, HubTypeOK
    <3> QED
      BY <2>3, <2>6, <3>1 DEF Stopping
  <2>9. \A q \in Requests : req'[q].pc \in Stopping => pending'[req'[q].name] = q
    BY <2>2, <2>3, <2>4, <2>5, <2>6, <2>7 DEF StopsHaveOneOwner
  <2> QED
    BY <2>8, <2>9 DEF StopsHaveOneOwner
<1>2. CASE ~MayBegin(n)
  BY <1>0, <1>2, AnswerKeepsStops DEF DeleteBegin, stopVars, Stopping
<1> QED
  BY <1>1, <1>2

\* stops.finish: the request and its entry go together.
LEMMA FinishKeepsStops ==
  ASSUME StopsHaveOneOwner, TypeOK, NEW r \in Requests, DeleteFinish(r)
  PROVE  StopsHaveOneOwner'
<1> DEFINE n == req[r].name
<1>1. req[r].pc \in Stopping /\ n \in Names /\ HubTypeOK
  BY ServingRequest DEF DeleteFinish, TypeOK, Stopping
<1>2. pending[n] = r
  BY <1>1 DEF StopsHaveOneOwner
<1>3. pending' = [pending EXCEPT ![n] = NoRequest]
  BY <1>2 DEF DeleteFinish
<1>4. req'[r].pc \notin Stopping /\ \A q \in Requests \ {r} : req'[q] = req[q]
  BY <1>1 DEF DeleteFinish, Answer, HubTypeOK, Idle, Stopping
<1>5. \A m \in Names \ {n} : pending'[m] = pending[m] /\ pending[m] # r
  BY <1>1, <1>3, NullsAssumption DEF StopsHaveOneOwner, HubTypeOK
<1>6. pending'[n] = NoRequest
  BY <1>1, <1>3 DEF HubTypeOK
<1>7. \A m \in Names : pending'[m] # NoRequest =>
        req'[pending'[m]].pc \in Stopping /\ req'[pending'[m]].name = m
  BY <1>1, <1>4, <1>5, <1>6 DEF StopsHaveOneOwner, HubTypeOK
<1>8. \A q \in Requests \ {r} : req[q].pc \in Stopping => req[q].name \in Names \ {n}
  BY <1>1, <1>2, ServingRequest DEF StopsHaveOneOwner, Stopping
<1>9. \A q \in Requests : req'[q].pc \in Stopping => pending'[req'[q].name] = q
  BY <1>4, <1>5, <1>8 DEF StopsHaveOneOwner
<1> QED
  BY <1>7, <1>9 DEF StopsHaveOneOwner

\* dropHost and ack only fill in results.
LEMMA ResultKeepsStops ==
  ASSUME StopsHaveOneOwner, HubTypeOK, pending' = pending, NEW S \in SUBSET Requests,
         NEW res,
         req' = [r \in Requests |-> IF r \in S THEN [req[r] EXCEPT !.result = res] ELSE req[r]]
  PROVE  StopsHaveOneOwner'
<1>1. \A r \in Requests : req[r] \in Request
  BY DEF HubTypeOK
<1>2. \A r \in Requests : req'[r].pc = req[r].pc /\ req'[r].name = req[r].name
  BY <1>1 DEF Request, Serving, Idle
<1> QED
  BY <1>2, SameStops

LEMMA StopsStep ==
  ASSUME TypeOK, StopsHaveOneOwner, [Next]_vars
  PROVE  StopsHaveOneOwner'
<1>0. HubTypeOK
  BY DEF TypeOK
<1>1. ASSUME pending' = pending, req' = req
      PROVE  StopsHaveOneOwner'
  BY <1>1 DEF StopsHaveOneOwner
<1>2. ASSUME NEW r \in Requests, RequestStep(r) \/ DeleteTimeout(r)
      PROVE  StopsHaveOneOwner'
  <2>1. CASE CreateRead(r)
    <3>1. CASE Answer(r)
      BY <1>0, <2>1, <3>1, AnswerKeepsStops DEF CreateRead, stopVars, Stopping
    <3>2. ASSUME NEW a, req' = [req EXCEPT ![r].pc = "spawning", ![r].agent = a]
          PROVE  StopsHaveOneOwner'
      <4>1. \A q \in Requests \ {r} : req'[q] = req[q]
        BY <1>0, <3>2 DEF HubTypeOK
      <4>2. req'[r].pc = "spawning" /\ req[r].pc = "added"
        BY <1>0, <2>1, <3>2, ServingRequest DEF CreateRead, HubTypeOK, Serving
      <4> QED
        BY <1>0, <2>1, <4>1, <4>2, SameStops DEF CreateRead, stopVars, Stopping
    <3> QED
      BY <2>1, <3>1, <3>2 DEF CreateRead
  <2>2. CASE CreateSend(r)
    BY <1>0, <2>2, AnswerKeepsStops, GotoKeepsStops DEF CreateSend, stopVars, Stopping
  <2>3. CASE CreateUndo(r)
    BY <1>0, <2>3, AnswerKeepsStops DEF CreateUndo, stopVars, Stopping
  <2>4. CASE DeleteSender(r)
    <3>1. CASE Goto(r, "finish")
      BY <1>0, <2>4, <3>1, GotoKeepsStops DEF DeleteSender, stopVars, Stopping
    <3>2. CASE req' = [req EXCEPT ![r].pc = "sending", ![r].conn = session[req[r].host]]
      <4>1. \A q \in Requests \ {r} : req'[q] = req[q]
        BY <1>0, <3>2 DEF HubTypeOK
      <4>2. req'[r].pc = "sending" /\ req'[r].name = req[r].name /\ req[r].pc = "begun"
        BY <1>0, <2>4, <3>2, ServingRequest DEF DeleteSender, HubTypeOK, Serving
      <4> QED
        BY <1>0, <2>4, <4>1, <4>2, SameStops DEF DeleteSender, stopVars, Stopping
    <3> QED
      BY <2>4, <3>1, <3>2 DEF DeleteSender
  <2>5. CASE DeleteSend(r)
    BY <1>0, <2>5, GotoKeepsStops DEF DeleteSend, stopVars, Stopping
  <2>6. CASE DeleteResult(r)
    BY <1>0, <2>6, GotoKeepsStops DEF DeleteResult, stopVars, Stopping
  <2>7. CASE DeleteRemove(r)
    BY <1>0, <2>7, GotoKeepsStops DEF DeleteRemove, stopVars, Stopping
  <2>8. CASE DeleteTimeout(r)
    BY <1>0, <2>8, GotoKeepsStops DEF DeleteTimeout, stopVars, Stopping
  <2> QED
    BY <1>2, <2>1, <2>2, <2>3, <2>4, <2>5, <2>6, <2>7, <2>8,
       BeginKeepsStops, FinishKeepsStops DEF RequestStep
<1>3. ASSUME NEW r \in Requests, NEW h \in Hosts, NEW n \in Names,
             CreateAdd(r, h, n) \/ DeleteRead(r, h, n)
      PROVE  StopsHaveOneOwner'
  <2>1. pending' = pending /\ \A q \in Requests \ {r} : req'[q] = req[q]
    BY <1>0, <1>3 DEF CreateAdd, DeleteRead, stopVars, HubTypeOK
  <2>2. req[r].pc \notin Stopping /\ req'[r].pc \notin Stopping
    BY <1>0, <1>3 DEF CreateAdd, DeleteRead, Idle, Stopping, HubTypeOK
  <2> QED
    BY <1>0, <2>1, <2>2, SameStops
<1>4. ASSUME NEW h \in Hosts, DropHost(h)
      PROVE  StopsHaveOneOwner'
  <2> DEFINE S == {r \in Requests : StopOf(r, h) /\ req[r].result = "none"}
  <2>1. req' = [r \in Requests |->
                  IF r \in S THEN [req[r] EXCEPT !.result = "dropped"] ELSE req[r]]
    BY <1>4 DEF DropHost
  <2>2. pending' = pending
    BY <1>4 DEF DropHost, stopVars
  <2> QED
    BY <1>0, <2>1, <2>2, ResultKeepsStops
<1>5. ASSUME NEW h \in Hosts, HubReport(h)
      PROVE  StopsHaveOneOwner'
  <2> DEFINE S == {r \in Requests : Acks(r, h, Head(reports[h])) /\ req[r].result = "none"}
  <2>1. pending' = pending
    BY <1>5 DEF HubReport, stopVars
  <2>2. \/ req' = [r \in Requests |->
                     IF r \in S THEN [req[r] EXCEPT !.result = "stopped"] ELSE req[r]]
        \/ req' = req
    BY <1>5 DEF HubReport
  <2> QED
    BY <1>0, <1>1, <2>1, <2>2, ResultKeepsStops
<1>6. ASSUME NEW h \in Hosts,
             \/ Welcome(h) \/ HubClosed(h) \/ Join(h) \/ Leave(h)
             \/ Dial(h) \/ Refuse(h) \/ HostDown(h) \/ HostRestart(h) \/ HostWelcome(h)
             \/ HostSpawn(h) \/ HostStop(h)
             \/ \E n \in Names : HostStopped(h, n) \/ HostGivesUp(h, n)
             \/ \E w \in awaiting[h] : HostAck(h, w)
      PROVE  StopsHaveOneOwner'
  BY <1>1, <1>6 DEF Welcome, HubClosed, Join, Leave, Dial, Refuse, HostDown,
       HostRestart, HostWelcome, HostSpawn, HostStop, HostStopped, HostGivesUp, HostAck,
       hubVars, stopVars
<1>7. CASE UNCHANGED vars
  BY <1>1, <1>7 DEF vars, hubVars, stopVars
<1> QED
  BY <1>2, <1>3, <1>4, <1>5, <1>6, <1>7 DEF Next

\* A pending stop and the delete that made it last equally long, whichever way
\* the delete ends.
THEOREM StopsAreOwned == Spec => []StopsHaveOneOwner
<1>1. Init => StopsHaveOneOwner
  BY DEF Init, StopsHaveOneOwner, Idle, Stopping
<1> QED
  BY TypeCorrect, <1>1, StopsStep, PTL DEF Spec

-----------------------------------------------------------------------------
(* A delete is confirmed by its own stop.  The invariant is strengthened by what *)
(* is on its way: every acknowledgement in a reports channel is of a stop the    *)
(* host saw through, and only a request with a stop under way has a result.     *)

AcksAreReal ==
  \A h \in Hosts : \A i \in DOMAIN reports[h] :
    reports[h][i].type = "stopped" => reports[h][i].id \in finished

ResultsHaveStops == \A r \in Requests : req[r].result # "none" => req[r].pc \in Stopping

\* Agents.report adds no acknowledgement.
LEMMA ReportKeepsAcks ==
  ASSUME HostTypeOK, AcksAreReal, finished' = finished,
         NEW h \in Hosts, NEW n, NEW t \in {"running", "failed"}, Report(h, t, n)
  PROVE  AcksAreReal'
<1> DEFINE m == [type |-> t, name |-> n, id |-> 0]
<1>1. m.type # "stopped"
  OBVIOUS
<1>2. \/ reports' = reports
      \/ reports' = [reports EXCEPT ![h] = Append(reports[h], m)]
  BY DEF Report, HostTypeOK
<1> HIDE DEF m
<1>3. \A g \in Hosts : reports[g] \in Seq(News)
  BY DEF HostTypeOK
<1>4. \A i \in DOMAIN Append(reports[h], m) :
        \/ i \in DOMAIN reports[h] /\ Append(reports[h], m)[i] = reports[h][i]
        \/ Append(reports[h], m)[i] = m
  BY <1>3
<1>5. CASE reports' = reports
  BY <1>5 DEF AcksAreReal
<1>6. CASE reports' = [reports EXCEPT ![h] = Append(reports[h], m)]
  <2>1. \A g \in Hosts : reports'[g] = IF g = h THEN Append(reports[h], m) ELSE reports[g]
    BY <1>6 DEF HostTypeOK
  <2> QED
    BY <1>1, <1>4, <2>1 DEF AcksAreReal
<1> QED
  BY <1>2, <1>5, <1>6

\* Losing reports adds none either.
LEMMA FewerReportsKeepAcks ==
  ASSUME HostTypeOK, AcksAreReal, finished' = finished, NEW h \in Hosts,
         NEW lost \in 0..Len(reports[h]),
         reports' = [reports EXCEPT ![h] = SubSeq(reports[h], lost + 1, Len(reports[h]))]
  PROVE  AcksAreReal'
<1>1. reports[h] \in Seq(News)
  BY DEF HostTypeOK
<1>2. \A i \in DOMAIN SubSeq(reports[h], lost + 1, Len(reports[h])) :
        /\ i + lost \in DOMAIN reports[h]
        /\ SubSeq(reports[h], lost + 1, Len(reports[h]))[i] = reports[h][i + lost]
  BY <1>1
<1>3. \A g \in Hosts : reports'[g] = IF g = h
                                     THEN SubSeq(reports[h], lost + 1, Len(reports[h]))
                                     ELSE reports[g]
  BY DEF HostTypeOK
<1> QED
  BY <1>2, <1>3 DEF AcksAreReal

LEMMA AcksStep ==
  ASSUME TypeOK, AcksAreReal, [Next]_vars
  PROVE  AcksAreReal'
<1>0. HostTypeOK /\ \A h \in Hosts : reports[h] \in Seq(News)
  BY DEF TypeOK, HostTypeOK
<1>1. ASSUME reports' = reports, finished' = finished
      PROVE  AcksAreReal'
  BY <1>1 DEF AcksAreReal
<1>2. ASSUME NEW h \in Hosts, HubReport(h)
      PROVE  AcksAreReal'
  <2>1. Tail(reports[h]) = SubSeq(reports[h], 1 + 1, Len(reports[h])) /\ 1 \in 0..Len(reports[h])
    BY <1>0, <1>2 DEF HubReport
  <2>2. reports' = [reports EXCEPT ![h] = SubSeq(reports[h], 1 + 1, Len(reports[h]))]
    BY <1>2, <2>1 DEF HubReport
  <2>3. finished' = finished
    BY <1>2 DEF HubReport, hostVars
  <2> QED
    BY <1>0, <2>1, <2>2, <2>3, FewerReportsKeepAcks
<1>3. ASSUME NEW h \in Hosts, HostDown(h)
      PROVE  AcksAreReal'
  <2>1. PICK lost \in 0..Len(reports[h]) :
          reports' = [reports EXCEPT ![h] = SubSeq(reports[h], lost + 1, Len(reports[h]))]
    BY <1>3 DEF HostDown
  <2>2. finished' = finished
    BY <1>3 DEF HostDown
  <2> QED
    BY <1>0, <2>1, <2>2, FewerReportsKeepAcks
<1>4. ASSUME NEW h \in Hosts, HostRestart(h)
      PROVE  AcksAreReal'
  BY <1>0, <1>4 DEF HostRestart, AcksAreReal, HostTypeOK
<1>5. ASSUME NEW h \in Hosts, HostSpawn(h)
      PROVE  AcksAreReal'
  BY <1>0, <1>5, ReportKeepsAcks DEF HostSpawn
<1>6. ASSUME NEW h \in Hosts, NEW n \in Names, HostGivesUp(h, n)
      PROVE  AcksAreReal'
  BY <1>0, <1>6, ReportKeepsAcks DEF HostGivesUp
<1>7. ASSUME NEW h \in Hosts, NEW w \in awaiting[h], HostAck(h, w)
      PROVE  AcksAreReal'
  <2> DEFINE m == [type |-> "stopped", name |-> w.name, id |-> w.id]
  <2>1. /\ reports' = [reports EXCEPT ![h] = Append(reports[h], m)]
        /\ finished' = finished \cup {m.id}
    BY <1>7 DEF HostAck
  <2> HIDE DEF m
  <2>2. \A i \in DOMAIN Append(reports[h], m) :
          \/ i \in DOMAIN reports[h] /\ Append(reports[h], m)[i] = reports[h][i]
          \/ Append(reports[h], m)[i] = m
    BY <1>0
  <2>3. \A g \in Hosts : reports'[g] = IF g = h THEN Append(reports[h], m) ELSE reports[g]
    BY <2>1 DEF TypeOK, HostTypeOK
  <2> QED
    BY <2>1, <2>2, <2>3 DEF AcksAreReal
<1>8. ASSUME NEW h \in Hosts,
             \/ Dial(h) \/ Join(h) \/ Refuse(h) \/ Welcome(h) \/ HubClosed(h) \/ DropHost(h)
             \/ Leave(h) \/ HostWelcome(h) \/ HostStop(h) \/ \E n \in Names : HostStopped(h, n)
      PROVE  AcksAreReal'
  BY <1>1, <1>8 DEF Dial, Join, Refuse, Welcome, HubClosed, DropHost, Leave, HostWelcome,
       HostStop, HostStopped, hostVars
<1>9. ASSUME NEW r \in Requests, RequestStep(r) \/ DeleteTimeout(r)
      PROVE  AcksAreReal'
  BY <1>1, <1>9 DEF RequestStep, CreateRead, CreateSend, CreateUndo, DeleteBegin, DeleteSender,
       DeleteSend, DeleteResult, DeleteRemove, DeleteFinish, DeleteTimeout, hostVars
<1>10. ASSUME NEW r \in Requests, NEW h \in Hosts, NEW n \in Names,
              CreateAdd(r, h, n) \/ DeleteRead(r, h, n)
       PROVE  AcksAreReal'
  BY <1>1, <1>10 DEF CreateAdd, DeleteRead, hostVars
<1>11. CASE UNCHANGED vars
  BY <1>1, <1>11 DEF vars, hostVars
<1> QED
  BY <1>2, <1>3, <1>4, <1>5, <1>6, <1>7, <1>8, <1>9, <1>10, <1>11 DEF Next

\* What a step may do to a request without making a confirmation up: leave its
\* result alone within the stop it belongs to, or have none.
Keeps(r) == /\ req'[r].result = req[r].result
            /\ req'[r].id = req[r].id
            /\ req[r].pc \in Stopping => req'[r].pc \in Stopping
Clears(r) == req'[r].result = "none"

LEMMA KeptConfirmations ==
  ASSUME StopWasConfirmed, ResultsHaveStops, finished \subseteq finished',
         \A r \in Requests : Keeps(r) \/ Clears(r)
  PROVE  StopWasConfirmed' /\ ResultsHaveStops'
  BY DEF StopWasConfirmed, ResultsHaveStops, Keeps, Clears

\* A result that stops.dropHost or stops.ack fills in.
LEMMA NewResults ==
  ASSUME HubTypeOK, StopWasConfirmed, ResultsHaveStops, finished \subseteq finished',
         NEW S \in SUBSET Requests, NEW res \in {"stopped", "dropped"},
         \A r \in S : /\ req[r].pc \in Stopping
                      /\ res = "stopped" => req[r].id \in finished,
         req' = [r \in Requests |-> IF r \in S THEN [req[r] EXCEPT !.result = res] ELSE req[r]]
  PROVE  StopWasConfirmed' /\ ResultsHaveStops'
<1>1. \A r \in Requests : req[r] \in Request
  BY DEF HubTypeOK
<1>2. \A r \in S : req'[r].pc = req[r].pc /\ req'[r].id = req[r].id /\ req'[r].result = res
  BY <1>1 DEF Request, Serving, Idle
<1>3. \A r \in Requests \ S : req'[r] = req[r]
  OBVIOUS
<1> QED
  BY <1>2, <1>3 DEF StopWasConfirmed, ResultsHaveStops

\* A request on its own gets no result.
LEMMA RequestKeepsResults ==
  ASSUME TypeOK, ResultsHaveStops, NEW r \in Requests, RequestStep(r) \/ DeleteTimeout(r)
  PROVE  \A q \in Requests : Keeps(q) \/ Clears(q)
<1>0. HubTypeOK
  BY DEF TypeOK
<1>1. ASSUME NEW q \in Requests, req'[q] = req[q]
      PROVE  Keeps(q)
  BY <1>1 DEF Keeps
<1>2. CASE Answer(r)
  BY <1>0, <1>1, <1>2 DEF Answer, Clears, Idle, HubTypeOK
<1>3. ASSUME NEW pc, Goto(r, pc), req[r].pc # "idle", req[r].pc \in Stopping => pc \in Stopping
      PROVE  \A q \in Requests : Keeps(q) \/ Clears(q)
  <2>1. req'[r] = [req[r] EXCEPT !.pc = pc] /\ \A q \in Requests \ {r} : req'[q] = req[q]
    BY <1>0, <1>3 DEF Goto, HubTypeOK
  <2>2. req'[r].pc = pc /\ req'[r].result = req[r].result /\ req'[r].id = req[r].id
    BY <1>0, <1>3, <2>1, ServingRequest DEF Serving
  <2> QED
    BY <1>1, <1>3, <2>1, <2>2 DEF Keeps
<1>4. CASE CreateRead(r)
  <2>1. ASSUME NEW a, req' = [req EXCEPT ![r].pc = "spawning", ![r].agent = a]
        PROVE  \A q \in Requests : Keeps(q) \/ Clears(q)
    <3>1. /\ req'[r] = [req[r] EXCEPT !.pc = "spawning", !.agent = a]
          /\ \A q \in Requests \ {r} : req'[q] = req[q]
      BY <1>0, <2>1 DEF HubTypeOK
    <3>2. req[r].pc \notin Stopping
      BY <1>4 DEF CreateRead, Stopping
    <3>3. req'[r].result = req[r].result /\ req'[r].id = req[r].id
      BY <1>0, <1>4, <3>1, ServingRequest DEF CreateRead, Serving
    <3> QED
      BY <1>1, <3>1, <3>2, <3>3 DEF Keeps
  <2> QED
    BY <1>2, <1>4, <2>1 DEF CreateRead
<1>5. CASE CreateSend(r)
  BY <1>2, <1>3, <1>5 DEF CreateSend, Stopping
<1>6. CASE CreateUndo(r)
  BY <1>2, <1>6 DEF CreateUndo
<1>7. CASE DeleteBegin(r)
  <2>1. CASE MayBegin(req[r].name)
    <3>1. /\ req'[r] = [req[r] EXCEPT !.pc = "begun", !.id = nextStop + 1]
          /\ \A q \in Requests \ {r} : req'[q] = req[q]
      BY <1>0, <1>7, <2>1 DEF DeleteBegin, HubTypeOK
    <3>2. req[r].result = "none"
      BY <1>7 DEF DeleteBegin, ResultsHaveStops, Stopping
    <3>3. req'[r].result = "none"
      BY <1>0, <1>7, <3>1, <3>2, ServingRequest DEF DeleteBegin, Serving
    <3> QED
      BY <1>1, <3>1, <3>3 DEF Clears
  <2>2. CASE ~MayBegin(req[r].name)
    BY <1>2, <1>7, <2>2 DEF DeleteBegin
  <2> QED
    BY <2>1, <2>2
<1>8. CASE DeleteSender(r)
  <2>1. ASSUME NEW k, req' = [req EXCEPT ![r].pc = "sending", ![r].conn = k]
        PROVE  \A q \in Requests : Keeps(q) \/ Clears(q)
    <3>1. /\ req'[r] = [req[r] EXCEPT !.pc = "sending", !.conn = k]
          /\ \A q \in Requests \ {r} : req'[q] = req[q]
      BY <1>0, <2>1 DEF HubTypeOK
    <3>2. req'[r].result = req[r].result /\ req'[r].id = req[r].id /\ req'[r].pc = "sending"
      BY <1>0, <1>8, <3>1, ServingRequest DEF DeleteSender, Serving
    <3> QED
      BY <1>1, <3>1, <3>2 DEF Keeps, Stopping
  <2> QED
    BY <1>3, <1>8, <2>1 DEF DeleteSender, Stopping
<1>9. CASE DeleteSend(r)
  BY <1>3, <1>9 DEF DeleteSend, Stopping
<1>10. CASE DeleteResult(r)
  BY <1>3, <1>10 DEF DeleteResult, Stopping
<1>11. CASE DeleteRemove(r)
  BY <1>3, <1>11 DEF DeleteRemove, Stopping
<1>12. CASE DeleteFinish(r)
  BY <1>2, <1>12 DEF DeleteFinish
<1>13. CASE DeleteTimeout(r)
  BY <1>3, <1>13 DEF DeleteTimeout, Stopping
<1> QED
  BY <1>4, <1>5, <1>6, <1>7, <1>8, <1>9, <1>10, <1>11, <1>12, <1>13 DEF RequestStep

LEMMA ConfirmStep ==
  ASSUME TypeOK, StopsHaveOneOwner, AcksAreReal, StopWasConfirmed, ResultsHaveStops, [Next]_vars
  PROVE  StopWasConfirmed' /\ ResultsHaveStops'
<1>0. HubTypeOK
  BY DEF TypeOK
<1>1. ASSUME req' = req, finished \subseteq finished'
      PROVE  StopWasConfirmed' /\ ResultsHaveStops'
  BY <1>1 DEF StopWasConfirmed, ResultsHaveStops
<1>2. ASSUME NEW r \in Requests, RequestStep(r) \/ DeleteTimeout(r)
      PROVE  StopWasConfirmed' /\ ResultsHaveStops'
  <2>1. finished' = finished
    BY <1>2 DEF RequestStep, CreateRead, CreateSend, CreateUndo, DeleteBegin, DeleteSender,
         DeleteSend, DeleteResult, DeleteRemove, DeleteFinish, DeleteTimeout, hostVars
  <2> QED
    BY <1>2, <2>1, RequestKeepsResults, KeptConfirmations
<1>3. ASSUME NEW r \in Requests, NEW h \in Hosts, NEW n \in Names,
             CreateAdd(r, h, n) \/ DeleteRead(r, h, n)
      PROVE  StopWasConfirmed' /\ ResultsHaveStops'
  <2>1. finished' = finished /\ \A q \in Requests \ {r} : req'[q] = req[q]
    BY <1>0, <1>3 DEF CreateAdd, DeleteRead, hostVars, HubTypeOK
  <2>2. req'[r].result = "none"
    <3>1. CASE CreateAdd(r, h, n)
      BY <1>0, <3>1 DEF CreateAdd, Idle, HubTypeOK
    <3>2. CASE DeleteRead(r, h, n)
      BY <1>0, <3>2 DEF DeleteRead, Idle, HubTypeOK
    <3> QED
      BY <1>3, <3>1, <3>2
  <2> QED
    BY <2>1, <2>2, KeptConfirmations DEF Keeps, Clears
<1>4. ASSUME NEW h \in Hosts, DropHost(h)
      PROVE  StopWasConfirmed' /\ ResultsHaveStops'
  <2> DEFINE S == {r \in Requests : StopOf(r, h) /\ req[r].result = "none"}
  <2>1. \A r \in S : req[r].pc \in Stopping
    BY NullsAssumption DEF StopOf, StopsHaveOneOwner
  <2>2. req' = [r \in Requests |->
                  IF r \in S THEN [req[r] EXCEPT !.result = "dropped"] ELSE req[r]]
    BY <1>4 DEF DropHost
  <2>3. finished' = finished
    BY <1>4 DEF DropHost, hostVars
  <2> QED
    BY <1>0, <2>1, <2>2, <2>3, NewResults
<1>5. ASSUME NEW h \in Hosts, HubReport(h)
      PROVE  StopWasConfirmed' /\ ResultsHaveStops'
  <2> DEFINE m == Head(reports[h])
             S == {r \in Requests : Acks(r, h, m) /\ req[r].result = "none"}
  <2>1. finished' = finished
    BY <1>5 DEF HubReport, hostVars
  <2>2. CASE req' = req
    BY <1>1, <2>1, <2>2
  <2>3. CASE req' # req
    <3>1. /\ m.type = "stopped"
          /\ req' = [r \in Requests |->
                       IF r \in S THEN [req[r] EXCEPT !.result = "stopped"] ELSE req[r]]
      BY <1>5, <2>3 DEF HubReport
    <3>2. m \in News /\ m.id \in finished
      BY <1>5, <3>1 DEF HubReport, AcksAreReal, TypeOK, HostTypeOK
    <3>3. m.name \in Names
      BY <3>2 DEF News
    <3>4. \A r \in S : req[r].pc \in Stopping /\ req[r].id \in finished
      BY <3>2, <3>3, NullsAssumption DEF Acks, StopsHaveOneOwner
    <3> QED
      BY <1>0, <2>1, <3>1, <3>4, NewResults
  <2> QED
    BY <2>2, <2>3
<1>6. ASSUME NEW h \in Hosts,
             \/ Welcome(h) \/ HubClosed(h) \/ Join(h) \/ Leave(h)
             \/ Dial(h) \/ Refuse(h) \/ HostDown(h) \/ HostRestart(h) \/ HostWelcome(h)
             \/ HostSpawn(h) \/ HostStop(h)
             \/ \E n \in Names : HostStopped(h, n) \/ HostGivesUp(h, n)
             \/ \E w \in awaiting[h] : HostAck(h, w)
      PROVE  StopWasConfirmed' /\ ResultsHaveStops'
  BY <1>1, <1>6 DEF Welcome, HubClosed, Join, Leave, Dial, Refuse, HostDown,
       HostRestart, HostWelcome, HostSpawn, HostStop, HostStopped, HostGivesUp, HostAck,
       hubVars, hostVars
<1>7. CASE UNCHANGED vars
  BY <1>1, <1>7 DEF vars, hubVars, hostVars
<1> QED
  BY <1>2, <1>3, <1>4, <1>5, <1>6, <1>7 DEF Next

\* A delete is told that its agent has stopped only after the host saw that very
\* stop through, whatever was dropped, delayed or sent over another connection.
THEOREM StopsAreConfirmed == Spec => []StopWasConfirmed
<1> DEFINE Inv == AcksAreReal /\ StopWasConfirmed /\ ResultsHaveStops
<1>1. Init => Inv
  BY DEF Init, AcksAreReal, StopWasConfirmed, ResultsHaveStops, Idle
<1>2. TypeOK /\ StopsHaveOneOwner /\ Inv /\ [Next]_vars => Inv'
  BY AcksStep, ConfirmStep
<1> QED
  BY TypeCorrect, StopsAreOwned, <1>1, <1>2, PTL DEF Spec

-----------------------------------------------------------------------------
(* A delete that waits is still within its host's reach, or dropHost's. *)

\* A request by itself starts to wait only where its stop was sent.
LEMMA RequestKeepsReach ==
  ASSUME TypeOK, NoOrphanedWait, NEW r \in Requests, RequestStep(r) \/ DeleteTimeout(r)
  PROVE  NoOrphanedWait'
<1>0. HubTypeOK
  BY DEF TypeOK
<1>1. hubConn' = hubConn /\ session' = session
  BY DEF RequestStep, CreateRead, CreateSend, CreateUndo, DeleteBegin, DeleteSender,
     DeleteSend, DeleteResult, DeleteRemove, DeleteFinish, DeleteTimeout, linkVars
<1>2. \A q \in Requests \ {r} : req'[q] = req[q]
  BY <1>0 DEF RequestStep, CreateRead, CreateSend, CreateUndo, DeleteBegin, DeleteSender,
     DeleteSend, DeleteResult, DeleteRemove, DeleteFinish, DeleteTimeout, Goto, Answer, HubTypeOK
<1>3. CASE DeleteSend(r)
  <2>1. CASE CanSend(r)
    <3>1. req' = [req EXCEPT ![r].pc = "waiting"]
      BY <1>3, <2>1 DEF DeleteSend, Goto
    <3>2. req'[r].host = req[r].host /\ req'[r].conn = req[r].conn
      BY <1>0, <3>1 DEF HubTypeOK
    <3> QED
      BY <1>1, <1>2, <2>1, <3>2 DEF CanSend, NoOrphanedWait
  <2>2. CASE ~CanSend(r)
    <3>1. req' = [req EXCEPT ![r].pc = "finish"]
      BY <1>3, <2>2 DEF DeleteSend, Goto
    <3>2. req'[r].pc = "finish"
      BY <1>0, <1>3, <3>1, ServingRequest DEF DeleteSend, HubTypeOK, Serving
    <3> QED
      BY <1>1, <1>2, <3>2 DEF NoOrphanedWait
  <2> QED
    BY <2>1, <2>2
<1>4. CASE ~DeleteSend(r)
  <2>1. req'[r].pc # "waiting"
    <3>1. ASSUME NEW pc \in {"undo", "finish", "confirmed"}, Goto(r, pc), req[r].pc # "idle"
          PROVE  req'[r].pc # "waiting"
      BY <1>0, <3>1, ServingRequest DEF Goto, HubTypeOK, Serving
    <3>2. CASE Answer(r)
      BY <1>0, <3>2 DEF Answer, Idle, HubTypeOK
    <3>3. CASE CreateRead(r)
      <4>1. ASSUME NEW a, req' = [req EXCEPT ![r].pc = "spawning", ![r].agent = a]
            PROVE  req'[r].pc # "waiting"
        BY <1>0, <3>3, <4>1, ServingRequest DEF CreateRead, HubTypeOK, Serving
      <4> QED
        BY <3>2, <3>3, <4>1 DEF CreateRead
    <3>4. CASE DeleteBegin(r)
      <4>1. ASSUME NEW i, req' = [req EXCEPT ![r].pc = "begun", ![r].id = i]
            PROVE  req'[r].pc # "waiting"
        BY <1>0, <3>4, <4>1, ServingRequest DEF DeleteBegin, HubTypeOK, Serving
      <4> QED
        BY <3>2, <3>4, <4>1 DEF DeleteBegin
    <3>5. CASE DeleteSender(r)
      <4>1. ASSUME NEW k, req' = [req EXCEPT ![r].pc = "sending", ![r].conn = k]
            PROVE  req'[r].pc # "waiting"
        BY <1>0, <3>5, <4>1, ServingRequest DEF DeleteSender, HubTypeOK, Serving
      <4> QED
        BY <3>1, <3>5, <4>1 DEF DeleteSender
    <3>6. CASE CreateSend(r)
      BY <3>1, <3>2, <3>6 DEF CreateSend
    <3>7. CASE CreateUndo(r) \/ DeleteFinish(r)
      BY <3>2, <3>7 DEF CreateUndo, DeleteFinish
    <3>8. CASE DeleteResult(r)
      BY <3>1, <3>8 DEF DeleteResult
    <3>9. CASE DeleteRemove(r)
      BY <3>1, <3>9 DEF DeleteRemove
    <3>10. CASE DeleteTimeout(r)
      BY <3>1, <3>10 DEF DeleteTimeout
    <3> QED
      BY <1>4, <3>3, <3>4, <3>5, <3>6, <3>7, <3>8, <3>9, <3>10 DEF RequestStep
  <2> QED
    BY <1>1, <1>2, <2>1 DEF NoOrphanedWait
<1> QED
  BY <1>3, <1>4

LEMMA ReachStep ==
  ASSUME TypeOK, StopsHaveOneOwner, NoOrphanedWait, [Next]_vars
  PROVE  NoOrphanedWait'
<1>0. HubTypeOK /\ LinkTypeOK /\ \A r \in Requests : req[r] \in Request
  BY DEF TypeOK, HubTypeOK
<1>1. ASSUME req' = req, hubConn' = hubConn, session' = session
      PROVE  NoOrphanedWait'
  BY <1>1 DEF NoOrphanedWait
<1>2. ASSUME NEW r \in Requests, NEW h \in Hosts, NEW n \in Names,
             CreateAdd(r, h, n) \/ DeleteRead(r, h, n)
      PROVE  NoOrphanedWait'
  <2>1. /\ hubConn' = hubConn /\ session' = session
        /\ \A q \in Requests \ {r} : req'[q] = req[q]
    BY <1>0, <1>2 DEF CreateAdd, DeleteRead, linkVars, HubTypeOK
  <2>2. req'[r].pc # "waiting"
    <3>1. CASE CreateAdd(r, h, n)
      BY <1>0, <3>1 DEF CreateAdd, Idle, HubTypeOK
    <3>2. CASE DeleteRead(r, h, n)
      BY <1>0, <3>2 DEF DeleteRead, Idle, HubTypeOK
    <3> QED
      BY <1>2, <3>1, <3>2
  <2> QED
    BY <2>1, <2>2 DEF NoOrphanedWait
<1>3. ASSUME NEW h \in Hosts, DropHost(h)
      PROVE  NoOrphanedWait'
  <2> DEFINE S == {r \in Requests : StopOf(r, h) /\ req[r].result = "none"}
  <2>1. req' = [r \in Requests |->
                  IF r \in S THEN [req[r] EXCEPT !.result = "dropped"] ELSE req[r]]
    BY <1>3 DEF DropHost
  <2>2. \A r \in S : req'[r].result # "none"
    BY <1>0, <2>1 DEF Request, Serving, Idle
  <2>3. \A r \in Requests \ S : req'[r] = req[r]
    BY <2>1
  <2>4. \A g \in Hosts \ {h} : hubConn'[g] = hubConn[g]
    BY <1>0, <1>3 DEF DropHost, LinkTypeOK
  <2>5. session' = session
    BY <1>3 DEF DropHost
  <2>6. \A r \in Requests \ S : req[r].pc = "waiting" /\ req[r].result = "none" =>
          req[r].host \in Hosts \ {h}
    <3>1. ASSUME NEW r \in Requests, req[r].pc = "waiting", req[r].result = "none",
                 req[r].host = h
          PROVE  r \in S
      <4>1. pending[req[r].name] = r /\ req[r].name \in Names
        BY <1>0, <3>1, ServingRequest DEF StopsHaveOneOwner, Stopping
      <4> QED
        BY <3>1, <4>1 DEF StopOf
    <3> QED
      BY <1>0, <3>1, ServingRequest
  <2> HIDE DEF S
  <2> QED
    BY <2>2, <2>3, <2>4, <2>5, <2>6 DEF NoOrphanedWait
<1>4. ASSUME NEW h \in Hosts, HubReport(h)
      PROVE  NoOrphanedWait'
  <2> DEFINE S == {r \in Requests : Acks(r, h, Head(reports[h])) /\ req[r].result = "none"}
  <2>1. hubConn' = hubConn /\ session' = session
    BY <1>4 DEF HubReport, linkVars
  <2>2. CASE req' = req
    BY <1>1, <2>1, <2>2
  <2>3. CASE req' # req
    <3>1. req' = [r \in Requests |->
                    IF r \in S THEN [req[r] EXCEPT !.result = "stopped"] ELSE req[r]]
      BY <1>4, <2>3 DEF HubReport
    <3>2. \A r \in S : req'[r].result # "none"
      BY <1>0, <3>1 DEF Request, Serving, Idle
    <3>3. \A r \in Requests \ S : req'[r] = req[r]
      BY <3>1
    <3> HIDE DEF S
    <3> QED
      BY <2>1, <3>2, <3>3 DEF NoOrphanedWait
  <2> QED
    BY <2>2, <2>3
<1>5. ASSUME NEW h \in Hosts, HubClosed(h) \/ Leave(h) \/ Join(h)
      PROVE  NoOrphanedWait'
  <2>1. req' = req
    BY <1>5 DEF HubClosed, Leave, Join, hubVars
  <2>2. \A g \in Hosts \ {h} : hubConn'[g] = hubConn[g] /\ session'[g] = session[g]
    BY <1>0, <1>5 DEF HubClosed, Leave, Join, LinkTypeOK
  <2>3. \/ hubConn'[h] = "closed" /\ session'[h] = session[h]
        \/ hubConn[h] \in {"none", "dropped"}
    BY <1>0, <1>5 DEF HubClosed, Leave, Join, LinkTypeOK
  <2>4. \A r \in Requests : req[r].pc = "waiting" => req[r].host \in Hosts
    BY <1>0, ServingRequest
  <2> QED
    BY <2>1, <2>2, <2>3, <2>4 DEF NoOrphanedWait
<1>6. ASSUME NEW h \in Hosts,
             \/ Welcome(h) \/ Dial(h) \/ Refuse(h) \/ HostDown(h) \/ HostRestart(h)
             \/ HostWelcome(h) \/ HostSpawn(h) \/ HostStop(h)
             \/ \E n \in Names : HostStopped(h, n) \/ HostGivesUp(h, n)
             \/ \E w \in awaiting[h] : HostAck(h, w)
      PROVE  NoOrphanedWait'
  BY <1>1, <1>6 DEF Welcome, Dial, Refuse, HostDown, HostRestart, HostWelcome, HostSpawn,
       HostStop, HostStopped, HostGivesUp, HostAck, hubVars, linkVars
<1>7. CASE UNCHANGED vars
  BY <1>1, <1>7 DEF vars, hubVars, linkVars
<1> QED
  BY <1>2, <1>3, <1>4, <1>5, <1>6, <1>7, RequestKeepsReach DEF Next

\* No delete waits on a connection whose end has been dealt with: its answer, or
\* the news that its host is gone, is still to come.
THEOREM WaitsAreReachable == Spec => []NoOrphanedWait
<1>1. Init => NoOrphanedWait
  BY DEF Init, NoOrphanedWait, Idle
<1> QED
  BY TypeCorrect, StopsAreOwned, <1>1, ReachStep, PTL DEF Spec
=============================================================================
