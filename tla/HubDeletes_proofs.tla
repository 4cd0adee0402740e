------------------------- MODULE HubDeletes_proofs -------------------------
(* What a member was told is gone stays gone, for a hub with one host.  The  *)
(* inductive invariant follows an agent the host ran at the start through    *)
(* everything that could start it again: the hello of the next connection,   *)
(* a create that reads the name back, a spawn on its way.                    *)
EXTENDS HubControl_proofs

\* With a second host a create may read back an agent that is not of its host.
OneHost == \A g, h \in Hosts : g = h

-----------------------------------------------------------------------------
(* The invariant. *)

\* The agent host h came with as n is over: no process, and no hello on its way
\* that lists it.
Ended(h, n) ==
  Restored[h][n] # None => /\ running[h][n] # Restored[h][n]
                           /\ hello[h][n] # Restored[h][n]
Gone(h, n) == Ended(h, n) /\ (Restored[h][n] # None => agents[h][n] # Restored[h][n])

\* An agent from before the start keeps the name it had.
Known(h, n, a) == a # None /\ a < FirstCreated => a = Restored[h][n]

NamesAreKept ==
  /\ clock >= FirstCreated
  /\ \A h \in Hosts, n \in Names :
       Known(h, n, agents[h][n]) /\ Known(h, n, running[h][n]) /\ Known(h, n, hello[h][n])

\* A name is created anew only after its old agent is over, so what create reads
\* back and asks the host to run is never the old one.
CreatesAreNew ==
  \A r \in Requests :
    /\ req[r].pc \in Creating => Gone(req[r].host, req[r].name)
    /\ req[r].pc = "spawning" => req[r].agent >= FirstCreated

SpawnsAreNew ==
  \A h \in Hosts : \A i \in DOMAIN commands[h] :
    commands[h][i].type = "spawn" => commands[h][i].agent >= FirstCreated

\* The host has dialed, and the hub has not taken its hello yet.
Greets(h) == hostConn[h] = "dialed" /\ dial[h] # session[h]

\* A hello that leaves an agent out was made after the agent was over.
HellosAreFresh ==
  \A h \in Hosts :
    /\ session[h] <= dial[h]
    /\ \A n \in Names : IF Greets(h) THEN hello[h][n] # Restored[h][n] => Ended(h, n)
                                     ELSE hello[h][n] = None

\* While the host is connected, an agent it came with is on the list or over.
EndedOrListed ==
  \A h \in Hosts, n \in Names :
    hubConn[h] # "none" /\ agents[h][n] # Restored[h][n] => Ended(h, n)

\* A stop that is waited for, reported or believed: its name's old agent is what
\* it waits for, or is over.
WaitsEnd ==
  \A h \in Hosts : \A w \in awaiting[h] :
    hostConn[h] = "up" /\ (w.agent # Restored[h][w.name] => Ended(h, w.name))
ReportsEnd ==
  \A h \in Hosts : \A i \in DOMAIN reports[h] :
    reports[h][i].type = "stopped" => Ended(h, reports[h][i].name)
ResultsEnd ==
  \A r \in Requests :
    /\ req[r].result = "stopped" => Ended(req[r].host, req[r].name)
    /\ req[r].pc = "confirmed" => req[r].result = "stopped"

DeletedAreGone ==
  \A a \in deleted : /\ a # None
                     /\ a < FirstCreated => \E h \in Hosts, n \in Names :
                                              a = Restored[h][n] /\ Gone(h, n)

IInv == /\ NamesAreKept /\ CreatesAreNew /\ SpawnsAreNew /\ HellosAreFresh /\ EndedOrListed
        /\ WaitsEnd /\ ReportsEnd /\ ResultsEnd /\ DeletedAreGone

-----------------------------------------------------------------------------
(* What a step may do to the places an agent is in. *)

\* A name on a host moves: what runs ends, or is an agent created since; a hello
\* lists what runs; the list gets what a hello has, or a new agent.
Moves(h, n) ==
  /\ \/ running'[h][n] \in {running[h][n], None}
     \/ running'[h][n] \in Nat /\ running'[h][n] >= FirstCreated
  /\ hello'[h][n] \in {hello[h][n], None, running[h][n]}
  /\ agents'[h][n] \in {agents[h][n], None, hello[h][n], clock}

AllMove == clock' \in {clock, clock + 1} /\ \A h \in Hosts, n \in Names : Moves(h, n)

LEMMA Values ==
  ASSUME TypeOK
  PROVE  /\ FirstCreated \in Nat /\ FirstCreated > 0 /\ None = 0 /\ clock \in Nat
         /\ \A h \in Hosts, n \in Names :
              /\ Restored[h][n] \in Nat /\ Restored[h][n] < FirstCreated
              /\ agents[h][n] \in Nat /\ running[h][n] \in Nat /\ hello[h][n] \in Nat
<1>1. FirstCreated \in Nat /\ FirstCreated > 0 /\ None = 0
  BY BoundsAssumption DEF None
<1>2. clock \in Nat /\ Agents \subseteq Nat
  BY BoundsAssumption, NullValues DEF TypeOK, HubTypeOK
<1>3. \A h \in Hosts, n \in Names : Restored[h][n] \in Agents /\ Restored[h][n] < FirstCreated
  BY RestoredAssumption
<1>4. \A h \in Hosts, n \in Names :
        agents[h][n] \in Agents /\ running[h][n] \in Agents /\ hello[h][n] \in Agents
  BY DEF TypeOK, HubTypeOK, LinkTypeOK, HostTypeOK
<1> QED
  BY <1>1, <1>2, <1>3, <1>4

\* What is over stays over, and what is gone stays gone.
LEMMA OverForGood ==
  ASSUME TypeOK, NamesAreKept, NEW h \in Hosts, NEW n \in Names, Moves(h, n)
  PROVE  (Ended(h, n) => Ended(h, n)') /\ (Gone(h, n) => Gone(h, n)')
<1>1. Restored[h][n] \in Nat /\ Restored[h][n] < FirstCreated /\ FirstCreated \in Nat /\ None = 0
      /\ clock \in Nat /\ clock >= FirstCreated
  BY Values DEF NamesAreKept
<1>2. Ended(h, n) => Ended(h, n)'
  BY <1>1 DEF Ended, Moves
<1>3. Gone(h, n) => (Restored[h][n] # None => agents'[h][n] # Restored[h][n])
  BY <1>1 DEF Gone, Ended, Moves
<1> QED
  BY <1>2, <1>3 DEF Gone

LEMMA NamesStep ==
  ASSUME TypeOK, NamesAreKept, AllMove
  PROVE  NamesAreKept'
<1>1. clock \in Nat /\ FirstCreated \in Nat /\ None = 0
  BY Values
<1>2. clock' >= FirstCreated
  BY <1>1 DEF AllMove, NamesAreKept
<1>3. ASSUME NEW h \in Hosts, NEW n \in Names
      PROVE  Known(h, n, agents'[h][n]) /\ Known(h, n, running'[h][n]) /\ Known(h, n, hello'[h][n])
  <2>1. Moves(h, n)
    BY DEF AllMove
  <2>2. clock >= FirstCreated /\ Known(h, n, agents[h][n]) /\ Known(h, n, running[h][n])
        /\ Known(h, n, hello[h][n])
    BY DEF NamesAreKept
  <2> QED
    BY <1>1, <2>1, <2>2, Values DEF Moves, Known
<1> QED
  BY <1>2, <1>3 DEF NamesAreKept, Known

LEMMA MoveOne ==
  ASSUME TypeOK, clock' \in {clock, clock + 1}, NEW h \in Hosts,
         \A n \in Names : Moves(h, n),
         \A g \in Hosts \ {h}, n \in Names :
           agents'[g][n] = agents[g][n] /\ running'[g][n] = running[g][n] /\ hello'[g][n] = hello[g][n]
  PROVE  AllMove
<1>1. \A g \in Hosts \ {h}, n \in Names : Moves(g, n)
  BY DEF Moves
<1> QED
  BY <1>1 DEF AllMove

LEMMA StepMoves ==
  ASSUME TypeOK, SpawnsAreNew, [Next]_vars
  PROVE  AllMove
<1>0. /\ agents \in [Hosts -> [Names -> Agents]] /\ running \in [Hosts -> [Names -> Agents]]
      /\ hello \in [Hosts -> [Names -> Agents]]
  BY DEF TypeOK, HubTypeOK, LinkTypeOK, HostTypeOK
<1>1. ASSUME agents' = agents, running' = running, hello' = hello, clock' = clock
      PROVE  AllMove
  BY <1>1 DEF AllMove, Moves
<1>2. ASSUME NEW h \in Hosts, NEW n \in Names, Unlist(h, n),
             running' = running, hello' = hello, clock' = clock
      PROVE  AllMove
  <2>1. agents' = [agents EXCEPT ![h][n] = None]
    BY <1>2 DEF Unlist
  <2>2. \A g \in Hosts, m \in Names : agents'[g][m] \in {agents[g][m], None}
    BY <1>0, <2>1
  <2> QED
    BY <1>2, <2>2 DEF AllMove, Moves
<1>3. ASSUME NEW r \in Requests, RequestStep(r) \/ DeleteTimeout(r)
      PROVE  AllMove
  <2>1. running' = running /\ hello' = hello /\ clock' = clock
    BY <1>3 DEF RequestStep, CreateRead, CreateSend, CreateUndo, DeleteBegin, DeleteSender,
         DeleteSend, DeleteResult, DeleteRemove, DeleteFinish, DeleteTimeout, linkVars, hostVars, regVars
  <2>2. CASE CreateUndo(r)
    <3>1. req[r].name \in Names
      BY <2>2, ServingRequest DEF CreateUndo, TypeOK
    <3>2. CASE agents' = agents
      BY <1>1, <2>1, <3>2
    <3> QED
      BY <1>2, <2>1, <2>2, <3>1, <3>2 DEF CreateUndo
  <2>3. CASE DeleteRemove(r)
    <3>1. req[r].name \in Names /\ req[r].host \in Hosts
      BY <2>3, ServingRequest DEF DeleteRemove, TypeOK
    <3>2. CASE agents' = agents
      BY <1>1, <2>1, <3>2
    <3> QED
      BY <1>2, <2>1, <2>3, <3>1, <3>2 DEF DeleteRemove
  <2>4. CASE ~CreateUndo(r) /\ ~DeleteRemove(r)
    <3>1. agents' = agents
      BY <1>3, <2>4 DEF RequestStep, CreateRead, CreateSend, DeleteBegin, DeleteSender,
         DeleteSend, DeleteResult, DeleteFinish, DeleteTimeout, regVars
    <3> QED
      BY <1>1, <2>1, <3>1
  <2> QED
    BY <2>2, <2>3, <2>4
<1>4. ASSUME NEW r \in Requests, NEW h \in Hosts, NEW n \in Names, CreateAdd(r, h, n)
      PROVE  AllMove
  <2>1. /\ agents' = [agents EXCEPT ![h][n] = clock] /\ clock' = clock + 1
        /\ running' = running /\ hello' = hello
    BY <1>4 DEF CreateAdd, linkVars, hostVars
  <2>2. \A g \in Hosts, m \in Names : agents'[g][m] \in {agents[g][m], clock}
    BY <1>0, <2>1
  <2> QED
    BY <2>1, <2>2 DEF AllMove, Moves
<1>5. ASSUME NEW h \in Hosts, Join(h) \/ Leave(h)
      PROVE  AllMove
  <2>1. clock' = clock /\ running' = running
    BY <1>5 DEF Join, Leave, hostVars
  <2>2. \A g \in Hosts \ {h} : agents'[g] = agents[g] /\ hello'[g] = hello[g]
    BY <1>0, <1>5 DEF Join, Leave
  <2>3. \A n \in Names : hello'[h][n] \in {hello[h][n], None} /\ agents'[h][n] \in {None, hello[h][n]}
    BY <1>0, <1>5 DEF Join, Leave, NothingRuns
  <2>4. \A n \in Names : Moves(h, n)
    BY <2>1, <2>3 DEF Moves
  <2> QED
    BY <2>1, <2>2, <2>4, MoveOne
<1>6. ASSUME NEW h \in Hosts,
             Dial(h) \/ Refuse(h) \/ HostDown(h) \/ HostRestart(h) \/ HostWelcome(h)
      PROVE  AllMove
  <2>1. clock' = clock /\ running' = running /\ agents' = agents
    BY <1>6 DEF Dial, Refuse, HostDown, HostRestart, HostWelcome, hubVars, regVars, hostVars
  <2>2. \A g \in Hosts : hello'[g] = IF g = h THEN hello'[h] ELSE hello[g]
    BY <1>0, <1>6 DEF Dial, Refuse, HostDown, HostRestart, HostWelcome, HangUp
  <2>3. hello'[h] \in {hello[h], NothingRuns, running[h]}
    BY <1>0, <1>6 DEF Dial, Refuse, HostDown, HostRestart, HostWelcome, HangUp
  <2>4. \A n \in Names : Moves(h, n)
    BY <2>1, <2>3 DEF Moves, NothingRuns
  <2> QED
    BY <2>1, <2>2, <2>4, MoveOne
<1>7. ASSUME NEW h \in Hosts, HostSpawn(h)
      PROVE  AllMove
  <2>1. clock' = clock /\ agents' = agents /\ hello' = hello
    BY <1>7 DEF HostSpawn, hubVars, regVars, linkVars
  <2>2. commands[h] \in Seq(Command) /\ commands[h] # <<>> /\ Head(commands[h]).type = "spawn"
    BY <1>7 DEF HostSpawn, Obeying, TypeOK, LinkTypeOK
  <2>3. Head(commands[h]) \in Command /\ 1 \in DOMAIN commands[h] /\ Head(commands[h]) = commands[h][1]
    BY <2>2
  <2> DEFINE c == Head(commands[h])
  <2>4. c.name \in Names /\ c.agent \in Nat /\ c.agent >= FirstCreated
    BY <2>2, <2>3, NullValues DEF Command, Greeting, SpawnsAreNew
  <2>5. running' = running \/ running' = [running EXCEPT ![h][c.name] = c.agent]
    BY <1>7 DEF HostSpawn
  <2> HIDE DEF c
  <2>6. \A g \in Hosts, n \in Names :
          running'[g][n] = running[g][n] \/ running'[g][n] = c.agent
    BY <1>0, <2>4, <2>5
  <2> QED
    BY <2>1, <2>4, <2>6 DEF AllMove, Moves
<1>8. ASSUME NEW h \in Hosts, NEW n \in Names, HostStopped(h, n) \/ HostGivesUp(h, n)
      PROVE  AllMove
  <2>1. /\ clock' = clock /\ agents' = agents /\ hello' = hello
        /\ running' = [running EXCEPT ![h][n] = None]
    BY <1>8 DEF HostStopped, HostGivesUp, hubVars, regVars, linkVars
  <2>2. \A g \in Hosts, m \in Names : running'[g][m] \in {running[g][m], None}
    BY <1>0, <2>1
  <2> QED
    BY <2>1, <2>2 DEF AllMove, Moves
<1>9. ASSUME NEW h \in Hosts,
             \/ Welcome(h) \/ HubClosed(h) \/ DropHost(h) \/ HubReport(h) \/ HostStop(h)
             \/ \E w \in awaiting[h] : HostAck(h, w)
      PROVE  AllMove
  BY <1>1, <1>9 DEF Welcome, HubClosed, DropHost, HubReport, HostStop, HostAck,
       hubVars, regVars, linkVars, hostVars
<1>10. ASSUME NEW r \in Requests, NEW h \in Hosts, NEW n \in Names, DeleteRead(r, h, n)
       PROVE  AllMove
  BY <1>1, <1>10 DEF DeleteRead, regVars, linkVars, hostVars
<1>11. CASE UNCHANGED vars
  BY <1>1, <1>11 DEF vars, hubVars, regVars, linkVars, hostVars
<1> QED
  BY <1>3, <1>4, <1>5, <1>6, <1>7, <1>8, <1>9, <1>10, <1>11 DEF Next

LEMMA AllOverForGood ==
  ASSUME TypeOK, NamesAreKept, AllMove
  PROVE  \A h \in Hosts, n \in Names : (Ended(h, n) => Ended(h, n)') /\ (Gone(h, n) => Gone(h, n)')
  BY OverForGood DEF AllMove

-----------------------------------------------------------------------------
(* What a step may do to a request. *)

\* Its handler has returned.
Returned(q) == req'[q] = Idle

\* It goes on: it gets a result only when its agent is over, is to be confirmed
\* only by that result, and spawns only an agent created since the start.
GoesOn(q) ==
  /\ req[q].pc # "idle"
  /\ req'[q].host = req[q].host /\ req'[q].name = req[q].name
  /\ req'[q].result = "stopped" => \/ req[q].result = "stopped"
                                   \/ Ended(req[q].host, req[q].name)
  /\ req'[q].pc = "confirmed" => req'[q].result = "stopped"
  /\ req'[q].pc \in Creating => req[q].pc \in Creating
  /\ req'[q].pc = "spawning" => req'[q].agent >= FirstCreated

\* It begins: a create does so only once the name's old agent is gone.
Begins(q) ==
  /\ req'[q].host \in Hosts /\ req'[q].name \in Names
  /\ req'[q].result = "none" /\ req'[q].pc \notin {"confirmed", "spawning"}
  /\ req'[q].pc \in Creating => Gone(req'[q].host, req'[q].name)

RequestMoves == \A q \in Requests : req'[q] = req[q] \/ Returned(q) \/ GoesOn(q) \/ Begins(q)

LEMMA RequestsStep ==
  ASSUME TypeOK, NamesAreKept, AllMove, CreatesAreNew, ResultsEnd, RequestMoves
  PROVE  CreatesAreNew' /\ ResultsEnd'
<1>1. ASSUME NEW q \in Requests
      PROVE  /\ (req[q].pc \in Creating => Gone(req[q].host, req[q].name))'
             /\ (req[q].pc = "spawning" => req[q].agent >= FirstCreated)'
             /\ (req[q].result = "stopped" => Ended(req[q].host, req[q].name))'
             /\ (req[q].pc = "confirmed" => req[q].result = "stopped")'
  <2>1. CASE req[q].pc = "idle" /\ req'[q] = req[q]
    <3>1. req[q] = Idle
      BY <2>1 DEF TypeOK, HubTypeOK, Request, Serving, Creating, Stopping
    <3> QED
      BY <2>1, <3>1 DEF Idle, Creating
  <2>2. CASE Returned(q)
    BY <2>2 DEF Returned, Idle, Creating
  <2>3. CASE Begins(q)
    <3>1. PICK h \in Hosts, n \in Names : h = req'[q].host /\ n = req'[q].name
      BY <2>3 DEF Begins
    <3>2. req'[q].pc \in Creating => Gone(h, n)'
      BY <2>3, <3>1, AllOverForGood DEF Begins
    <3> QED
      BY <2>3, <3>1, <3>2 DEF Begins, Gone, Ended
  <2>4. CASE req[q].pc # "idle" /\ (req'[q] = req[q] \/ GoesOn(q))
    <3>1. PICK h \in Hosts, n \in Names : h = req[q].host /\ n = req[q].name
      BY <2>4, ServingRequest DEF TypeOK
    <3>2. h = req'[q].host /\ n = req'[q].name
      BY <2>4, <3>1 DEF GoesOn
    <3>3. req'[q].pc \in Creating => Gone(h, n)
      BY <2>4, <3>1 DEF GoesOn, CreatesAreNew
    <3>4. req'[q].result = "stopped" => Ended(h, n)
      BY <2>4, <3>1 DEF GoesOn, ResultsEnd
    <3>5. /\ req'[q].pc = "spawning" => req'[q].agent >= FirstCreated
          /\ req'[q].pc = "confirmed" => req'[q].result = "stopped"
      BY <2>4 DEF GoesOn, CreatesAreNew, ResultsEnd
    <3>6. (Ended(h, n) => Ended(h, n)') /\ (Gone(h, n) => Gone(h, n)')
      BY AllOverForGood
    <3> QED
      BY <3>2, <3>3, <3>4, <3>5, <3>6 DEF Gone, Ended
  <2> QED
    BY <2>1, <2>2, <2>3, <2>4 DEF RequestMoves, GoesOn
<1> QED
  BY <1>1 DEF CreatesAreNew, ResultsEnd

\* A request that only goes on to another place in its handler.
LEMMA GotoMoves ==
  ASSUME TypeOK, NEW r \in Requests, NEW pc, Goto(r, pc), req[r].pc # "idle",
         pc \in Creating => req[r].pc \in Creating,
         pc # "spawning", pc = "confirmed" => req[r].result = "stopped"
  PROVE  RequestMoves
<1>1. req[r] \in Serving
  BY ServingRequest DEF TypeOK
<1>2. req' = [req EXCEPT ![r].pc = pc] /\ req \in [Requests -> Request]
  BY DEF Goto, TypeOK, HubTypeOK
<1>3. /\ req'[r].pc = pc /\ req'[r].host = req[r].host /\ req'[r].name = req[r].name
      /\ req'[r].result = req[r].result
  BY <1>1, <1>2 DEF Serving
<1>4. \A q \in Requests \ {r} : req'[q] = req[q]
  BY <1>2
<1> QED
  BY <1>3, <1>4 DEF RequestMoves, GoesOn

LEMMA AnswerMoves ==
  ASSUME TypeOK, NEW r \in Requests, Answer(r)
  PROVE  RequestMoves
  BY DEF Answer, TypeOK, HubTypeOK, RequestMoves, Returned

\* registry.Agent reads back the agent that was added, or one created since.
LEMMA ReadMoves ==
  ASSUME TypeOK, OneHost, NamesAreKept, CreatesAreNew, NEW r \in Requests, CreateRead(r)
  PROVE  RequestMoves
<1>1. CASE Answer(r)
  BY <1>1, AnswerMoves
<1>2. ASSUME NEW h \in Hosts, TakenOn(h, req[r].name),
             req' = [req EXCEPT ![r].pc = "spawning", ![r].agent = agents[h][req[r].name]]
      PROVE  RequestMoves
  <2>1. /\ req[r] \in Serving /\ req[r].host \in Hosts /\ req[r].name \in Names
        /\ req[r].pc = "added"
    BY ServingRequest DEF TypeOK, CreateRead
  <2>2. req[r].host = h
    BY <2>1 DEF OneHost
  <2> DEFINE a == agents[h][req[r].name]
  <2>3. Gone(h, req[r].name) /\ Known(h, req[r].name, a) /\ a # None
    BY <1>2, <2>1, <2>2 DEF CreatesAreNew, Creating, NamesAreKept, TakenOn
  <2>4. a \in Nat /\ FirstCreated \in Nat
    BY <2>1, Values
  <2>5. a >= FirstCreated
    BY <2>3, <2>4 DEF Gone, Known
  <2> HIDE DEF a
  <2>6. /\ req'[r] = [req[r] EXCEPT !.pc = "spawning", !.agent = a]
        /\ \A q \in Requests \ {r} : req'[q] = req[q]
    BY <1>2 DEF TypeOK, HubTypeOK, a
  <2>7. /\ req'[r].pc = "spawning" /\ req'[r].agent = a /\ req'[r].host = req[r].host
        /\ req'[r].name = req[r].name /\ req'[r].result = req[r].result
    BY <2>1, <2>6 DEF Serving
  <2>8. GoesOn(r)
    BY <2>1, <2>5, <2>7 DEF GoesOn, Creating
  <2> QED
    BY <2>6, <2>8 DEF RequestMoves
<1> QED
  BY <1>1, <1>2 DEF CreateRead

LEMMA RequestStepMoves ==
  ASSUME TypeOK, OneHost, NamesAreKept, CreatesAreNew, ResultsEnd,
         NEW r \in Requests, RequestStep(r) \/ DeleteTimeout(r)
  PROVE  RequestMoves
<1>1. CASE CreateRead(r)
  BY <1>1, ReadMoves
<1>2. CASE CreateSend(r)
  BY <1>2, AnswerMoves, GotoMoves DEF CreateSend, Creating
<1>3. CASE CreateUndo(r) \/ DeleteFinish(r)
  BY <1>3, AnswerMoves DEF CreateUndo, DeleteFinish
<1>4. CASE DeleteBegin(r)
  <2>1. CASE MayBegin(req[r].name)
    <3>1. req[r] \in Serving /\ req[r].pc = "chosen"
      BY <1>4, ServingRequest DEF TypeOK, DeleteBegin
    <3>2. /\ req'[r] = [req[r] EXCEPT !.pc = "begun", !.id = nextStop + 1]
          /\ \A q \in Requests \ {r} : req'[q] = req[q]
      BY <1>4, <2>1 DEF DeleteBegin, TypeOK, HubTypeOK
    <3>3. /\ req'[r].pc = "begun" /\ req'[r].host = req[r].host
          /\ req'[r].name = req[r].name /\ req'[r].result = req[r].result
      BY <3>1, <3>2 DEF Serving
    <3> QED
      BY <3>1, <3>2, <3>3 DEF RequestMoves, GoesOn, Creating
  <2>2. CASE ~MayBegin(req[r].name)
    BY <1>4, <2>2, AnswerMoves DEF DeleteBegin
  <2> QED
    BY <2>1, <2>2
<1>5. CASE DeleteSender(r)
  <2>1. CASE SameAgent(r)
    <3>1. req[r] \in Serving /\ req[r].pc = "begun"
      BY <1>5, ServingRequest DEF TypeOK, DeleteSender
    <3>2. /\ req'[r] = [req[r] EXCEPT !.pc = "sending", !.conn = session[req[r].host]]
          /\ \A q \in Requests \ {r} : req'[q] = req[q]
      BY <1>5, <2>1 DEF DeleteSender, TypeOK, HubTypeOK
    <3>3. /\ req'[r].pc = "sending" /\ req'[r].host = req[r].host
          /\ req'[r].name = req[r].name /\ req'[r].result = req[r].result
      BY <3>1, <3>2 DEF Serving
    <3> QED
      BY <3>1, <3>2, <3>3 DEF RequestMoves, GoesOn, Creating
  <2>2. CASE ~SameAgent(r)
    BY <1>5, <2>2, GotoMoves DEF DeleteSender, Creating
  <2> QED
    BY <2>1, <2>2
<1>6. CASE DeleteSend(r)
  BY <1>6, GotoMoves DEF DeleteSend, Creating
<1>7. CASE DeleteResult(r)
  BY <1>7, GotoMoves DEF DeleteResult, Confirmed, Creating
<1>8. CASE DeleteRemove(r)
  BY <1>8, GotoMoves DEF DeleteRemove, Creating
<1>9. CASE DeleteTimeout(r)
  BY <1>9, GotoMoves DEF DeleteTimeout, Creating
<1> QED
  BY <1>1, <1>2, <1>3, <1>4, <1>5, <1>6, <1>7, <1>8, <1>9 DEF RequestStep

\* registry.Add finds the host connected and its name free: what the host came
\* with under that name is over.
LEMMA MemberMoves ==
  ASSUME TypeOK, EndedOrListed, NEW r \in Requests, NEW h \in Hosts, NEW n \in Names,
         CreateAdd(r, h, n) \/ DeleteRead(r, h, n)
  PROVE  RequestMoves
<1>1. req \in [Requests -> Request]
  BY DEF TypeOK, HubTypeOK
<1>2. \A q \in Requests \ {r} : req'[q] = req[q]
  BY <1>1 DEF CreateAdd, DeleteRead
<1>3. CASE CreateAdd(r, h, n)
  <2>1. /\ req'[r].host = h /\ req'[r].name = n /\ req'[r].result = "none"
        /\ req'[r].pc = "added"
    BY <1>1, <1>3 DEF CreateAdd, Idle
  <2>2. hubConn[h] # "none" /\ agents[h][n] = None
    BY <1>3 DEF CreateAdd, Connected, Taken
  <2>3. Gone(h, n)
    BY <2>2 DEF EndedOrListed, Gone, Ended
  <2> QED
    BY <1>2, <2>1, <2>3 DEF RequestMoves, Begins
<1>4. CASE DeleteRead(r, h, n)
  <2>1. /\ req'[r].host = h /\ req'[r].name = n /\ req'[r].result = "none"
        /\ req'[r].pc = "chosen"
    BY <1>1, <1>4 DEF DeleteRead, Idle
  <2> QED
    BY <1>2, <2>1 DEF RequestMoves, Begins, Creating
<1> QED
  BY <1>3, <1>4

\* A result that dropHost or ack fills in.
LEMMA ResultMoves ==
  ASSUME TypeOK, CreatesAreNew, ResultsEnd, NEW S \in SUBSET Requests, NEW res \in {"stopped", "dropped"},
         \A r \in S : /\ req[r].pc # "idle" /\ req[r].result = "none"
                      /\ res = "stopped" => Ended(req[r].host, req[r].name),
         \A r \in Requests : req'[r] = IF r \in S THEN [req[r] EXCEPT !.result = res] ELSE req[r]
  PROVE  RequestMoves
<1>1. ASSUME NEW r \in S
      PROVE  GoesOn(r)
  <2>1. req[r] \in Serving
    BY <1>1, ServingRequest DEF TypeOK
  <2>2. /\ req'[r].pc = req[r].pc /\ req'[r].host = req[r].host
        /\ req'[r].name = req[r].name /\ req'[r].result = res /\ req'[r].agent = req[r].agent
    BY <2>1 DEF Serving
  <2>3. req[r].pc # "confirmed"
    BY DEF ResultsEnd
  <2> QED
    BY <2>2, <2>3 DEF GoesOn, CreatesAreNew
<1> QED
  BY <1>1 DEF RequestMoves

LEMMA StepRequestMoves ==
  ASSUME TypeOK, OneHost, StopsHaveOneOwner, NamesAreKept, CreatesAreNew, EndedOrListed,
         ReportsEnd, ResultsEnd, [Next]_vars
  PROVE  RequestMoves
<1>1. ASSUME req' = req
      PROVE  RequestMoves
  BY <1>1 DEF RequestMoves
<1>2. ASSUME NEW h \in Hosts, DropHost(h)
      PROVE  RequestMoves
  <2> DEFINE S == {r \in Requests : StopOf(r, h) /\ req[r].result = "none"}
  <2>1. \A r \in S : req[r].pc # "idle" /\ req[r].result = "none"
    BY NullsAssumption DEF StopOf, StopsHaveOneOwner, Stopping
  <2>2. \A r \in Requests :
          req'[r] = IF r \in S THEN [req[r] EXCEPT !.result = "dropped"] ELSE req[r]
    BY <1>2 DEF DropHost
  <2> HIDE DEF S
  <2>3. S \in SUBSET Requests
    BY DEF S
  <2> QED
    BY <2>1, <2>2, <2>3, ResultMoves
<1>3. ASSUME NEW h \in Hosts, HubReport(h)
      PROVE  RequestMoves
  <2> DEFINE m == Head(reports[h])
             S == {r \in Requests : Acks(r, h, m) /\ req[r].result = "none"}
  <2>1. CASE req' = req
    BY <1>1, <2>1
  <2>2. CASE req' # req
    <3>1. /\ m.type = "stopped"
          /\ \A r \in Requests :
               req'[r] = IF r \in S THEN [req[r] EXCEPT !.result = "stopped"] ELSE req[r]
      BY <1>3, <2>2 DEF HubReport
    <3>2. reports[h] \in Seq(News) /\ reports[h] # <<>>
      BY <1>3 DEF HubReport, TypeOK, HostTypeOK
    <3>3. m \in News /\ m = reports[h][1] /\ 1 \in DOMAIN reports[h]
      BY <3>2
    <3>4. m.name \in Names /\ Ended(h, m.name)
      BY <3>1, <3>3 DEF News, ReportsEnd
    <3>5. \A r \in S : /\ req[r].pc # "idle" /\ req[r].result = "none"
                       /\ Ended(req[r].host, req[r].name)
      BY <3>4, NullsAssumption DEF Acks, StopsHaveOneOwner, Stopping
    <3> HIDE DEF S
    <3>6. S \in SUBSET Requests
      BY DEF S
    <3> QED
      BY <3>1, <3>5, <3>6, ResultMoves
  <2> QED
    BY <2>1, <2>2
<1>4. ASSUME NEW h \in Hosts,
             \/ Welcome(h) \/ HubClosed(h) \/ Join(h) \/ Leave(h)
             \/ Dial(h) \/ Refuse(h) \/ HostDown(h) \/ HostRestart(h) \/ HostWelcome(h)
             \/ HostSpawn(h) \/ HostStop(h)
             \/ \E n \in Names : HostStopped(h, n) \/ HostGivesUp(h, n)
             \/ \E w \in awaiting[h] : HostAck(h, w)
      PROVE  RequestMoves
  BY <1>1, <1>4 DEF Welcome, HubClosed, Join, Leave, Dial, Refuse, HostDown,
       HostRestart, HostWelcome, HostSpawn, HostStop, HostStopped, HostGivesUp, HostAck, hubVars
<1>5. CASE UNCHANGED vars
  BY <1>1, <1>5 DEF vars, hubVars
<1> QED
  BY <1>2, <1>3, <1>4, <1>5, RequestStepMoves, MemberMoves DEF Next

-----------------------------------------------------------------------------
(* What is on its way to a host. *)

\* What is sent is appended; a spawn that is sent has an agent created since.
LEMMA SendKeepsSpawns ==
  ASSUME TypeOK, SpawnsAreNew, NEW h \in Hosts, NEW c \in Command, Send(h, c),
         c.type = "spawn" => c.agent >= FirstCreated
  PROVE  SpawnsAreNew'
<1>1. \A g \in Hosts : commands[g] \in Seq(Command)
  BY DEF TypeOK, LinkTypeOK
<1>2. \A i \in DOMAIN Append(commands[h], c) :
        \/ i \in DOMAIN commands[h] /\ Append(commands[h], c)[i] = commands[h][i]
        \/ Append(commands[h], c)[i] = c
  BY <1>1
<1>3. \A g \in Hosts : commands'[g] \in {commands[g], Append(commands[h], c)}
  BY DEF Send, TypeOK, LinkTypeOK
<1> QED
  BY <1>2, <1>3 DEF SpawnsAreNew

\* Commands are obeyed in order, or lost with the connection.
LEMMA ObeyKeepsSpawns ==
  ASSUME TypeOK, SpawnsAreNew, NEW h \in Hosts,
         \/ commands' = [commands EXCEPT ![h] = <<>>]
         \/ commands[h] # <<>> /\ commands' = [commands EXCEPT ![h] = Tail(commands[h])]
  PROVE  SpawnsAreNew'
<1>1. commands \in [Hosts -> Seq(Command)]
  BY DEF TypeOK, LinkTypeOK
<1>2. CASE commands' = [commands EXCEPT ![h] = <<>>]
  <2>1. \A g \in Hosts : commands'[g] = IF g = h THEN <<>> ELSE commands[g]
    BY <1>1, <1>2
  <2> QED
    BY <2>1 DEF SpawnsAreNew
<1>3. CASE commands[h] # <<>> /\ commands' = [commands EXCEPT ![h] = Tail(commands[h])]
  <2>1. \A i \in DOMAIN Tail(commands[h]) :
          i + 1 \in DOMAIN commands[h] /\ Tail(commands[h])[i] = commands[h][i + 1]
    BY <1>1, <1>3
  <2>2. \A g \in Hosts : commands'[g] = IF g = h THEN Tail(commands[h]) ELSE commands[g]
    BY <1>1, <1>3
  <2> QED
    BY <2>1, <2>2 DEF SpawnsAreNew
<1> QED
  BY <1>2, <1>3

LEMMA SpawnsStep ==
  ASSUME TypeOK, CreatesAreNew, SpawnsAreNew, [Next]_vars
  PROVE  SpawnsAreNew'
<1>1. ASSUME commands' = commands
      PROVE  SpawnsAreNew'
  BY <1>1 DEF SpawnsAreNew
<1>2. ASSUME NEW r \in Requests, CreateSend(r)
      PROVE  SpawnsAreNew'
  <2>1. /\ req[r].host \in Hosts /\ req[r].name \in Names /\ req[r].agent \in Agents
        /\ req[r].agent >= FirstCreated
    BY <1>2, ServingRequest DEF CreateSend, TypeOK, CreatesAreNew
  <2> DEFINE c == [type |-> "spawn", name |-> req[r].name, agent |-> req[r].agent, id |-> 0]
  <2>2. c \in Command /\ c.agent >= FirstCreated
    BY <2>1, NullValues DEF Command
  <2>3. commands' = commands \/ Send(req[r].host, c)
    BY <1>2 DEF CreateSend
  <2> HIDE DEF c
  <2> QED
    BY <1>1, <2>1, <2>2, <2>3, SendKeepsSpawns
<1>3. ASSUME NEW r \in Requests, DeleteSend(r)
      PROVE  SpawnsAreNew'
  <2>1. req[r].host \in Hosts /\ req[r].name \in Names /\ req[r].id \in StopIds
    BY <1>3, ServingRequest DEF DeleteSend, TypeOK
  <2> DEFINE c == [type |-> "stop", name |-> req[r].name, agent |-> None, id |-> req[r].id]
  <2>2. c \in Command /\ c.type # "spawn"
    BY <2>1, NullValues DEF Command
  <2>3. commands' = commands \/ Send(req[r].host, c)
    BY <1>3 DEF DeleteSend
  <2> HIDE DEF c
  <2> QED
    BY <1>1, <2>1, <2>2, <2>3, SendKeepsSpawns
<1>4. ASSUME NEW h \in Hosts, Welcome(h)
      PROVE  SpawnsAreNew'
  <2>1. Greeting \in Command /\ Greeting.type # "spawn"
    BY DEF Command, Greeting
  <2> QED
    BY <1>4, <2>1, SendKeepsSpawns DEF Welcome
<1>5. ASSUME NEW h \in Hosts,
             \/ Join(h) \/ HostDown(h) \/ HostRestart(h) \/ HostWelcome(h)
             \/ HostSpawn(h) \/ HostStop(h)
      PROVE  SpawnsAreNew'
  BY <1>5, ObeyKeepsSpawns DEF Join, HostDown, HostRestart, HostWelcome, HangUp, HostSpawn,
     HostStop, Obeying
<1>6. ASSUME NEW h \in Hosts,
             \/ HubClosed(h) \/ DropHost(h) \/ Leave(h) \/ HubReport(h) \/ Dial(h) \/ Refuse(h)
             \/ \E n \in Names : HostStopped(h, n) \/ HostGivesUp(h, n)
             \/ \E w \in awaiting[h] : HostAck(h, w)
      PROVE  SpawnsAreNew'
  BY <1>1, <1>6 DEF HubClosed, DropHost, Leave, HubReport, Dial, Refuse, HostStopped,
     HostGivesUp, HostAck
<1>7. ASSUME NEW r \in Requests, RequestStep(r) \/ DeleteTimeout(r), ~CreateSend(r), ~DeleteSend(r)
      PROVE  SpawnsAreNew'
  BY <1>1, <1>7 DEF RequestStep, CreateRead, CreateUndo, DeleteBegin, DeleteSender,
     DeleteResult, DeleteRemove, DeleteFinish, DeleteTimeout
<1>8. ASSUME NEW r \in Requests, NEW h \in Hosts, NEW n \in Names,
             CreateAdd(r, h, n) \/ DeleteRead(r, h, n)
      PROVE  SpawnsAreNew'
  BY <1>1, <1>8 DEF CreateAdd, DeleteRead
<1>9. CASE UNCHANGED vars
  BY <1>1, <1>9 DEF vars
<1> QED
  BY <1>2, <1>3, <1>4, <1>5, <1>6, <1>7, <1>8, <1>9 DEF Next

-----------------------------------------------------------------------------
(* The hello, and the list it becomes. *)

\* Only a host that has dialed and is not served yet has a hello.
LEMMA HelloOnlyWhenGreeting ==
  ASSUME HellosAreFresh, NEW h \in Hosts, NEW n \in Names, ~Greets(h)
  PROVE  hello[h][n] = None
  BY DEF HellosAreFresh

LEMMA HellosStep ==
  ASSUME TypeOK, NamesAreKept, AllMove, HellosAreFresh, [Next]_vars
  PROVE  HellosAreFresh'
<1>0. /\ hello \in [Hosts -> [Names -> Agents]] /\ hostConn \in [Hosts -> {"down", "dialed", "up"}]
      /\ session \in [Hosts -> Nat] /\ dial \in [Hosts -> Nat]
  BY DEF TypeOK, LinkTypeOK
<1> DEFINE Fresh(h) == /\ session[h] <= dial[h]
                       /\ \A n \in Names : IF Greets(h)
                                           THEN hello[h][n] # Restored[h][n] => Ended(h, n)
                                           ELSE hello[h][n] = None
<1>1. ASSUME NEW h \in Hosts, hello'[h] = hello[h], hostConn'[h] = hostConn[h],
             session'[h] = session[h], dial'[h] = dial[h]
      PROVE  Fresh(h)'
  BY <1>1, AllOverForGood DEF HellosAreFresh, Greets
<1>2. ASSUME hello' = hello, hostConn' = hostConn, session' = session, dial' = dial
      PROVE  HellosAreFresh'
  BY <1>1, <1>2 DEF HellosAreFresh
<1>3. ASSUME NEW h \in Hosts, Fresh(h)',
             \A g \in Hosts \ {h} : /\ hello'[g] = hello[g] /\ hostConn'[g] = hostConn[g]
                                    /\ session'[g] = session[g] /\ dial'[g] = dial[g]
      PROVE  HellosAreFresh'
  BY <1>1, <1>3 DEF HellosAreFresh
<1>4. ASSUME NEW h \in Hosts, HangUp(h), session' = session, dial' = dial
      PROVE  HellosAreFresh'
  <2>1. /\ hostConn'[h] = "down" /\ hello'[h] = NothingRuns
        /\ \A g \in Hosts \ {h} : hello'[g] = hello[g] /\ hostConn'[g] = hostConn[g]
    BY <1>0, <1>4 DEF HangUp
  <2>2. session[h] <= dial[h]
    BY DEF HellosAreFresh
  <2>3. Fresh(h)'
    BY <1>4, <2>1, <2>2 DEF Greets, NothingRuns
  <2> QED
    BY <1>3, <1>4, <2>1, <2>3
<1>5. ASSUME NEW h \in Hosts, Dial(h)
      PROVE  HellosAreFresh'
  <2>1. /\ dial'[h] = dial[h] + 1 /\ hello'[h] = running[h] /\ session' = session
        /\ hostConn'[h] = "dialed" /\ running' = running
        /\ \A g \in Hosts \ {h} : /\ hello'[g] = hello[g] /\ hostConn'[g] = hostConn[g]
                                  /\ dial'[g] = dial[g]
    BY <1>0, <1>5 DEF Dial, hostVars
  <2>2. session[h] <= dial[h] /\ session[h] \in Nat /\ dial[h] \in Nat
    BY <1>0 DEF HellosAreFresh
  <2>3. session'[h] <= dial'[h] /\ dial'[h] # session'[h]
    BY <2>1, <2>2
  <2>4. Fresh(h)'
    BY <2>1, <2>3 DEF Greets, Ended
  <2> QED
    BY <1>3, <2>1, <2>4
<1>6. ASSUME NEW h \in Hosts, Join(h)
      PROVE  HellosAreFresh'
  <2>1. /\ session'[h] = dial[h] /\ dial' = dial /\ hello'[h] = NothingRuns
        /\ hostConn' = hostConn
        /\ \A g \in Hosts \ {h} : hello'[g] = hello[g] /\ session'[g] = session[g]
    BY <1>0, <1>6 DEF Join
  <2>2. Fresh(h)'
    BY <1>0, <2>1 DEF Greets, NothingRuns
  <2> QED
    BY <1>3, <2>1, <2>2
<1>7. ASSUME NEW h \in Hosts, Refuse(h)
      PROVE  HellosAreFresh'
  <2>1. /\ session' = session /\ dial' = dial /\ hello'[h] = NothingRuns
        /\ hostConn'[h] = "down"
        /\ \A g \in Hosts \ {h} : hello'[g] = hello[g] /\ hostConn'[g] = hostConn[g]
    BY <1>0, <1>7 DEF Refuse
  <2>2. session[h] <= dial[h]
    BY DEF HellosAreFresh
  <2>3. Fresh(h)'
    BY <2>1, <2>2 DEF Greets, NothingRuns
  <2> QED
    BY <1>3, <2>1, <2>3
<1>8. ASSUME NEW h \in Hosts, HostDown(h) \/ HostRestart(h)
      PROVE  HellosAreFresh'
  BY <1>4, <1>8 DEF HostDown, HostRestart
<1>9. ASSUME NEW h \in Hosts, HostWelcome(h)
      PROVE  HellosAreFresh'
  <2>1. session' = session /\ dial' = dial /\ dial[h] = session[h]
    BY <1>9 DEF HostWelcome
  <2>2. CASE HangUp(h)
    BY <1>4, <2>1, <2>2
  <2>3. CASE hostConn' = [hostConn EXCEPT ![h] = "up"] /\ hello' = hello
    <3>1. /\ hostConn'[h] = "up" /\ hello'[h] = hello[h]
          /\ \A g \in Hosts \ {h} : hostConn'[g] = hostConn[g]
      BY <1>0, <2>3
    <3>2. \A n \in Names : hello[h][n] = None
      BY <2>1, HelloOnlyWhenGreeting DEF Greets
    <3>3. session[h] <= dial[h]
      BY DEF HellosAreFresh
    <3>4. Fresh(h)'
      BY <2>1, <3>1, <3>2, <3>3 DEF Greets
    <3> QED
      BY <1>3, <2>1, <2>3, <3>1, <3>4
  <2> QED
    BY <1>9, <2>2, <2>3 DEF HostWelcome
<1>10. ASSUME NEW h \in Hosts,
             \/ Welcome(h) \/ HubClosed(h) \/ DropHost(h) \/ Leave(h) \/ HubReport(h)
             \/ HostSpawn(h) \/ HostStop(h)
             \/ \E n \in Names : HostStopped(h, n) \/ HostGivesUp(h, n)
             \/ \E w \in awaiting[h] : HostAck(h, w)
       PROVE  HellosAreFresh'
  BY <1>2, <1>10 DEF Welcome, HubClosed, DropHost, Leave, HubReport, HostSpawn, HostStop,
     HostStopped, HostGivesUp, HostAck, linkVars
<1>11. ASSUME NEW r \in Requests, RequestStep(r) \/ DeleteTimeout(r)
       PROVE  HellosAreFresh'
  BY <1>2, <1>11 DEF RequestStep, CreateRead, CreateSend, CreateUndo, DeleteBegin, DeleteSender,
       DeleteSend, DeleteResult, DeleteRemove, DeleteFinish, DeleteTimeout, linkVars
<1>12. ASSUME NEW r \in Requests, NEW h \in Hosts, NEW n \in Names,
              CreateAdd(r, h, n) \/ DeleteRead(r, h, n)
       PROVE  HellosAreFresh'
  BY <1>2, <1>12 DEF CreateAdd, DeleteRead, linkVars
<1>13. CASE UNCHANGED vars
  BY <1>2, <1>13 DEF vars, linkVars
<1> QED
  BY <1>5, <1>6, <1>7, <1>8, <1>9, <1>10, <1>11, <1>12, <1>13 DEF Next

\* An agent leaves the list when its host does, or when it is over.
LEMMA ListedStep ==
  ASSUME TypeOK, OneHost, NamesAreKept, AllMove, CreatesAreNew, HellosAreFresh, EndedOrListed,
         ResultsEnd, [Next]_vars
  PROVE  EndedOrListed'
<1>0. agents \in [Hosts -> [Names -> Agents]] /\ hubConn \in [Hosts -> {"none", "joined", "closed", "dropped"}]
  BY DEF TypeOK, HubTypeOK, LinkTypeOK
<1>1. ASSUME \A h \in Hosts, n \in Names :
                \/ Ended(h, n)
                \/ agents'[h][n] = agents[h][n] /\ (hubConn'[h] # "none" => hubConn[h] # "none")
                \/ hubConn'[h] = "none"
      PROVE  EndedOrListed'
  BY <1>1, AllOverForGood DEF EndedOrListed
<1>2. ASSUME NEW h \in Hosts, NEW n \in Names, Ended(h, n), hubConn' = hubConn,
             \A g \in Hosts, m \in Names : agents'[g][m] = agents[g][m] \/ (g = h /\ m = n)
      PROVE  EndedOrListed'
  BY <1>1, <1>2
<1>3. ASSUME agents' = agents, hubConn' = hubConn
      PROVE  EndedOrListed'
  BY <1>1, <1>3
<1>4. ASSUME NEW r \in Requests, NEW h \in Hosts, NEW n \in Names, CreateAdd(r, h, n)
      PROVE  EndedOrListed'
  <2>1. /\ hubConn' = hubConn
        /\ \A g \in Hosts, m \in Names : agents'[g][m] = agents[g][m] \/ (g = h /\ m = n)
    BY <1>0, <1>4 DEF CreateAdd, linkVars
  <2>2. hubConn[h] # "none" /\ agents[h][n] = None
    BY <1>4 DEF CreateAdd, Connected, Taken
  <2>3. Ended(h, n)
    BY <2>2 DEF EndedOrListed, Ended
  <2> QED
    BY <1>2, <2>1, <2>3
<1>5. ASSUME NEW r \in Requests, CreateUndo(r) \/ DeleteRemove(r)
      PROVE  EndedOrListed'
  <2>1. hubConn' = hubConn
    BY <1>5 DEF CreateUndo, DeleteRemove, linkVars
  <2>2. req[r].host \in Hosts /\ req[r].name \in Names
    BY <1>5, ServingRequest DEF CreateUndo, DeleteRemove, TypeOK
  <2>3. Ended(req[r].host, req[r].name)
    BY <1>5 DEF CreateUndo, DeleteRemove, CreatesAreNew, Creating, ResultsEnd, Gone
  <2>4. \/ agents' = agents
        \/ \E h \in Hosts : Unlist(h, req[r].name)
    BY <1>5, <2>2 DEF CreateUndo, DeleteRemove
  <2>5. \A g \in Hosts, m \in Names :
          agents'[g][m] = agents[g][m] \/ (g = req[r].host /\ m = req[r].name)
    BY <1>0, <2>2, <2>4 DEF Unlist, OneHost
  <2> QED
    BY <1>2, <2>1, <2>2, <2>3, <2>5
<1>6. ASSUME NEW h \in Hosts, Join(h)
      PROVE  EndedOrListed'
  <2>1. \A g \in Hosts : g = h
    BY DEF OneHost
  <2>2. Greets(h)
    BY <1>6 DEF Join, Greets
  <2>3. \A n \in Names : ~TakenElsewhere(h, n)
    BY <2>1 DEF TakenElsewhere
  <2>4. \A n \in Names : agents'[h][n] = hello[h][n]
    BY <1>0, <1>6, <2>3 DEF Join
  <2>5. \A n \in Names : hello[h][n] # Restored[h][n] => Ended(h, n)
    BY <2>2 DEF HellosAreFresh
  <2> QED
    BY <2>1, <2>4, <2>5, AllOverForGood DEF EndedOrListed
<1>7. ASSUME NEW h \in Hosts, HubClosed(h) \/ DropHost(h) \/ Leave(h)
      PROVE  EndedOrListed'
  <2>1. \A g \in Hosts \ {h} : hubConn'[g] = hubConn[g] /\ agents'[g] = agents[g]
    BY <1>0, <1>7 DEF HubClosed, DropHost, Leave, hubVars, regVars
  <2>2. \/ hubConn'[h] = "none"
        \/ hubConn[h] # "none" /\ agents' = agents
    BY <1>0, <1>7 DEF HubClosed, DropHost, Leave, hubVars, regVars
  <2> QED
    BY <1>1, <2>1, <2>2
<1>8. ASSUME NEW h \in Hosts,
             \/ Welcome(h) \/ HubReport(h) \/ Dial(h) \/ Refuse(h)
             \/ HostDown(h) \/ HostRestart(h) \/ HostWelcome(h) \/ HostSpawn(h) \/ HostStop(h)
             \/ \E n \in Names : HostStopped(h, n) \/ HostGivesUp(h, n)
             \/ \E w \in awaiting[h] : HostAck(h, w)
       PROVE  EndedOrListed'
  BY <1>3, <1>8 DEF Welcome, HubReport, Dial, Refuse, HostDown, HostRestart, HostWelcome,
     HostSpawn, HostStop, HostStopped, HostGivesUp, HostAck, hubVars, regVars, linkVars
<1>9. ASSUME NEW r \in Requests, RequestStep(r) \/ DeleteTimeout(r), ~CreateUndo(r), ~DeleteRemove(r)
      PROVE  EndedOrListed'
  BY <1>3, <1>9 DEF RequestStep, CreateRead, CreateSend, DeleteBegin, DeleteSender,
       DeleteSend, DeleteResult, DeleteFinish, DeleteTimeout, linkVars, regVars
<1>10. ASSUME NEW r \in Requests, NEW h \in Hosts, NEW n \in Names, DeleteRead(r, h, n)
       PROVE  EndedOrListed'
  BY <1>3, <1>10 DEF DeleteRead, regVars, linkVars
<1>11. CASE UNCHANGED vars
  BY <1>3, <1>11 DEF vars, hubVars, regVars, linkVars
<1> QED
  BY <1>4, <1>5, <1>6, <1>7, <1>8, <1>9, <1>10, <1>11 DEF Next

-----------------------------------------------------------------------------
(* Stops that are waited for and reported. *)

LEMMA WaitsStep ==
  ASSUME TypeOK, NamesAreKept, AllMove, HellosAreFresh, WaitsEnd, [Next]_vars
  PROVE  WaitsEnd'
<1>0. /\ awaiting \in [Hosts -> SUBSET Wait] /\ hostConn \in [Hosts -> {"down", "dialed", "up"}]
      /\ \A h \in Hosts, w \in Wait : w.name \in Names
  BY DEF TypeOK, LinkTypeOK, HostTypeOK, Wait
<1>1. ASSUME \A h \in Hosts : /\ awaiting'[h] \subseteq awaiting[h]
                              /\ hostConn'[h] # hostConn[h] => awaiting'[h] = {}
      PROVE  WaitsEnd'
  <2>1. ASSUME NEW h \in Hosts, NEW w \in awaiting'[h]
        PROVE  hostConn'[h] = "up" /\ (w.agent # Restored[h][w.name] => Ended(h, w.name)')
    <3>1. w \in awaiting[h] /\ w.name \in Names /\ hostConn'[h] = hostConn[h]
      BY <1>0, <1>1, <2>1
    <3> QED
      BY <3>1, AllOverForGood DEF WaitsEnd
  <2> QED
    BY <2>1 DEF WaitsEnd, Ended
<1>2. ASSUME awaiting' = awaiting, hostConn' = hostConn
      PROVE  WaitsEnd'
  BY <1>1, <1>2
<1>3. ASSUME NEW h \in Hosts, HostStop(h)
      PROVE  WaitsEnd'
  <2>1. commands[h] \in Seq(Command) /\ commands[h] # <<>> /\ Head(commands[h]).type = "stop"
    BY <1>3 DEF HostStop, Obeying, TypeOK, LinkTypeOK
  <2>2. Head(commands[h]) \in Command
    BY <2>1
  <2> DEFINE c == Head(commands[h])
             w == [name |-> c.name, id |-> c.id, agent |-> running[h][c.name]]
  <2>3. c.name \in Names /\ hostConn[h] = "up"
    BY <1>3, <2>1, <2>2 DEF Command, Greeting, HostStop, Obeying
  <2>4. /\ awaiting' = [awaiting EXCEPT ![h] = awaiting[h] \cup {w}]
        /\ hostConn' = hostConn
    BY <1>3 DEF HostStop, linkVars
  <2>5. ~Greets(h)
    BY <2>3 DEF Greets
  <2>6. w.name \in Names /\ (w.agent # Restored[h][w.name] => Ended(h, w.name))
    BY <2>3, <2>5, HelloOnlyWhenGreeting DEF Ended
  <2> HIDE DEF w
  <2>7. ASSUME NEW g \in Hosts, NEW v \in awaiting'[g]
        PROVE  hostConn'[g] = "up" /\ (v.agent # Restored[g][v.name] => Ended(g, v.name)')
    <3>1. CASE v \in awaiting[g]
      <4>1. v.name \in Names
        BY <1>0, <3>1
      <4> QED
        BY <2>4, <3>1, <4>1, AllOverForGood DEF WaitsEnd
    <3>2. CASE v = w /\ g = h
      BY <2>3, <2>4, <2>6, <3>2, AllOverForGood
    <3> QED
      BY <1>0, <2>4, <2>7, <3>1, <3>2
  <2> QED
    BY <2>7 DEF WaitsEnd, Ended
<1>4. ASSUME NEW h \in Hosts, HostDown(h) \/ HostRestart(h)
      PROVE  WaitsEnd'
  BY <1>0, <1>1, <1>4 DEF HostDown, HostRestart, HangUp
<1>5. ASSUME NEW h \in Hosts, HostWelcome(h) \/ Dial(h) \/ Refuse(h)
      PROVE  WaitsEnd'
  <2>1. awaiting[h] = {}
    BY <1>5 DEF HostWelcome, Dial, Refuse, WaitsEnd
  <2>2. \A g \in Hosts : awaiting'[g] \subseteq awaiting[g]
    BY <1>0, <1>5 DEF HostWelcome, Dial, Refuse, HangUp, hostVars
  <2>3. \A g \in Hosts \ {h} : hostConn'[g] = hostConn[g]
    BY <1>0, <1>5 DEF HostWelcome, Dial, Refuse, HangUp
  <2> QED
    BY <1>1, <2>1, <2>2, <2>3
<1>6. ASSUME NEW h \in Hosts, NEW w \in awaiting[h], HostAck(h, w)
      PROVE  WaitsEnd'
  BY <1>0, <1>1, <1>6 DEF HostAck, linkVars
<1>7. ASSUME NEW h \in Hosts,
             \/ Join(h) \/ Welcome(h) \/ HubClosed(h) \/ DropHost(h) \/ Leave(h) \/ HubReport(h)
             \/ HostSpawn(h) \/ \E n \in Names : HostStopped(h, n) \/ HostGivesUp(h, n)
      PROVE  WaitsEnd'
  BY <1>2, <1>7 DEF Join, Welcome, HubClosed, DropHost, Leave, HubReport, HostSpawn,
     HostStopped, HostGivesUp, linkVars, hostVars
<1>8. ASSUME NEW r \in Requests, RequestStep(r) \/ DeleteTimeout(r)
      PROVE  WaitsEnd'
  BY <1>2, <1>8 DEF RequestStep, CreateRead, CreateSend, CreateUndo, DeleteBegin, DeleteSender,
       DeleteSend, DeleteResult, DeleteRemove, DeleteFinish, DeleteTimeout, linkVars, hostVars
<1>9. ASSUME NEW r \in Requests, NEW h \in Hosts, NEW n \in Names,
             CreateAdd(r, h, n) \/ DeleteRead(r, h, n)
      PROVE  WaitsEnd'
  BY <1>2, <1>9 DEF CreateAdd, DeleteRead, linkVars, hostVars
<1>10. CASE UNCHANGED vars
  BY <1>2, <1>10 DEF vars, linkVars, hostVars
<1> QED
  BY <1>3, <1>4, <1>5, <1>6, <1>7, <1>8, <1>9, <1>10 DEF Next

\* A report whose place in the channel holds what another place held, or that is
\* no acknowledgement, or whose agent is over.
LEMMA ReportsMove ==
  ASSUME TypeOK, NamesAreKept, AllMove, ReportsEnd, NEW h \in Hosts,
         \A g \in Hosts \ {h} : reports'[g] = reports[g],
         \A i \in DOMAIN reports'[h] :
           \/ \E j \in DOMAIN reports[h] : reports'[h][i] = reports[h][j]
           \/ reports'[h][i].type # "stopped"
           \/ reports'[h][i].name \in Names /\ Ended(h, reports'[h][i].name)
  PROVE  ReportsEnd'
<1>1. \A g \in Hosts : reports[g] \in Seq(News)
  BY DEF TypeOK, HostTypeOK
<1>2. \A g \in Hosts : \A j \in DOMAIN reports[g] : reports[g][j].name \in Names
  <2>1. \A g \in Hosts : \A j \in DOMAIN reports[g] : reports[g][j] \in News
    BY <1>1
  <2> QED
    BY <2>1 DEF News
<1>3. ASSUME NEW g \in Hosts, NEW i \in DOMAIN reports'[g], reports'[g][i].type = "stopped"
      PROVE  \E n \in Names : n = reports'[g][i].name /\ Ended(g, n)'
  <2>1. reports'[g][i].name \in Names /\ Ended(g, reports'[g][i].name)
    BY <1>2, <1>3 DEF ReportsEnd
  <2> QED
    BY <2>1, AllOverForGood
<1> QED
  BY <1>3 DEF ReportsEnd, Ended

LEMMA ReportsStep ==
  ASSUME TypeOK, NamesAreKept, AllMove, HellosAreFresh, WaitsEnd, ReportsEnd, [Next]_vars
  PROVE  ReportsEnd'
<1>0. reports \in [Hosts -> Seq(News)] /\ \A h \in Hosts : reports[h] \in Seq(News)
  BY DEF TypeOK, HostTypeOK
<1>1. ASSUME reports' = reports
      PROVE  ReportsEnd'
  <2>1. CASE Hosts = {}
    BY <2>1 DEF ReportsEnd
  <2>2. CASE Hosts # {}
    BY <1>1, <2>2, ReportsMove
  <2> QED
    BY <2>1, <2>2
<1>2. ASSUME NEW h \in Hosts, NEW m, reports' = [reports EXCEPT ![h] = Append(reports[h], m)],
             m.type # "stopped" \/ (m.name \in Names /\ Ended(h, m.name))
      PROVE  ReportsEnd'
  <2>1. \A i \in DOMAIN Append(reports[h], m) :
          \/ i \in DOMAIN reports[h] /\ Append(reports[h], m)[i] = reports[h][i]
          \/ Append(reports[h], m)[i] = m
    BY <1>0
  <2>2. \A g \in Hosts : reports'[g] = IF g = h THEN Append(reports[h], m) ELSE reports[g]
    BY <1>0, <1>2
  <2> QED
    BY <1>2, <2>1, <2>2, ReportsMove
<1>3. ASSUME NEW h \in Hosts, NEW lost \in 0..Len(reports[h]),
             reports' = [reports EXCEPT ![h] = SubSeq(reports[h], lost + 1, Len(reports[h]))]
      PROVE  ReportsEnd'
  <2>1. \A i \in DOMAIN SubSeq(reports[h], lost + 1, Len(reports[h])) :
          /\ i + lost \in DOMAIN reports[h]
          /\ SubSeq(reports[h], lost + 1, Len(reports[h]))[i] = reports[h][i + lost]
    BY <1>0
  <2>2. \A g \in Hosts : reports'[g] = IF g = h
                                       THEN SubSeq(reports[h], lost + 1, Len(reports[h]))
                                       ELSE reports[g]
    BY <1>0, <1>3
  <2>3. \A i \in DOMAIN reports'[h] : \E j \in DOMAIN reports[h] : reports'[h][i] = reports[h][j]
    BY <2>1, <2>2
  <2>4. \A g \in Hosts \ {h} : reports'[g] = reports[g]
    BY <2>2
  <2> QED
    BY <2>3, <2>4, ReportsMove
<1>4. ASSUME NEW h \in Hosts, HubReport(h)
      PROVE  ReportsEnd'
  <2>1. Tail(reports[h]) = SubSeq(reports[h], 1 + 1, Len(reports[h])) /\ 1 \in 0..Len(reports[h])
    BY <1>0, <1>4 DEF HubReport
  <2> QED
    BY <1>3, <1>4, <2>1 DEF HubReport
<1>5. ASSUME NEW h \in Hosts, HostDown(h)
      PROVE  ReportsEnd'
  BY <1>3, <1>5 DEF HostDown
<1>6. ASSUME NEW h \in Hosts, HostRestart(h)
      PROVE  ReportsEnd'
  <2>1. \A g \in Hosts : reports'[g] = IF g = h THEN <<>> ELSE reports[g]
    BY <1>0, <1>6 DEF HostRestart
  <2> QED
    BY <2>1, ReportsMove
<1>7. ASSUME NEW h \in Hosts, NEW n \in Names, NEW t \in {"running", "failed"}, Report(h, t, n)
      PROVE  ReportsEnd'
  <2> DEFINE m == [type |-> t, name |-> n, id |-> 0]
  <2>1. m.type # "stopped"
    OBVIOUS
  <2>2. reports' = reports \/ reports' = [reports EXCEPT ![h] = Append(reports[h], m)]
    BY <1>7 DEF Report
  <2> HIDE DEF m
  <2> QED
    BY <1>1, <1>2, <2>1, <2>2
<1>8. ASSUME NEW h \in Hosts, HostSpawn(h)
      PROVE  ReportsEnd'
  <2>1. commands[h] \in Seq(Command) /\ commands[h] # <<>> /\ Head(commands[h]).type = "spawn"
    BY <1>8 DEF HostSpawn, Obeying, TypeOK, LinkTypeOK
  <2>2. Head(commands[h]) \in Command
    BY <2>1
  <2>3. Head(commands[h]).name \in Names
    BY <2>1, <2>2 DEF Command, Greeting
  <2> QED
    BY <1>7, <1>8, <2>3 DEF HostSpawn
<1>9. ASSUME NEW h \in Hosts, NEW n \in Names, HostGivesUp(h, n)
      PROVE  ReportsEnd'
  BY <1>7, <1>9 DEF HostGivesUp
<1>10. ASSUME NEW h \in Hosts, NEW w \in awaiting[h], HostAck(h, w)
       PROVE  ReportsEnd'
  <2> DEFINE m == [type |-> "stopped", name |-> w.name, id |-> w.id]
  <2>1. reports' = [reports EXCEPT ![h] = Append(reports[h], m)] /\ m.name = w.name
    BY <1>10 DEF HostAck
  <2>2. w.name \in Names /\ hostConn[h] = "up"
    BY DEF WaitsEnd, TypeOK, HostTypeOK, Wait
  <2>3. hello[h][w.name] = None
    BY <2>2, HelloOnlyWhenGreeting DEF Greets
  <2>4. Ended(h, w.name)
    BY <1>10, <2>3 DEF HostAck, WaitsEnd, Ended
  <2> HIDE DEF m
  <2> QED
    BY <1>2, <2>1, <2>2, <2>4
<1>11. ASSUME NEW h \in Hosts,
              \/ Dial(h) \/ Join(h) \/ Refuse(h) \/ Welcome(h) \/ HubClosed(h) \/ DropHost(h)
              \/ Leave(h) \/ HostWelcome(h) \/ HostStop(h) \/ \E n \in Names : HostStopped(h, n)
       PROVE  ReportsEnd'
  BY <1>1, <1>11 DEF Dial, Join, Refuse, Welcome, HubClosed, DropHost, Leave, HostWelcome,
       HostStop, HostStopped
<1>12. ASSUME NEW r \in Requests, RequestStep(r) \/ DeleteTimeout(r)
       PROVE  ReportsEnd'
  BY <1>1, <1>12 DEF RequestStep, CreateRead, CreateSend, CreateUndo, DeleteBegin, DeleteSender,
       DeleteSend, DeleteResult, DeleteRemove, DeleteFinish, DeleteTimeout
<1>13. ASSUME NEW r \in Requests, NEW h \in Hosts, NEW n \in Names,
              CreateAdd(r, h, n) \/ DeleteRead(r, h, n)
       PROVE  ReportsEnd'
  BY <1>1, <1>13 DEF CreateAdd, DeleteRead
<1>14. CASE UNCHANGED vars
  BY <1>1, <1>14 DEF vars
<1> QED
  BY <1>4, <1>5, <1>6, <1>8, <1>9, <1>10, <1>11, <1>12, <1>13, <1>14 DEF Next

-----------------------------------------------------------------------------
(* What members were told is gone. *)

LEMMA DeletedStep ==
  ASSUME TypeOK, NamesAreKept, AllMove, ResultsEnd, DeletedAreGone, [Next]_vars
  PROVE  DeletedAreGone'
<1>1. ASSUME \A a \in deleted' \ deleted :
               /\ a # None
               /\ a < FirstCreated => \E h \in Hosts, n \in Names :
                                        a = Restored[h][n] /\ Gone(h, n)'
      PROVE  DeletedAreGone'
  BY <1>1, AllOverForGood DEF DeletedAreGone
<1>2. ASSUME deleted' = deleted
      PROVE  DeletedAreGone'
  BY <1>1, <1>2
<1>3. ASSUME NEW r \in Requests, DeleteRemove(r)
      PROVE  DeletedAreGone'
  <2>1. CASE SameAgent(r)
    <3>1. PICK h \in Hosts, n \in Names : h = req[r].host /\ n = req[r].name
      BY <1>3, ServingRequest DEF DeleteRemove, TypeOK
    <3>2. /\ agents' = [agents EXCEPT ![h][n] = None]
          /\ deleted' = deleted \cup {agents[h][n]}
          /\ agents[h][n] # None
      BY <1>3, <2>1, <3>1 DEF DeleteRemove, Unlist, SameAgent, Listed
    <3>3. Ended(h, n)
      BY <1>3, <3>1 DEF DeleteRemove, ResultsEnd
    <3>4. agents[h][n] < FirstCreated => agents[h][n] = Restored[h][n]
      BY <3>2 DEF NamesAreKept, Known
    <3>5. agents'[h][n] = None
      BY <3>2 DEF TypeOK, HubTypeOK
    <3>6. Gone(h, n)'
      BY <3>3, <3>5, AllOverForGood DEF Gone
    <3> QED
      BY <1>1, <3>2, <3>4, <3>6
  <2>2. CASE ~SameAgent(r)
    BY <1>2, <1>3, <2>2 DEF DeleteRemove
  <2> QED
    BY <2>1, <2>2
<1>4. CASE ~\E r \in Requests : DeleteRemove(r)
  <2>1. deleted' = deleted
    <3>1. ASSUME NEW r \in Requests, RequestStep(r) \/ DeleteTimeout(r)
          PROVE  deleted' = deleted
      BY <1>4, <3>1 DEF RequestStep, CreateRead, CreateSend, CreateUndo, DeleteBegin,
         DeleteSender, DeleteSend, DeleteResult, DeleteFinish, DeleteTimeout
    <3>2. ASSUME NEW r \in Requests, NEW h \in Hosts, NEW n \in Names,
                 CreateAdd(r, h, n) \/ DeleteRead(r, h, n)
          PROVE  deleted' = deleted
      BY <3>2 DEF CreateAdd, DeleteRead
    <3>3. ASSUME NEW h \in Hosts,
                 \/ Dial(h) \/ Join(h) \/ Refuse(h) \/ Welcome(h)
                 \/ HubClosed(h) \/ DropHost(h) \/ Leave(h) \/ HubReport(h)
                 \/ HostDown(h) \/ HostRestart(h) \/ HostWelcome(h) \/ HostSpawn(h) \/ HostStop(h)
                 \/ \E n \in Names : HostStopped(h, n) \/ HostGivesUp(h, n)
                 \/ \E w \in awaiting[h] : HostAck(h, w)
          PROVE  deleted' = deleted
      BY <3>3 DEF Dial, Join, Refuse, Welcome, HubClosed, DropHost, Leave, HubReport, HostDown,
         HostRestart, HostWelcome, HostSpawn, HostStop, HostStopped, HostGivesUp, HostAck
    <3>4. CASE UNCHANGED vars
      BY <3>4 DEF vars
    <3> QED
      BY <3>1, <3>2, <3>3, <3>4 DEF Next
  <2> QED
    BY <1>2, <2>1
<1> QED
  BY <1>3, <1>4

-----------------------------------------------------------------------------
LEMMA InitIInv ==
  ASSUME Init
  PROVE  IInv
<1>1. TypeOK /\ FirstCreated \in Nat
  BY InitTypeOK, BoundsAssumption
<1>2. /\ clock = FirstCreated /\ running = Restored
      /\ \A h \in Hosts, n \in Names : agents[h][n] = None /\ hello[h][n] = None
      /\ \A r \in Requests : req[r] = Idle
      /\ \A h \in Hosts : /\ commands[h] = <<>> /\ reports[h] = <<>> /\ awaiting[h] = {}
                          /\ hubConn[h] = "none" /\ hostConn[h] = "down"
                          /\ session[h] = 0 /\ dial[h] = 0
      /\ deleted = {}
  BY DEF Init, NothingRuns
<1>3. NamesAreKept
  BY <1>1, <1>2 DEF NamesAreKept, Known
<1>4. CreatesAreNew /\ ResultsEnd
  BY <1>2 DEF CreatesAreNew, ResultsEnd, Idle, Creating
<1>5. SpawnsAreNew /\ ReportsEnd /\ WaitsEnd /\ EndedOrListed /\ DeletedAreGone
  BY <1>2 DEF SpawnsAreNew, ReportsEnd, WaitsEnd, EndedOrListed, DeletedAreGone
<1>6. HellosAreFresh
  <2>1. ASSUME NEW h \in Hosts
        PROVE  ~Greets(h) /\ session[h] <= dial[h]
    <3>1. session[h] = 0 /\ dial[h] = 0 /\ hostConn[h] = "down"
      BY <1>2
    <3>2. session[h] <= dial[h]
      BY <3>1
    <3> QED
      BY <3>1, <3>2 DEF Greets
  <2> QED
    BY <1>2, <2>1 DEF HellosAreFresh
<1> QED
  BY <1>3, <1>4, <1>5, <1>6 DEF IInv

LEMMA IInvStep ==
  ASSUME TypeOK, OneHost, StopsHaveOneOwner, IInv, [Next]_vars
  PROVE  IInv'
<1> USE DEF IInv
<1>1. AllMove
  BY StepMoves
<1>2. RequestMoves
  BY StepRequestMoves
<1>3. NamesAreKept' /\ CreatesAreNew' /\ ResultsEnd'
  BY <1>1, <1>2, NamesStep, RequestsStep
<1>4. SpawnsAreNew' /\ HellosAreFresh' /\ EndedOrListed'
  BY <1>1, SpawnsStep, HellosStep, ListedStep
<1>5. WaitsEnd' /\ ReportsEnd' /\ DeletedAreGone'
  BY <1>1, WaitsStep, ReportsStep, DeletedStep
<1> QED
  BY <1>3, <1>4, <1>5

LEMMA IInvSuffices ==
  ASSUME TypeOK, OneHost, IInv
  PROVE  DeletedForGood
<1> SUFFICES ASSUME NEW h \in Hosts, NEW n \in Names,
                    NEW a \in {agents[h][n], running[h][n]}, a < FirstCreated, a \in deleted
             PROVE  FALSE
  BY DEF DeletedForGood
<1>1. a # None /\ a = Restored[h][n]
  BY DEF IInv, DeletedAreGone, NamesAreKept, Known
<1>2. PICK g \in Hosts, m \in Names : a = Restored[g][m] /\ Gone(g, m)
  BY DEF IInv, DeletedAreGone
<1>3. g = h
  BY DEF OneHost
<1>4. m = n
  BY <1>1, <1>2, <1>3, RestoredAssumption
<1> QED
  BY <1>1, <1>2, <1>3, <1>4 DEF Gone, Ended

\* With one host, an agent the host ran from before and that a member was told is
\* gone (handleDelete's 204) is never run or listed again: not by a restart of the
\* host, a hello that was on its way, a create of its name or a report that
\* was late.  With two hosts that is not so (see handleCreate's read, server.go:451).
THEOREM DeletesAreFinal ==
  ASSUME OneHost
  PROVE  Spec => []DeletedForGood
<1>1. TypeOK /\ StopsHaveOneOwner /\ IInv /\ [Next]_vars => IInv'
  BY IInvStep
<1>2. TypeOK /\ IInv => DeletedForGood
  BY IInvSuffices
<1> QED
  BY InitIInv, TypeCorrect, StopsAreOwned, <1>1, <1>2, PTL DEF Spec

=============================================================================
