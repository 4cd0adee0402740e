-------------------------- MODULE Supervisor_proofs -------------------------
(***************************************************************************)
(* The safety properties of Supervisor, for any names, agents, processes,  *)
(* crashes and failures.                                                   *)
(***************************************************************************)
EXTENDS Supervisor, TLAPS

\* No command of one connection comes while a start of another is under way:
\* there is one connection, or nothing that it could ask for a second time.  When
\* one does, two goroutines supervise one record.
Orderly == (\A o, p \in Obeyers : o = p) \/ MaxAgents <= 1

-----------------------------------------------------------------------------
(* The inductive invariant.                                                *)

Launchers == Obeyers \cup {Main}
Begins == {"launch", "commit", "forget"}
Supervises == {"launch", "commit", "waiting", "delay", "clean"}
Saves == {"save", "records", "write"}

Goroutine == [pc : Stages, name : Names \cup {None}, agent : Agents \cup {None},
              slot : Slots \cup {None}, talk : Conversations, then : Stages]
RecordTypes == record \in [Agents -> Record] /\ running \in [Names -> Agents \cup {None}]
GoTypes == go \in [Goroutines -> Goroutine]
DiskTypes ==
  /\ writer \in Goroutines \cup {Nobody}
  /\ snapshot \in [Goroutines -> [Names -> Entry]] /\ file \in [Names -> Entry]
  /\ health \in BOOLEAN /\ failures \in 0..MaxFailures
HostTypes ==
  /\ phase \in {"restoring", "serving", "closing"}
  /\ alive \subseteq Slots
  /\ obeyer \in Obeyers /\ past \subseteq Obeyers /\ todo \subseteq Names
  /\ created \in 0..MaxAgents /\ crashes \in 0..MaxCrashes
  /\ wanted \subseteq Agents
Types == RecordTypes /\ GoTypes /\ DiskTypes /\ HostTypes

\* What a goroutine of each kind may be at, and what it holds there.
Staged ==
  \A t \in Goroutines :
    /\ At(t, "idle") => go[t] = Rest
    /\ t \in Launchers => go[t].pc \in {"idle", "unlaunched"} \cup Begins \cup Saves
    /\ t \in Slots => go[t].pc \in {"idle"} \cup Supervises \cup Saves
    /\ t \in Watchers => go[t].pc \in {"idle"} \cup Saves
    /\ go[t].pc \notin {"idle"} \cup Saves => go[t].name \in Names
    /\ go[t].then \in {"idle", "done", "begun"}
    /\ go[t].then = "begun" => t \in Launchers /\ go[t].name \in Names
    /\ go[t].then # "idle" => go[t].pc \in Saves
    /\ go[t].pc \in {"delay", "unlaunched"} \/ go[t].then = "done" => go[t].agent \in Agents
    /\ At(t, "commit") => go[t].slot \in Slots

\* Agents are numbered as they are asked for, and each is under one name.
Once(f) == \A n, m \in Names : f[n].agent = f[m].agent /\ f[n].agent # None => n = m
Numbered ==
  /\ \A n \in Names : running[n] <= created /\ file[n].agent <= created
  /\ \A t \in Launchers : ~At(t, "idle") => go[t].agent \in Agents
  /\ \A t \in Goroutines :
       go[t].agent <= created /\ \A n \in Names : snapshot[t][n].agent <= created
  /\ \A a \in wanted : a <= created
  /\ \A n, m \in Names : running[n] = running[m] /\ running[n] # None => n = m
  /\ Once(file) /\ \A t \in Goroutines : Once(snapshot[t])

\* Commands are obeyed when every agent of the state file has been begun, and
\* Main begins no other.
Phased ==
  /\ phase = "restoring" => \A o \in Obeyers : At(o, "idle")
  /\ phase # "restoring" => todo = {}
  /\ phase = "serving" => At(Main, "idle")
  /\ phase = "closing" => go[Main].pc \notin Begins
  /\ At(Main, "unlaunched") => phase = "closing"
  /\ ~ShutsDown => phase # "closing"
  /\ phase # "closing" =>
       \A n \in Names : running[n] # None /\ record[running[n]].slot = None =>
         n \in todo \/ \E t \in Launchers : go[t].pc \in Begins /\ go[t].name = n
  /\ \A n \in todo :
       /\ running[n] # None /\ record[running[n]].slot = None
       /\ \A t \in Launchers : go[t].pc \in Begins => go[t].name # n

\* A process has one wait goroutine, an agent that has been launched has one
\* process, and until then it has one goroutine that launches it.
Supervising(w) == go[w].pc \in Supervises
Supervised ==
  /\ \A w \in Slots : Supervising(w) =>
       /\ Its(w) # None /\ record[Its(w)].slot = w
       /\ At(w, "delay") => Its(w) = go[w].agent
  /\ \A n \in Names : running[n] # None /\ record[running[n]].slot # None =>
       /\ Supervising(record[running[n]].slot)
       /\ go[record[running[n]].slot].name = n
  /\ \A a \in Agents : record[a].slot # None => \E n \in Names : running[n] = a
  /\ \A t \in Launchers : go[t].pc \in Begins /\ Its(t) # None =>
       Its(t) = go[t].agent /\ record[Its(t)].slot = None
  /\ \A t, u \in Launchers : go[t].pc \in Begins /\ go[u].pc \in Begins
       /\ go[t].name = go[u].name => t = u

\* A process that was started and is not in a record yet is nobody else's.
Reserving ==
  /\ \A t \in Goroutines : At(t, "commit") =>
       go[t].slot \in alive /\ At(go[t].slot, "idle")
  /\ \A t, u \in Goroutines : At(t, "commit") /\ At(u, "commit") /\ go[t].slot = go[u].slot
       => t = u

\* Who is to close the channel of a stopped agent.
Owes(t, a) ==
  go[t].agent = a /\ (At(t, "unlaunched") \/ go[t].then = "done")
Owed ==
  /\ \A a \in Agents :
       /\ record[a].done > 0 =>
            record[a].done = 1 /\ record[a].stopping /\ \A n \in Names : running[n] # a
       /\ \A t \in Goroutines : Owes(t, a) =>
            /\ record[a].done = 0 /\ record[a].stopping /\ record[a].slot = None
            /\ \A n \in Names : running[n] = a => At(t, "unlaunched") /\ go[t].name = n
       /\ \A t, u \in Goroutines : Owes(t, a) /\ Owes(u, a) => t = u
  /\ \A t \in Goroutines : At(t, "unlaunched") =>
       /\ Its(t) \in {None, go[t].agent}
       /\ phase = "closing" \/ MaxAgents <= 1

Locked == \A t \in Goroutines : writer = t <=> go[t].pc \in {"records", "write"}

\* What is about to be written has nobody whose stop was reported, or will be
\* once it is written; and so has the file, if it was written.
Gones == {a \in Agents : record[a].done > 0}
Erased ==
  phase # "closing" =>
    /\ \A t \in Goroutines : At(t, "write") =>
         \A n \in Names : /\ snapshot[t][n].agent \notin Gones
                          /\ go[t].then = "done" => snapshot[t][n].agent # go[t].agent
    /\ health => \A n \in Names : file[n].agent \notin Gones

\* What is about to be written has everybody who is wanted, or will be.
Has(f, a) == \E n \in Names : f[n].agent = a
Remembered ==
  ~ShutsDown =>
    /\ \A a \in wanted : ~record[a].stopping /\ \E n \in Names : running[n] = a
    /\ \A t \in Goroutines : At(t, "write") =>
         /\ \A a \in wanted : Has(snapshot[t], a)
         /\ go[t].then = "begun" /\ Its(t) = go[t].agent => Has(snapshot[t], go[t].agent)
    /\ WantedIsSaved

\* The processes that live are those of the records, until they are stopped.
Tracked == ProcessesAreTracked

\* Of two short runs in a row one counts: after one that resumed a conversation
\* comes one that does not.
Counted ==
  /\ \A a \in Agents : record[a].slot = None => record[a].shorts = 0
  /\ \A w \in Slots : Supervising(w) =>
       LET r == record[Its(w)] IN
       /\ r.shorts <= 2 * r.fails + 1
       /\ r.shorts > 2 * r.fails =>
            /\ At(w, "waiting") => ~r.resumed \/ r.bounced
            /\ At(w, "delay") \/ At(w, "launch") => r.fresh
            /\ At(w, "commit") => go[w].talk = NoConversation

IInv == Types /\ Staged /\ Numbered /\ Phased /\ Supervised /\ Reserving /\ Owed /\ Locked
        /\ Erased /\ Remembered /\ Tracked /\ Counted

-----------------------------------------------------------------------------
(* The goroutines, and the parts of a step.                                *)

LEMMA Kinds ==
  /\ Main \in Goroutines /\ Main \in Launchers /\ Main \notin Slots /\ Main \notin Watchers
  /\ \A o \in Obeyers : o \in Goroutines /\ o \in Launchers /\ o \notin Slots /\ o # Main
  /\ \A k \in Watchers : k \in Goroutines /\ k \notin Slots /\ k \notin Launchers
  /\ \A s \in Slots : s \in Goroutines /\ s \notin Launchers /\ s \in Nat /\ s # None
  /\ Launchers \subseteq Goroutines /\ Slots \subseteq Goroutines
  /\ \A t \in Goroutines : t \in Launchers \/ t \in Slots \/ t \in Watchers
  /\ Nobody \notin Goroutines /\ None \notin Names /\ None \notin Agents
  /\ Agents \subseteq Nat /\ MaxAgents \in Nat /\ RestartLimit \in Nat /\ RestartLimit >= 1
  /\ MaxFresh \in Nat /\ Conversations = 0..(MaxFresh + 1) /\ NoConversation \in Conversations
  /\ NoConversation \notin 0..MaxFresh /\ None = 0 /\ MaxFailures \in Nat /\ MaxCrashes \in Nat
  /\ (ShutsDown \in BOOLEAN) /\ (Pins \in BOOLEAN) /\ (Reads \in BOOLEAN)
  BY BoundsAssumption, NamesAssumption, GoroutinesAssumption
     DEF Goroutines, Launchers, None, Agents, Conversations, NoConversation

\* What Unused and Rest are.
LEMMA Resting ==
  /\ Rest \in Goroutine /\ Unused \in Record /\ NoEntries \in [Names -> Entry]
  /\ Rest.pc = "idle" /\ Rest.name = None /\ Rest.agent = None /\ Rest.slot = None
  /\ Rest.then = "idle" /\ Rest.talk = NoConversation
  /\ Unused.slot = None /\ ~Unused.stopping /\ Unused.done = 0 /\ Unused.fails = 0
  /\ Unused.shorts = 0 /\ ~Unused.bounced /\ ~Unused.resumed
  /\ \A n \in Names : NoEntries[n].agent = None
  BY Kinds, BoundsAssumption DEF Rest, Unused, NoEntries, NoEntry, Goroutine, Record, Entry, Stages

LEMMA Wanted == \A a : ~Gone(a) <=> a \in Agents /\ ~record[a].stopping
  BY DEF Gone

\* Forgetting a name leaves of its record what a stop still needs.
LEMMA Forgotten ==
  ASSUME RecordTypes, NEW n \in Names, Forget(n)
  PROVE  /\ RecordTypes'
         /\ running'[n] = None
         /\ \A m \in Names : m # n => running'[m] = running[m]
         /\ \A a \in Agents : a # running[n] => record'[a] = record[a]
         /\ \A a \in Agents : a = running[n] =>
              /\ record'[a].slot = None /\ record'[a].shorts = 0
              /\ record'[a].done = record[a].done
              /\ record'[a].stopping <=> record[a].stopping
  <1> DEFINE left(a) == [Unused EXCEPT !.stopping = record[a].stopping, !.done = record[a].done]
  <1>1. \A a \in Agents :
          /\ left(a) \in Record /\ left(a).slot = None /\ left(a).shorts = 0
          /\ left(a).done = record[a].done
          /\ left(a).stopping <=> record[a].stopping
    BY Kinds, Resting DEF RecordTypes, Record, Unused
  <1>2. record' = [a \in Agents |-> IF a # running[n] THEN record[a] ELSE left(a)]
    BY DEF Forget
  <1>3. running' = [running EXCEPT ![n] = None]
    BY DEF Forget
  <1> HIDE DEF left
  <1>4. RecordTypes'
    BY <1>1, <1>2, <1>3, Kinds DEF RecordTypes
  <1> QED BY <1>1, <1>2, <1>3, <1>4 DEF RecordTypes

LEMMA Parts ==
  ASSUME Next
  PROVE  \/ \E t \in Goroutines : LaunchStep(t) \/ StopUnlaunched(t) \/ SaveStep(t)
         \/ \E w \in Slots : WaitStep(w)
         \/ \E o \in Obeyers, n \in Names :
              Start(o, n) \/ Stop(o, n) \/ \E fresh \in BOOLEAN : Bounce(o, n, fresh)
         \/ \E o \in Obeyers : Reconnect(o)
         \/ \E n \in Names : Stop(Main, n) \/ RestoreNext(n)
         \/ RestoreDone \/ Shutdown \/ Restart
         \/ \E s \in Slots : Dies(s) \/ \E k \in Watchers : Remember(k, s) \/ Reading(k, s)
  BY DEF Next, Step

-----------------------------------------------------------------------------
(* What each action changes.                                               *)

\* Every goroutine but t is where it was; what a record says of its agent's
\* process stays, whatever becomes of its conversation.
Others(t) == \A u \in Goroutines : u # t => go'[u] = go[u]
Holds(t) == go'[t].name = go[t].name /\ go'[t].agent = go[t].agent
Kept(a) ==
  /\ record'[a].slot = record[a].slot /\ record'[a].done = record[a].done
  /\ record'[a].shorts = record[a].shorts /\ record'[a].fails = record[a].fails
  /\ record'[a].stopping <=> record[a].stopping
  /\ record'[a].fresh <=> record[a].fresh
  /\ record'[a].resumed <=> record[a].resumed
  /\ record'[a].bounced <=> record[a].bounced
Forgets(n) ==
  /\ running'[n] = None
  /\ \A m \in Names : m # n => running'[m] = running[m]
  /\ \A a \in Agents : a # running[n] => record'[a] = record[a]
  /\ \A a \in Agents : a = running[n] =>
       /\ record'[a].slot = None /\ record'[a].shorts = 0
       /\ record'[a].done = record[a].done
       /\ record'[a].stopping <=> record[a].stopping
Sound == Types /\ Staged

LEMMA Named ==
  ASSUME Sound, NEW t \in Goroutines, go[t].pc \notin {"idle"} \cup Saves
  PROVE  go[t].name \in Names /\ Its(t) \in Agents \cup {None} /\ Its(t) = running[go[t].name]
  BY DEF Sound, Types, Staged, RecordTypes, Its

LEMMA Moved ==
  ASSUME Sound, NEW t \in Goroutines, NEW g \in Goroutine, go' = [go EXCEPT ![t] = g]
  PROVE  GoTypes' /\ Others(t) /\ go'[t] = g
  BY DEF Sound, Types, GoTypes, Others

LEMMA StartEffect ==
  ASSUME Sound, NEW o \in Obeyers, NEW n \in Names, Start(o, n)
  PROVE  LET a == created + 1 IN
         /\ phase = "serving" /\ o = obeyer /\ go[o].pc = "idle" /\ running[n] = None
         /\ a \in Agents /\ created' = a
         /\ UNCHANGED <<phase, obeyer, past, todo, crashes, alive, diskVars, wanted>>
         /\ RecordTypes' /\ GoTypes'
         /\ running'[n] = a /\ \A m \in Names : m # n => running'[m] = running[m]
         /\ \A b \in Agents : b # a => record'[b] = record[b]
         /\ record'[a].slot = None /\ record'[a].done = 0 /\ record'[a].shorts = 0
         /\ ~record'[a].stopping
         /\ Others(o) /\ go'[o].pc = "launch" /\ go'[o].name = n /\ go'[o].agent = a
         /\ go'[o].then = "idle"
  <1> DEFINE a == created + 1
  <1>1. created \in 0..MaxAgents /\ created < MaxAgents /\ a \in Agents
    BY Kinds DEF Sound, Types, HostTypes, Start, Agents
  <1>2. [Unused EXCEPT !.fresh = TRUE] \in Record
        /\ [Unused EXCEPT !.fresh = TRUE].slot = None /\ [Unused EXCEPT !.fresh = TRUE].done = 0
        /\ [Unused EXCEPT !.fresh = TRUE].shorts = 0 /\ ~[Unused EXCEPT !.fresh = TRUE].stopping
    BY Resting, Kinds DEF Record, Unused
  <1>3. record' = [record EXCEPT ![a] = [Unused EXCEPT !.fresh = TRUE]]
        /\ running' = [running EXCEPT ![n] = a]
    BY DEF Start
  <1>4. RecordTypes' /\ running'[n] = a /\ (\A m \in Names : m # n => running'[m] = running[m])
        /\ (\A b \in Agents : b # a => record'[b] = record[b])
        /\ record'[a].slot = None /\ record'[a].done = 0 /\ record'[a].shorts = 0
        /\ ~record'[a].stopping
    <2> HIDE DEF a
    <2> QED BY <1>1, <1>2, <1>3 DEF Sound, Types, RecordTypes
  <1>5. LET g == [Rest EXCEPT !.pc = "launch", !.name = n, !.agent = a] IN
        /\ go' = [go EXCEPT ![o] = g] /\ g \in Goroutine
        /\ g.pc = "launch" /\ g.name = n /\ g.agent = a /\ g.then = "idle"
    <2>1. go' = [go EXCEPT ![o] = [Rest EXCEPT !.pc = "launch", !.name = n, !.agent = a]]
      BY DEF Start
    <2> HIDE DEF a
    <2> QED BY <2>1, <1>1, Resting DEF Goroutine, Rest, Stages
  <1>6. GoTypes' /\ Others(o) /\ go'[o].pc = "launch" /\ go'[o].name = n /\ go'[o].agent = a
        /\ go'[o].then = "idle"
    <2> HIDE DEF a
    <2> QED BY <1>5, Kinds DEF Sound, Types, GoTypes, Others
  <1> QED BY <1>1, <1>4, <1>6 DEF Start, Obeys, At

LEMMA RestoreNextEffect ==
  ASSUME Sound, NEW n \in Names, RestoreNext(n)
  PROVE  /\ phase = "restoring" /\ go[Main].pc = "idle" /\ n \in todo /\ todo' = todo \ {n}
         /\ \A m \in todo : running[n] <= running[m]
         /\ UNCHANGED <<phase, obeyer, past, created, crashes, running, record, alive,
                        diskVars, wanted>>
         /\ GoTypes' /\ Others(Main)
         /\ go'[Main].pc = "launch" /\ go'[Main].name = n /\ go'[Main].agent = running[n]
         /\ go'[Main].then = "idle"
  <1>1. LET g == [Rest EXCEPT !.pc = "launch", !.name = n, !.agent = running[n]] IN
        /\ go' = [go EXCEPT ![Main] = g] /\ g \in Goroutine
        /\ g.pc = "launch" /\ g.name = n /\ g.agent = running[n] /\ g.then = "idle"
    BY Resting DEF Goroutine, Rest, Stages, RestoreNext, Sound, Types, RecordTypes
  <1> QED BY <1>1, Kinds DEF RestoreNext, At, Sound, Types, GoTypes, Others

\* A launch fails, or has a process that nobody else has.
LEMMA LaunchEffect ==
  ASSUME Sound, NEW t \in Goroutines, Launch(t)
  PROVE  /\ go[t].pc \in {"launch", "delay"} /\ t \in Launchers \cup Slots
         /\ UNCHANGED <<hostVars, running, diskVars, wanted>>
         /\ RecordTypes' /\ GoTypes' /\ Others(t) /\ Holds(t) /\ go'[t].then = go[t].then
         /\ \A b \in Agents : Kept(b)
         /\ \/ /\ go'[t].pc = IF t \in Slots THEN "clean" ELSE "forget"
               /\ UNCHANGED alive
            \/ /\ ~Gone(Its(t)) /\ go'[t].pc = "commit"
               /\ go'[t].slot \in Slots /\ At(go'[t].slot, "idle") /\ go'[t].slot \notin alive
               /\ alive' = alive \cup {go'[t].slot}
               /\ record[Its(t)].fresh => go'[t].talk = NoConversation
  <1> DEFINE a == Its(t)
  <1>0. UNCHANGED <<hostVars, running, diskVars, wanted>>
    BY DEF Launch
  <1>1. go[t].pc \in {"launch", "delay"} /\ t \in Launchers \cup Slots
    BY Kinds DEF Launch, At, Sound, Staged, Saves
  <1>2. RecordTypes' /\ \A b \in Agents : Kept(b)
    <2>1. record' = record \/ (~Gone(a) /\ record' = [record EXCEPT ![a].session = record[a].cleared])
      BY DEF Launch
    <2>2. ASSUME ~Gone(a), record' = [record EXCEPT ![a].session = record[a].cleared]
          PROVE  RecordTypes' /\ \A b \in Agents : Kept(b)
      <3>1. a \in Agents /\ record[a].cleared \in Conversations
        BY <2>2, Wanted, Kinds DEF Sound, Types, RecordTypes, Record
      <3> HIDE DEF a
      <3> QED BY <2>2, <3>1, <1>0 DEF Sound, Types, RecordTypes, Record, Kept
    <2>3. record' = record => RecordTypes' /\ \A b \in Agents : Kept(b)
      BY <1>0 DEF Sound, Types, RecordTypes, Kept
    <2> QED BY <2>1, <2>2, <2>3
  <1>3. CASE LaunchFailed(t) /\ UNCHANGED alive
    <2>1. \E pc \in {"clean", "forget"} :
            /\ go' = [go EXCEPT ![t].pc = pc] /\ pc = IF t \in Slots THEN "clean" ELSE "forget"
      BY <1>3 DEF LaunchFailed, Goto
    <2>2. PICK pc \in {"clean", "forget"} :
            /\ go' = [go EXCEPT ![t].pc = pc] /\ pc = IF t \in Slots THEN "clean" ELSE "forget"
      BY <2>1
    <2> DEFINE g == [go[t] EXCEPT !.pc = pc]
    <2>3. /\ g \in Goroutine /\ g.pc = pc /\ g.then = go[t].then /\ g.name = go[t].name
          /\ g.agent = go[t].agent /\ go' = [go EXCEPT ![t] = g]
      BY <2>2 DEF Sound, Types, GoTypes, Goroutine, Stages
    <2> HIDE DEF g
    <2>4. GoTypes' /\ Others(t) /\ go'[t] = g
      BY <2>3, Moved
    <2> QED BY <1>0, <1>1, <1>2, <1>3, <2>2, <2>3, <2>4 DEF Holds
  <1>4. CASE ~LaunchFailed(t) \/ ~UNCHANGED alive
    <2>1. PICK s \in Slots : /\ ~Gone(a) /\ Free(s) /\ alive' = alive \cup {s}
                             /\ go' = [go EXCEPT ![t].pc = "commit", ![t].slot = s, ![t].talk = Resume(a)]
      BY <1>4 DEF Launch
    <2>2. Resume(a) \in Conversations /\ (record[a].fresh => Resume(a) = NoConversation)
      BY <2>1, Wanted, Kinds DEF Resume, Resumes, Sound, Types, RecordTypes, Record
    <2>3. PICK talk \in Conversations :
            /\ record[a].fresh => talk = NoConversation
            /\ go' = [go EXCEPT ![t].pc = "commit", ![t].slot = s, ![t].talk = talk]
      BY <2>1, <2>2
    <2> DEFINE g == [go[t] EXCEPT !.pc = "commit", !.slot = s, !.talk = talk]
    <2>4. go' = [go EXCEPT ![t] = g]
      BY <2>3 DEF Sound, Types, GoTypes
    <2>5. go[t] \in Goroutine
      BY DEF Sound, Types, GoTypes
    <2>6. /\ g \in Goroutine /\ g.pc = "commit" /\ g.slot = s /\ g.talk = talk
          /\ g.then = go[t].then /\ g.name = go[t].name /\ g.agent = go[t].agent
      BY <2>5 DEF Goroutine, Stages
    <2> HIDE DEF g
    <2>7. GoTypes' /\ Others(t) /\ go'[t] = g
      BY <2>4, <2>6, Moved
    <2> QED BY <1>0, <1>1, <1>2, <2>1, <2>3, <2>6, <2>7 DEF Free, At, Holds
  <1> QED BY <1>3, <1>4

\* The rest of a launch: the process is killed, or is the record's.
CommitFails(t) ==
  /\ Gone(Its(t)) /\ alive' = alive \ {go[t].slot} /\ UNCHANGED record
  /\ Others(t) /\ Holds(t) /\ go'[t].then = go[t].then
  /\ go'[t].pc = IF t \in Slots THEN "clean" ELSE "forget"
CommitWorks(t) ==
  LET a == Its(t)
      s == go[t].slot
  IN
  /\ a \in Agents /\ ~record[a].stopping /\ s \in Slots /\ UNCHANGED alive
  /\ \A b \in Agents : b # a => record'[b] = record[b]
  /\ record'[a].slot = s /\ record'[a].done = record[a].done
  /\ record'[a].shorts = record[a].shorts /\ record'[a].fails = record[a].fails
  /\ ~record'[a].stopping /\ ~record'[a].bounced
  /\ go[t].talk = NoConversation => ~record'[a].resumed
  /\ \A u \in Goroutines : u \notin {s, t} => go'[u] = go[u]
  /\ s # t => go'[s].pc = "waiting" /\ go'[s].name = go[t].name /\ go'[s].then = "idle"
              /\ go'[s].agent = None
  /\ t \in Slots => go'[t] = Rest
  /\ t \notin Slots => Holds(t) /\ go'[t].pc = "save" /\ go'[t].then = "begun"

LEMMA CommitEffect ==
  ASSUME Sound, NEW t \in Goroutines, Commit(t)
  PROVE  /\ go[t].pc = "commit" /\ t \in Launchers \cup Slots
         /\ UNCHANGED <<hostVars, running, diskVars, wanted>>
         /\ RecordTypes' /\ GoTypes' /\ (alive' \subseteq alive)
         /\ CommitFails(t) \/ CommitWorks(t)
  <1> DEFINE a == Its(t)
             s == go[t].slot
  <1>0. /\ go[t].pc = "commit" /\ t \in Launchers \cup Slots
        /\ UNCHANGED <<hostVars, running, diskVars, wanted>>
        /\ s \in Slots /\ go[t] \in Goroutine /\ go[t].name \in Names
    BY Kinds DEF Commit, At, Sound, Staged, Types, GoTypes, Saves
  <1>1. CASE /\ Gone(a) /\ alive' = alive \ {s} /\ UNCHANGED record
             /\ go' = [go EXCEPT ![t].slot = None, ![t].talk = NoConversation,
                              ![t].pc = IF t \in Slots THEN "clean" ELSE "forget"]
    <2>1. PICK pc \in {"clean", "forget"} :
            /\ go' = [go EXCEPT ![t].slot = None, ![t].talk = NoConversation, ![t].pc = pc]
            /\ pc = IF t \in Slots THEN "clean" ELSE "forget"
      BY <1>1
    <2> DEFINE g == [go[t] EXCEPT !.slot = None, !.talk = NoConversation, !.pc = pc]
    <2>2. go' = [go EXCEPT ![t] = g]
      BY <2>1 DEF Sound, Types, GoTypes
    <2>3. /\ g \in Goroutine /\ g.pc = pc /\ g.then = go[t].then /\ g.name = go[t].name
          /\ g.agent = go[t].agent
      BY <1>0, Kinds DEF Goroutine, Stages
    <2> HIDE DEF g
    <2>4. GoTypes' /\ Others(t) /\ go'[t] = g
      BY <2>2, <2>3, Moved
    <2>5. RecordTypes'
      BY <1>0, <1>1 DEF Sound, Types, RecordTypes
    <2> QED BY <1>0, <1>1, <2>1, <2>3, <2>4, <2>5 DEF CommitFails, Holds
  <1>2. CASE ~(Gone(a) /\ alive' = alive \ {s} /\ UNCHANGED record
             /\ go' = [go EXCEPT ![t].slot = None, ![t].talk = NoConversation,
                              ![t].pc = IF t \in Slots THEN "clean" ELSE "forget"])
    <2>1. PICK resumed \in BOOLEAN, talk \in Conversations :
          /\ ~Gone(a) /\ UNCHANGED alive
          /\ go[t].talk = NoConversation => ~resumed
          /\ record' = [record EXCEPT ![a].slot = s, ![a].resumed = resumed,
                                      ![a].fresh = FALSE, ![a].bounced = FALSE]
          /\ go' = [go EXCEPT
               ![s] = [Rest EXCEPT !.pc = "waiting", !.name = go[t].name, !.talk = talk],
               ![t] = IF t \in Slots THEN Rest
                      ELSE [@ EXCEPT !.pc = "save", !.then = "begun",
                                     !.slot = None, !.talk = NoConversation]]
      <3>1. ~Gone(a)
        BY <1>2 DEF Commit
      <3>2. record[a].cleared \in Conversations /\ go[t].talk \in Conversations
        <4>1. a \in Agents
          BY <3>1, Wanted
        <4>2. record[a] \in Record
          BY <4>1 DEF Sound, Types, RecordTypes
        <4>3. record[a].cleared \in Conversations
          BY <4>2, Kinds DEF Record
        <4> QED BY <4>3, <1>0 DEF Goroutine
      <3>3. (go[t].talk # NoConversation) \in BOOLEAN
        OBVIOUS
      <3>4. (IF go[t].talk # NoConversation THEN go[t].talk ELSE record[a].cleared)
              \in Conversations
        BY <3>2
      <3>5. /\ UNCHANGED alive
            /\ record' = [record EXCEPT ![a].slot = s, ![a].resumed = go[t].talk # NoConversation,
                                        ![a].fresh = FALSE, ![a].bounced = FALSE]
            /\ go' = [go EXCEPT
                 ![s] = [Rest EXCEPT !.pc = "waiting", !.name = go[t].name,
                                     !.talk = IF go[t].talk # NoConversation
                                              THEN go[t].talk ELSE record[a].cleared],
                 ![t] = IF t \in Slots THEN Rest
                        ELSE [@ EXCEPT !.pc = "save", !.then = "begun",
                                       !.slot = None, !.talk = NoConversation]]
        BY <3>1 DEF Commit
      <3> QED BY <3>1, <3>3, <3>4, <3>5
    <2>2. a \in Agents /\ ~record[a].stopping /\ record[a] \in Record
      BY <2>1, Wanted DEF Sound, Types, RecordTypes
    <2> DEFINE r == [record[a] EXCEPT !.slot = s, !.resumed = resumed, !.fresh = FALSE,
                                      !.bounced = FALSE]
               f == [Rest EXCEPT !.pc = "waiting", !.name = go[t].name, !.talk = talk]
               g == [go[t] EXCEPT !.pc = "save", !.then = "begun",
                                  !.slot = None, !.talk = NoConversation]
    <2>3. record' = [record EXCEPT ![a] = r]
      BY <2>1, <2>2 DEF Sound, Types, RecordTypes
    <2>4. /\ r \in Record /\ r.slot = s /\ r.done = record[a].done /\ r.shorts = record[a].shorts
          /\ r.fails = record[a].fails /\ ~r.stopping /\ ~r.bounced
          /\ go[t].talk = NoConversation => ~r.resumed
      BY <2>1, <2>2, <1>0 DEF Record
    <2>5. /\ f \in Goroutine /\ f.pc = "waiting" /\ f.name = go[t].name /\ f.then = "idle"
          /\ f.agent = None
      BY <1>0, Resting, Kinds DEF Goroutine, Stages, Rest
    <2>6. /\ g \in Goroutine /\ g.pc = "save" /\ g.then = "begun" /\ g.name = go[t].name
          /\ g.agent = go[t].agent
      BY <1>0, Kinds DEF Goroutine, Stages
    <2>7. go' = [go EXCEPT ![s] = f, ![t] = IF t \in Slots THEN Rest ELSE g]
      BY <2>1, <1>0, Kinds DEF Sound, Types, GoTypes
    <2> HIDE DEF r, f, g
    <2>8. /\ RecordTypes' /\ record'[a] = r
          /\ \A b \in Agents : b # a => record'[b] = record[b]
      <3> HIDE DEF a
      <3> QED BY <1>0, <2>2, <2>3, <2>4 DEF Sound, Types, RecordTypes
    <2>9. /\ GoTypes' /\ (s # t => go'[s] = f) /\ (t \in Slots => go'[t] = Rest)
          /\ (t \notin Slots => go'[t] = g)
          /\ \A u \in Goroutines : u \notin {s, t} => go'[u] = go[u]
      <3> HIDE DEF s
      <3> QED BY <1>0, <2>5, <2>6, <2>7, Resting, Kinds DEF Sound, Types, GoTypes
    <2> QED BY <1>0, <2>1, <2>2, <2>4, <2>5, <2>6, <2>8, <2>9 DEF CommitWorks, Holds
  <1> QED BY <1>1, <1>2

LEMMA Ending ==
  ASSUME Sound, NEW t \in Goroutines, Ends(t)
  PROVE  GoTypes' /\ Others(t) /\ go'[t] = Rest
  BY Resting, Moved DEF Ends

LEMMA Going ==
  ASSUME Sound, NEW t \in Goroutines, NEW pc \in Stages, Goto(t, pc)
  PROVE  GoTypes' /\ Others(t) /\ Holds(t) /\ go'[t].pc = pc /\ go'[t].then = go[t].then
  <1> DEFINE g == [go[t] EXCEPT !.pc = pc]
  <1>1. go' = [go EXCEPT ![t] = g] /\ go[t] \in Goroutine
    BY DEF Goto, Sound, Types, GoTypes
  <1>2. /\ g \in Goroutine /\ g.pc = pc /\ g.then = go[t].then /\ g.name = go[t].name
        /\ g.agent = go[t].agent
    BY <1>1 DEF Goroutine
  <1> HIDE DEF g
  <1> QED BY <1>1, <1>2, Moved DEF Holds

LEMMA ForgetFailedEffect ==
  ASSUME Sound, NEW t \in Goroutines, ForgetFailed(t)
  PROVE  /\ go[t].pc = "forget" /\ t \in Launchers
         /\ UNCHANGED <<hostVars, alive, diskVars>> /\ wanted' = wanted \ {Its(t)}
         /\ RecordTypes' /\ GoTypes' /\ Forgets(go[t].name) /\ Others(t) /\ go'[t] = Rest
  <1>1. go[t].pc = "forget" /\ t \in Launchers /\ go[t].name \in Names
    BY Kinds DEF ForgetFailed, At, Sound, Staged, Saves, Supervises
  <1>2. RecordTypes' /\ Forgets(go[t].name)
    <2>1. PICK n \in Names : n = go[t].name /\ Forget(n)
      BY <1>1 DEF ForgetFailed
    <2>2. RecordTypes' /\ Forgets(n)
      BY <2>1, Forgotten DEF Forgets, Sound, Types
    <2> QED BY <2>1, <2>2
  <1>3. Ends(t)
    BY DEF ForgetFailed
  <1> QED BY <1>1, <1>2, <1>3, Ending DEF ForgetFailed

LEMMA CleanUpEffect ==
  ASSUME Sound, NEW w \in Slots, CleanUp(w)
  PROVE  /\ go[w].pc = "clean"
         /\ UNCHANGED <<hostVars, alive, diskVars>> /\ wanted' = wanted \ {Its(w)}
         /\ RecordTypes' /\ GoTypes' /\ Forgets(go[w].name) /\ Others(w)
         /\ go'[w].pc = "save" /\ go'[w].name = go[w].name /\ go'[w].agent = Its(w)
         /\ IF Its(w) # None /\ record[Its(w)].stopping
            THEN go'[w].then = "done" ELSE go'[w].then = "idle"
  <1>1. go[w].pc = "clean" /\ go[w].name \in Names /\ w \in Goroutines
    BY Kinds DEF CleanUp, At, Sound, Staged, Saves
  <1>2. RecordTypes' /\ Forgets(go[w].name)
    <2>1. PICK n \in Names : n = go[w].name /\ Forget(n)
      BY <1>1 DEF CleanUp
    <2>2. RecordTypes' /\ Forgets(n)
      BY <2>1, Forgotten DEF Forgets, Sound, Types
    <2> QED BY <2>1, <2>2
  <1>3. PICK then \in Stages, a \in Agents \cup {None} :
          /\ a = Its(w)
          /\ IF a # None /\ record[a].stopping THEN then = "done" ELSE then = "idle"
          /\ go' = [go EXCEPT ![w].pc = "save", ![w].agent = a, ![w].then = then]
    <2>1. AfterCleanUp(Its(w)) \in Stages
      BY DEF AfterCleanUp, Stages
    <2>2. go' = [go EXCEPT ![w].pc = "save", ![w].agent = Its(w),
                           ![w].then = AfterCleanUp(Its(w))]
      BY DEF CleanUp
    <2>3. Its(w) \in Agents \cup {None}
      BY <1>1 DEF Its, Sound, Types, RecordTypes
    <2> QED BY <2>1, <2>2, <2>3 DEF AfterCleanUp
  <1>5. /\ GoTypes' /\ Others(w) /\ go'[w].pc = "save" /\ go'[w].then = then
        /\ go'[w].name = go[w].name /\ go'[w].agent = a
    <2> DEFINE g == [go[w] EXCEPT !.pc = "save", !.agent = a, !.then = then]
    <2>1. go' = [go EXCEPT ![w] = g] /\ go[w] \in Goroutine
      BY <1>1, <1>3 DEF Sound, Types, GoTypes
    <2>2. /\ g \in Goroutine /\ g.pc = "save" /\ g.then = then /\ g.name = go[w].name
          /\ g.agent = a
      BY <2>1 DEF Goroutine, Stages
    <2> HIDE DEF g
    <2> QED BY <1>1, <2>1, <2>2, Moved
  <1>6. UNCHANGED <<hostVars, alive, diskVars>> /\ wanted' = wanted \ {Its(w)}
    BY DEF CleanUp
  <1> QED BY <1>1, <1>2, <1>3, <1>5, <1>6

\* The end of a process: nobody's record is there, or it was stopped, or given
\* up, or is launched again.
ExitsAlone(w) ==
  /\ Its(w) = None /\ UNCHANGED <<running, record, wanted>> /\ go'[w] = Rest
ExitsStopped(w) ==
  /\ Its(w) \in Agents /\ record[Its(w)].stopping
  /\ Forgets(go[w].name) /\ UNCHANGED wanted
  /\ go'[w].pc = "save" /\ go'[w].then = "done" /\ go'[w].name = go[w].name
  /\ go'[w].agent = Its(w)
ExitsForGood(w) ==
  /\ Its(w) \in Agents /\ ~record[Its(w)].stopping
  /\ Forgets(go[w].name) /\ wanted' = wanted \ {Its(w)}
  /\ go'[w].pc = "save" /\ go'[w].then = "idle" /\ Holds(w)
ExitsAgain(w) ==
  LET a == Its(w)
      was == record[a]
      r == record'[a]
  IN
  /\ a \in Agents /\ ~was.stopping /\ ~r.stopping
  /\ UNCHANGED <<running, wanted>>
  /\ \A b \in Agents : b # a => record'[b] = record[b]
  /\ r.slot = was.slot /\ r.done = was.done
  /\ \/ r.shorts = 0
     \/ ~was.bounced /\ was.resumed /\ r.fresh
          /\ r.fails = was.fails /\ r.shorts = was.shorts + 1
     \/ ~was.bounced /\ ~was.resumed
          /\ r.fails = was.fails + 1 /\ r.shorts = was.shorts + 1
  /\ go'[w].pc = "delay" /\ go'[w].name = go[w].name /\ go'[w].agent = a
  /\ go'[w].then = go[w].then

LEMMA AfterAnExit ==
  ASSUME NEW r \in Record, NEW long \in BOOLEAN, ~GivesUp(AfterExit(r, long))
  PROVE  LET q == AfterExit(r, long) IN
         /\ q \in Record /\ (q.stopping <=> r.stopping) /\ q.slot = r.slot /\ q.done = r.done
         /\ \/ q.shorts = 0
            \/ ~r.bounced /\ r.resumed /\ q.fresh
                 /\ q.fails = r.fails /\ q.shorts = r.shorts + 1
            \/ ~r.bounced /\ ~r.resumed
                 /\ q.fails = r.fails + 1 /\ q.shorts = r.shorts + 1
  <1> DEFINE q == AfterExit(r, long)
  <1>0. q.fails < RestartLimit \/ q.fails \notin Nat
    BY Kinds DEF GivesUp
  <1> DEFINE f == r.fails + 1
             k == r.shorts + 1
  <1>5. f \in Nat /\ k \in Nat /\ r.fails \in 0..(RestartLimit - 1)
    BY DEF Record
  <1>1. CASE r.bounced
    <2>1. q = [r EXCEPT !.bounced = FALSE, !.shorts = 0]
      BY <1>1 DEF AfterExit
    <2> HIDE DEF q
    <2>2. q \in Record /\ (q.stopping <=> r.stopping) /\ q.slot = r.slot /\ q.done = r.done
          /\ q.shorts = 0
      BY <2>1 DEF Record
    <2> QED BY <2>2 DEF q
  <1>2. CASE ~r.bounced /\ long
    <2>1. q = [r EXCEPT !.fails = 0, !.shorts = 0]
      BY <1>2 DEF AfterExit
    <2> HIDE DEF q
    <2>2. 0 \in 0..(RestartLimit - 1)
      BY Kinds
    <2>3. q \in Record
      BY <2>1, <2>2 DEF Record
    <2>4. (q.stopping <=> r.stopping) /\ q.slot = r.slot /\ q.done = r.done /\ q.shorts = 0
      BY <2>1 DEF Record
    <2> QED BY <2>3, <2>4 DEF q
  <1>3. CASE ~r.bounced /\ ~long /\ r.resumed
    <2>1. q = [r EXCEPT !.fresh = TRUE, !.session = NoConversation, !.shorts = k]
      BY <1>3 DEF AfterExit
    <2> HIDE DEF q, k
    <2>2. q \in Record /\ (q.stopping <=> r.stopping) /\ q.slot = r.slot /\ q.done = r.done
          /\ q.fresh /\ q.fails = r.fails /\ q.shorts = k
      BY <2>1, <1>5, Kinds DEF Record
    <2> QED BY <1>3, <2>2 DEF q, k
  <1>4. CASE ~r.bounced /\ ~long /\ ~r.resumed
    <2>1. q = [r EXCEPT !.fails = f, !.shorts = k]
      BY <1>4 DEF AfterExit
    <2> HIDE DEF q, f, k
    <2>2. q.fails = f /\ q.shorts = k
      BY <2>1 DEF Record
    <2>3. f \in 0..(RestartLimit - 1)
      BY <1>0, <1>5, <2>2, Kinds
    <2>4. q \in Record
      BY <2>1, <2>3, <1>5 DEF Record
    <2>5. (q.stopping <=> r.stopping) /\ q.slot = r.slot /\ q.done = r.done
      BY <2>1 DEF Record
    <2> QED BY <1>4, <2>2, <2>4, <2>5 DEF q, f, k
  <1> QED BY <1>1, <1>2, <1>3, <1>4

LEMMA ExitEffect ==
  ASSUME Sound, NEW w \in Slots, Exit(w)
  PROVE  /\ go[w].pc = "waiting" /\ w \notin alive
         /\ UNCHANGED <<hostVars, alive, diskVars>>
         /\ RecordTypes' /\ GoTypes' /\ Others(w)
         /\ ExitsAlone(w) \/ ExitsStopped(w) \/ ExitsForGood(w) \/ ExitsAgain(w)
  <1>1. /\ go[w].pc = "waiting" /\ w \notin alive /\ UNCHANGED <<hostVars, alive, diskVars>>
        /\ w \in Goroutines /\ go[w].name \in Names
    BY Kinds DEF Exit, At, Sound, Staged, Saves
  <1>2. PICK a \in Agents \cup {None} : a = Its(w)
    BY <1>1 DEF Its, Sound, Types, RecordTypes
  <1>3. PICK n \in Names : n = go[w].name
    BY <1>1
  <1>4. CASE a = None /\ Ends(w) /\ UNCHANGED <<running, record, wanted>>
    BY <1>1, <1>2, <1>4, Ending DEF ExitsAlone, Sound, Types, RecordTypes
  <1>5. CASE /\ a # None /\ record[a].stopping
             /\ Forget(n) /\ UNCHANGED wanted
             /\ go' = [go EXCEPT ![w].pc = "save", ![w].then = "done", ![w].agent = a]
    <2> DEFINE g == [go[w] EXCEPT !.pc = "save", !.then = "done", !.agent = a]
    <2>1. go' = [go EXCEPT ![w] = g] /\ go[w] \in Goroutine
      BY <1>1, <1>5 DEF Sound, Types, GoTypes
    <2>2. /\ g \in Goroutine /\ g.pc = "save" /\ g.then = "done" /\ g.name = go[w].name
          /\ g.agent = a
      BY <2>1 DEF Goroutine, Stages
    <2> HIDE DEF g
    <2>3. RecordTypes' /\ Forgets(n)
      BY <1>5, Forgotten DEF Forgets, Sound, Types
    <2>4. GoTypes' /\ Others(w) /\ go'[w] = g
      BY <1>1, <2>1, <2>2, Moved
    <2> QED BY <1>1, <1>2, <1>3, <1>5, <2>2, <2>3, <2>4 DEF ExitsStopped
  <1>6. CASE /\ ~Gone(a) /\ Forget(n) /\ SaveThen(w, "idle") /\ wanted' = wanted \ {a}
    <2> DEFINE g == [go[w] EXCEPT !.pc = "save", !.then = "idle"]
    <2>1. go' = [go EXCEPT ![w] = g] /\ go[w] \in Goroutine
      BY <1>1, <1>6 DEF SaveThen, Sound, Types, GoTypes
    <2>2. /\ g \in Goroutine /\ g.pc = "save" /\ g.then = "idle" /\ g.name = go[w].name
          /\ g.agent = go[w].agent
      BY <2>1 DEF Goroutine, Stages
    <2> HIDE DEF g
    <2>3. RecordTypes' /\ Forgets(n)
      BY <1>6, Forgotten DEF Forgets, Sound, Types
    <2>4. GoTypes' /\ Others(w) /\ go'[w] = g
      BY <1>1, <2>1, <2>2, Moved
    <2>5. a \in Agents /\ ~record[a].stopping
      BY <1>6, Wanted
    <2> QED BY <1>1, <1>2, <1>3, <1>6, <2>2, <2>3, <2>4, <2>5 DEF ExitsForGood, Holds
  <1>7. CASE \E long \in BOOLEAN :
               LET r == AfterExit(record[a], long) IN
               /\ ~Gone(a) /\ ~GivesUp(r) /\ record' = [record EXCEPT ![a] = r]
               /\ go' = [go EXCEPT ![w].pc = "delay", ![w].agent = a]
               /\ UNCHANGED <<running, wanted>>
    <2> DEFINE g == [go[w] EXCEPT !.pc = "delay", !.agent = a]
    <2>1. go' = [go EXCEPT ![w] = g] /\ go[w] \in Goroutine
      BY <1>1, <1>7 DEF Sound, Types, GoTypes
    <2>2. /\ g \in Goroutine /\ g.pc = "delay" /\ g.then = go[w].then /\ g.name = go[w].name
          /\ g.agent = a
      BY <2>1 DEF Goroutine, Stages
    <2> HIDE DEF g
    <2>3. PICK long \in BOOLEAN : /\ ~Gone(a) /\ ~GivesUp(AfterExit(record[a], long))
                                  /\ record' = [record EXCEPT ![a] = AfterExit(record[a], long)]
                                  /\ UNCHANGED <<running, wanted>>
      BY <1>7
    <2>4. a \in Agents /\ ~record[a].stopping /\ record[a] \in Record
      BY <2>3, Wanted DEF Sound, Types, RecordTypes
    <2> DEFINE q == AfterExit(record[a], long)
    <2>5. /\ q \in Record /\ (q.stopping <=> record[a].stopping) /\ q.slot = record[a].slot
          /\ q.done = record[a].done
          /\ \/ q.shorts = 0
             \/ ~record[a].bounced /\ record[a].resumed /\ q.fresh
                 /\ q.fails = record[a].fails /\ q.shorts = record[a].shorts + 1
             \/ ~record[a].bounced /\ ~record[a].resumed
                 /\ q.fails = record[a].fails + 1 /\ q.shorts = record[a].shorts + 1
      BY <2>3, <2>4, AfterAnExit
    <2> HIDE DEF q
    <2>6. RecordTypes' /\ record'[a] = q /\ \A b \in Agents : b # a => record'[b] = record[b]
      BY <2>3, <2>4, <2>5 DEF q, Sound, Types, RecordTypes
    <2>7. GoTypes' /\ Others(w) /\ go'[w] = g
      BY <1>1, <2>1, <2>2, Moved
    <2>8. ExitsAgain(w)
      BY <1>2, <2>2, <2>3, <2>4, <2>5, <2>6, <2>7 DEF ExitsAgain
    <2> QED BY <1>1, <2>6, <2>7, <2>8
  <1> QED BY <1>1, <1>2, <1>3, <1>4, <1>5, <1>6, <1>7 DEF Exit

LEMMA DelayStoppedEffect ==
  ASSUME Sound, NEW w \in Slots, DelayStopped(w)
  PROVE  /\ go[w].pc = "delay" /\ go[w].agent \in Agents /\ record[go[w].agent].stopping
         /\ UNCHANGED <<hostVars, alive, diskVars, wanted>>
         /\ RecordTypes' /\ GoTypes' /\ Others(w) /\ Holds(w)
         /\ go'[w].pc = "save" /\ go'[w].then = "done"
         /\ IF Its(w) = go[w].agent THEN Forgets(go[w].name) ELSE UNCHANGED <<running, record>>
  <1>1. /\ go[w].pc = "delay" /\ go[w].agent \in Agents /\ record[go[w].agent].stopping
        /\ w \in Goroutines /\ go[w].name \in Names
        /\ UNCHANGED <<hostVars, alive, diskVars, wanted>>
    BY Kinds DEF DelayStopped, At, Sound, Staged, Saves
  <1>2. PICK n \in Names : n = go[w].name
    BY <1>1
  <1>3. RecordTypes' /\ IF Its(w) = go[w].agent THEN Forgets(n) ELSE UNCHANGED <<running, record>>
    <2>1. IF Its(w) = go[w].agent THEN Forget(n) ELSE UNCHANGED <<running, record>>
      BY <1>2 DEF DelayStopped
    <2>2. CASE Forget(n)
      BY <2>1, <2>2, Forgotten DEF Forgets, Sound, Types
    <2> QED BY <2>1, <2>2 DEF Sound, Types, RecordTypes
  <1> DEFINE g == [go[w] EXCEPT !.pc = "save", !.then = "done"]
  <1>4. go' = [go EXCEPT ![w] = g] /\ go[w] \in Goroutine
    BY <1>1 DEF DelayStopped, SaveThen, Sound, Types, GoTypes
  <1>5. /\ g \in Goroutine /\ g.pc = "save" /\ g.then = "done" /\ g.name = go[w].name
        /\ g.agent = go[w].agent
    BY <1>4 DEF Goroutine, Stages
  <1> HIDE DEF g
  <1>6. GoTypes' /\ Others(w) /\ go'[w] = g
    BY <1>1, <1>4, <1>5, Moved
  <1> QED BY <1>1, <1>2, <1>3, <1>5, <1>6 DEF Holds

\* A stop marks the record; without a process it is over at once, for there is
\* nothing to wait for.
LEMMA StopEffect ==
  ASSUME Sound, NEW t \in Goroutines, NEW n \in Names, Stop(t, n)
  PROVE  LET a == running[n] IN
         /\ Obeys(t) \/ (t = Main /\ phase = "closing" /\ At(t, "idle"))
         /\ a \in Agents /\ ~record[a].stopping
         /\ UNCHANGED <<hostVars, running, diskVars>>
         /\ wanted' \subseteq wanted /\ (t # Main => a \notin wanted')
         /\ alive' = alive \ {record[a].slot}
         /\ RecordTypes' /\ GoTypes'
         /\ \A b \in Agents : b # a => record'[b] = record[b]
         /\ record'[a].stopping /\ record'[a].slot = record[a].slot
         /\ record'[a].done = record[a].done /\ record'[a].shorts = record[a].shorts
         /\ record'[a].fails = record[a].fails
         /\ record'[a].resumed => record[a].resumed
         /\ record[a].bounced => record'[a].bounced
         /\ record[a].fresh => record'[a].fresh
         /\ \/ record[a].slot # None /\ UNCHANGED go
            \/ /\ record[a].slot = None /\ Others(t)
               /\ go'[t].pc = "unlaunched" /\ go'[t].name = n /\ go'[t].agent = a
               /\ go'[t].then = "idle"
  <1>1. PICK a \in Agents : a = running[n] /\ ~record[a].stopping
    BY Wanted DEF Stop
  <1>2. /\ Obeys(t) \/ (t = Main /\ phase = "closing" /\ At(t, "idle"))
        /\ UNCHANGED <<hostVars, running, diskVars>>
        /\ wanted' \subseteq wanted /\ (t # Main => a \notin wanted')
        /\ alive' = alive \ {record[a].slot}
        /\ record' = [record EXCEPT ![a].stopping = TRUE]
    BY <1>1 DEF Stop
  <1> DEFINE r == [record[a] EXCEPT !.stopping = TRUE]
  <1>3. record' = [record EXCEPT ![a] = r] /\ record[a] \in Record
    BY <1>1, <1>2 DEF Sound, Types, RecordTypes
  <1>4. /\ r \in Record /\ r.stopping /\ r.slot = record[a].slot /\ r.done = record[a].done
        /\ r.shorts = record[a].shorts /\ r.fails = record[a].fails
        /\ (r.resumed <=> record[a].resumed) /\ (r.bounced <=> record[a].bounced)
        /\ (r.fresh <=> record[a].fresh)
    BY <1>3 DEF Record
  <1> HIDE DEF r
  <1>5. /\ RecordTypes' /\ record'[a] = r
        /\ \A b \in Agents : b # a => record'[b] = record[b]
    BY <1>1, <1>2, <1>3, <1>4 DEF Sound, Types, RecordTypes
  <1>6. CASE record[a].slot # None
    <2>1. UNCHANGED go
      BY <1>1, <1>6 DEF Stop, Unlaunched
    <2> QED BY <1>1, <1>2, <1>4, <1>5, <1>6, <2>1 DEF Sound, Types, GoTypes
  <1>7. CASE record[a].slot = None
    <2> DEFINE g == [Rest EXCEPT !.pc = "unlaunched", !.name = n, !.agent = a]
    <2>1. go' = [go EXCEPT ![t] = g]
      BY <1>1, <1>7 DEF Stop, Unlaunched
    <2>2. /\ g \in Goroutine /\ g.pc = "unlaunched" /\ g.name = n /\ g.agent = a
          /\ g.then = "idle"
      BY <1>1, Resting DEF Goroutine, Rest, Stages
    <2> HIDE DEF g
    <2>3. GoTypes' /\ Others(t) /\ go'[t] = g
      BY <2>1, <2>2, Moved
    <2> QED BY <1>1, <1>2, <1>4, <1>5, <1>7, <2>2, <2>3
  <1> QED BY <1>6, <1>7

LEMMA StopUnlaunchedEffect ==
  ASSUME Sound, NEW t \in Goroutines, StopUnlaunched(t)
  PROVE  /\ go[t].pc = "unlaunched" /\ t \in Launchers
         /\ UNCHANGED <<hostVars, alive, diskVars, wanted>>
         /\ RecordTypes' /\ GoTypes' /\ Forgets(go[t].name) /\ Others(t) /\ Holds(t)
         /\ go'[t].pc = "save" /\ go'[t].then = "done"
  <1>1. /\ go[t].pc = "unlaunched" /\ t \in Launchers /\ go[t].name \in Names
        /\ UNCHANGED <<hostVars, alive, diskVars, wanted>>
    BY Kinds DEF StopUnlaunched, At, Sound, Staged, Saves, Supervises
  <1>2. RecordTypes' /\ Forgets(go[t].name)
    <2>1. PICK n \in Names : n = go[t].name /\ Forget(n)
      BY <1>1 DEF StopUnlaunched
    <2>2. RecordTypes' /\ Forgets(n)
      BY <2>1, Forgotten DEF Forgets, Sound, Types
    <2> QED BY <2>1, <2>2
  <1> DEFINE g == [go[t] EXCEPT !.pc = "save", !.then = "done"]
  <1>3. go' = [go EXCEPT ![t] = g] /\ go[t] \in Goroutine
    BY <1>1 DEF StopUnlaunched, SaveThen, Sound, Types, GoTypes
  <1>4. /\ g \in Goroutine /\ g.pc = "save" /\ g.then = "done" /\ g.name = go[t].name
        /\ g.agent = go[t].agent
    BY <1>3 DEF Goroutine, Stages
  <1> HIDE DEF g
  <1>5. GoTypes' /\ Others(t) /\ go'[t] = g
    BY <1>3, <1>4, Moved
  <1> QED BY <1>1, <1>2, <1>4, <1>5 DEF Holds

LEMMA BounceEffect ==
  ASSUME Sound, NEW o \in Obeyers, NEW n \in Names, NEW fresh \in BOOLEAN, Bounce(o, n, fresh)
  PROVE  LET a == running[n] IN
         /\ a \in Agents /\ ~record[a].stopping /\ record[a].slot # None
         /\ UNCHANGED <<hostVars, running, go, diskVars, wanted>>
         /\ alive' = alive \ {record[a].slot}
         /\ RecordTypes'
         /\ \A b \in Agents : b # a => record'[b] = record[b]
         /\ ~record'[a].stopping /\ record'[a].slot = record[a].slot
         /\ record'[a].done = record[a].done /\ record'[a].shorts = record[a].shorts
         /\ record'[a].fails = record[a].fails /\ record'[a].bounced
         /\ record[a].fresh => record'[a].fresh
  <1>1. PICK a \in Agents : a = running[n] /\ ~record[a].stopping
    BY Wanted DEF Bounce
  <1>2. /\ record[a].slot # None
        /\ UNCHANGED <<hostVars, running, go, diskVars, wanted>>
        /\ alive' = alive \ {record[a].slot}
        /\ fresh => record[a].cleared < MaxFresh
    BY <1>1 DEF Bounce, Sound, Types, RecordTypes, Record
  <1>3. record[a] \in Record
    BY <1>1 DEF Sound, Types, RecordTypes
  <1> DEFINE q == [record[a] EXCEPT !.bounced = TRUE]
             f == [q EXCEPT !.fresh = TRUE, !.session = NoConversation, !.cleared = @ + 1]
  <1>4. record' = [record EXCEPT ![a] = IF fresh THEN f ELSE q]
    BY <1>1 DEF Bounce
  <1>5. /\ q \in Record /\ ~q.stopping /\ q.slot = record[a].slot /\ q.done = record[a].done
        /\ q.shorts = record[a].shorts /\ q.fails = record[a].fails /\ q.bounced
        /\ (record[a].fresh <=> q.fresh) /\ q.cleared = record[a].cleared
    BY <1>1, <1>3 DEF Record
  <1>6. fresh =>
        /\ f \in Record /\ ~f.stopping /\ f.slot = record[a].slot /\ f.done = record[a].done
        /\ f.shorts = record[a].shorts /\ f.fails = record[a].fails /\ f.bounced /\ f.fresh
    <2> SUFFICES ASSUME fresh
                 PROVE  /\ f \in Record /\ ~f.stopping /\ f.slot = record[a].slot
                        /\ f.done = record[a].done /\ f.shorts = record[a].shorts
                        /\ f.fails = record[a].fails /\ f.bounced /\ f.fresh
      OBVIOUS
    <2> DEFINE c == q.cleared + 1
    <2>1. q.cleared \in 0..MaxFresh /\ q.cleared < MaxFresh
      BY <1>2, <1>5 DEF Record
    <2>2. c \in 0..MaxFresh
      BY <2>1, Kinds
    <2>3. f = [q EXCEPT !.fresh = TRUE, !.session = NoConversation, !.cleared = c]
      OBVIOUS
    <2> HIDE DEF c, f, q
    <2>4. f \in Record
      BY <1>5, <2>2, <2>3, Kinds DEF Record
    <2>5. /\ f.stopping = q.stopping /\ f.slot = q.slot /\ f.done = q.done
          /\ f.shorts = q.shorts /\ f.fails = q.fails /\ f.bounced = q.bounced /\ f.fresh
      BY <1>5, <2>3 DEF Record
    <2> QED BY <1>5, <2>4, <2>5
  <1> DEFINE r == IF fresh THEN f ELSE q
  <1> HIDE DEF f, q
  <1>7. /\ r \in Record /\ ~r.stopping /\ r.slot = record[a].slot /\ r.done = record[a].done
        /\ r.shorts = record[a].shorts /\ r.fails = record[a].fails /\ r.bounced
        /\ record[a].fresh => r.fresh
    BY <1>5, <1>6
  <1>8. record' = [record EXCEPT ![a] = r]
    BY <1>4
  <1> HIDE DEF r
  <1>9. /\ RecordTypes' /\ record'[a] = r
        /\ \A b \in Agents : b # a => record'[b] = record[b]
    BY <1>1, <1>2, <1>7, <1>8 DEF Sound, Types, RecordTypes
  <1> QED BY <1>1, <1>2, <1>7, <1>9

\* A watcher begins to save.
LEMMA WatchEffect ==
  ASSUME Sound, NEW k \in Watchers, NEW w \in Slots, Remember(k, w) \/ Reading(k, w)
  PROVE  /\ go[k].pc = "idle"
         /\ UNCHANGED <<hostVars, running, alive, diskVars, wanted>>
         /\ RecordTypes' /\ GoTypes' /\ (\A b \in Agents : Kept(b))
         /\ Others(k) /\ Holds(k) /\ go'[k].pc = "save" /\ go'[k].then = go[k].then
  <1>1. k \in Goroutines /\ w \in Goroutines /\ "save" \in Stages
    BY Kinds DEF Stages
  <1>2. go[k].pc = "idle" /\ UNCHANGED <<hostVars, running, alive, diskVars, wanted>>
    BY DEF Remember, Reading, At
  <1>3. Goto(k, "save")
    BY DEF Remember, Reading, Goto
  <1>4. GoTypes' /\ Others(k) /\ Holds(k) /\ go'[k].pc = "save" /\ go'[k].then = go[k].then
    BY <1>1, <1>3, Going
  <1>5. RecordTypes' /\ \A b \in Agents : Kept(b)
    <2>1. CASE Reading(k, w)
      BY <1>2, <2>1 DEF Reading, Sound, Types, RecordTypes, Kept
    <2>2. CASE Remember(k, w)
      <3>1. PICK a \in Agents, talk \in Conversations :
              record' = [record EXCEPT ![a].session = talk]
        <4>1. go[w].pc \in {"waiting", "delay"} /\ Its(w) # None
              /\ record' = [record EXCEPT ![Its(w)].session = go[w].talk]
          BY <2>2 DEF Remember
        <4>2. Its(w) \in Agents
          BY <1>1, <4>1, Named DEF Saves
        <4>3. go[w].talk \in Conversations
          BY <1>1 DEF Sound, Types, GoTypes, Goroutine
        <4> QED BY <4>1, <4>2, <4>3
      <3> DEFINE r == [record[a] EXCEPT !.session = talk]
      <3>2. record' = [record EXCEPT ![a] = r] /\ record[a] \in Record
        BY <3>1 DEF Sound, Types, RecordTypes
      <3>3. /\ r \in Record /\ r.slot = record[a].slot /\ r.done = record[a].done
            /\ r.shorts = record[a].shorts /\ r.fails = record[a].fails
            /\ (r.stopping <=> record[a].stopping) /\ (r.fresh <=> record[a].fresh)
            /\ (r.resumed <=> record[a].resumed) /\ (r.bounced <=> record[a].bounced)
        BY <3>2 DEF Record
      <3> HIDE DEF r
      <3>4. /\ RecordTypes' /\ record'[a] = r
            /\ \A b \in Agents : b # a => record'[b] = record[b]
        BY <1>2, <3>2, <3>3 DEF Sound, Types, RecordTypes
      <3> QED BY <3>3, <3>4 DEF Kept
    <2> QED BY <2>1, <2>2
  <1> QED BY <1>2, <1>4, <1>5

\* What follows a save.
Closes(a) ==
  /\ \A b \in Agents : b # a => record'[b] = record[b]
  /\ record'[a].done = record[a].done + 1
  /\ record'[a].slot = record[a].slot /\ record'[a].shorts = record[a].shorts
  /\ record'[a].fails = record[a].fails
  /\ record'[a].stopping <=> record[a].stopping
  /\ record'[a].fresh <=> record[a].fresh
  /\ record'[a].resumed <=> record[a].resumed
  /\ record'[a].bounced <=> record[a].bounced
Returned(t) ==
  LET a == go[t].agent IN
  /\ Others(t) /\ go'[t] = Rest
  /\ IF go[t].then = "done" THEN a \in Agents /\ Closes(a) ELSE UNCHANGED record
  /\ \/ UNCHANGED wanted
     \/ /\ go[t].then = "begun" /\ a = Its(t) /\ a \in Agents /\ ~record[a].stopping
        /\ phase # "closing" /\ wanted' = wanted \cup {a}

LEMMA ReturnEffect ==
  ASSUME Sound, NEW t \in Goroutines, Return(t), UNCHANGED running
  PROVE  RecordTypes' /\ GoTypes' /\ Returned(t)
  <1>1. GoTypes' /\ Others(t) /\ go'[t] = Rest
    BY Ending DEF Return
  <1>2. CASE go[t].then = "done"
    <2>1. PICK a \in Agents : a = go[t].agent
      BY <1>2 DEF Sound, Staged
    <2> DEFINE k == record[a].done + 1
               r == [record[a] EXCEPT !.done = k]
    <2>2. record' = [record EXCEPT ![a] = r] /\ record[a] \in Record /\ UNCHANGED wanted
      BY <1>2, <2>1 DEF Return, Sound, Types, RecordTypes
    <2>3. k \in Nat
      BY <2>2 DEF Record
    <2> HIDE DEF k
    <2>4. /\ r \in Record /\ r.slot = record[a].slot /\ r.done = k
          /\ r.shorts = record[a].shorts /\ r.fails = record[a].fails
          /\ (r.stopping <=> record[a].stopping) /\ (r.fresh <=> record[a].fresh)
          /\ (r.resumed <=> record[a].resumed) /\ (r.bounced <=> record[a].bounced)
      BY <2>2, <2>3 DEF Record
    <2> HIDE DEF r
    <2>5. /\ RecordTypes' /\ record'[a] = r
          /\ \A b \in Agents : b # a => record'[b] = record[b]
      BY <2>2, <2>4 DEF Sound, Types, RecordTypes
    <2>6. Closes(a)
      BY <2>4, <2>5 DEF Closes, k
    <2> QED BY <1>1, <1>2, <2>1, <2>2, <2>5, <2>6 DEF Returned
  <1>3. CASE go[t].then # "done"
    <2>1. UNCHANGED record /\ RecordTypes'
      BY <1>3 DEF Return, Sound, Types, RecordTypes
    <2>2. \/ UNCHANGED wanted
          \/ /\ go[t].then = "begun" /\ go[t].agent = Its(t) /\ ~Gone(go[t].agent)
             /\ phase # "closing" /\ wanted' = wanted \cup {go[t].agent}
      BY DEF Return
    <2> QED BY <1>1, <1>3, <2>1, <2>2, Wanted DEF Returned
  <1> QED BY <1>2, <1>3

LEMMA SaveLockEffect ==
  ASSUME Sound, NEW t \in Goroutines, SaveLock(t)
  PROVE  /\ go[t].pc = "save" /\ writer = Nobody
         /\ UNCHANGED <<hostVars, running, alive, snapshot, file, health, failures>>
         /\ RecordTypes' /\ GoTypes'
         /\ \/ phase = "closing" /\ Returned(t) /\ UNCHANGED writer
            \/ /\ phase # "closing" /\ writer' = t /\ UNCHANGED <<record, wanted>>
               /\ Others(t) /\ Holds(t) /\ go'[t].pc = "records" /\ go'[t].then = go[t].then
  <1>1. /\ go[t].pc = "save" /\ writer = Nobody
        /\ UNCHANGED <<hostVars, running, alive, snapshot, file, health, failures>>
        /\ "records" \in Stages
    BY DEF SaveLock, At, Unlocked, Stages
  <1>2. CASE phase = "closing" /\ Return(t) /\ UNCHANGED writer
    BY <1>1, <1>2, ReturnEffect
  <1>3. CASE phase # "closing" /\ writer' = t /\ Goto(t, "records") /\ UNCHANGED <<record, wanted>>
    BY <1>1, <1>3, Going DEF Sound, Types, RecordTypes
  <1> QED BY <1>2, <1>3 DEF SaveLock

LEMMA SaveRecordsEffect ==
  ASSUME Sound, NEW t \in Goroutines, SaveRecords(t)
  PROVE  /\ go[t].pc = "records"
         /\ UNCHANGED <<hostVars, running, record, alive, writer, file, health, failures, wanted>>
         /\ snapshot' \in [Goroutines -> [Names -> Entry]]
         /\ \A u \in Goroutines : u # t => snapshot'[u] = snapshot[u]
         /\ \A n \in Names : snapshot'[t][n].agent = running[n]
         /\ GoTypes' /\ Others(t) /\ Holds(t) /\ go'[t].pc = "write" /\ go'[t].then = go[t].then
  <1>1. /\ go[t].pc = "records" /\ Goto(t, "write") /\ "write" \in Stages
        /\ UNCHANGED <<hostVars, running, record, alive, writer, file, health, failures, wanted>>
        /\ snapshot' = [snapshot EXCEPT ![t] = Records]
    BY DEF SaveRecords, At, Stages
  <1>2. Records \in [Names -> Entry] /\ \A n \in Names : Records[n].agent = running[n]
    <2>1. NoEntry \in Entry /\ NoEntry.agent = None
      BY Kinds DEF NoEntry, Entry
    <2>2. \A n \in Names : running[n] # None =>
            [agent |-> running[n], session |-> record[running[n]].session] \in Entry
      BY DEF Sound, Types, RecordTypes, Record, Entry
    <2> QED BY <2>1, <2>2 DEF Records
  <1>3. GoTypes' /\ Others(t) /\ Holds(t) /\ go'[t].pc = "write" /\ go'[t].then = go[t].then
    BY <1>1, Going
  <1> QED BY <1>1, <1>2, <1>3 DEF Sound, Types, DiskTypes

LEMMA SaveWriteEffect ==
  ASSUME Sound, NEW t \in Goroutines, SaveWrite(t)
  PROVE  /\ go[t].pc = "write"
         /\ UNCHANGED <<hostVars, running, alive>>
         /\ \/ file' = snapshot[t] /\ health' /\ health' \in BOOLEAN /\ UNCHANGED failures
            \/ /\ UNCHANGED file /\ ~health' /\ health' \in BOOLEAN
               /\ failures < MaxFailures /\ failures' = failures + 1
         /\ writer' = Nobody
         /\ snapshot' \in [Goroutines -> [Names -> Entry]]
         /\ \A u \in Goroutines : u # t => snapshot'[u] = snapshot[u]
         /\ \A n \in Names : snapshot'[t][n].agent = None
         /\ RecordTypes' /\ GoTypes' /\ Returned(t)
  <1>1. /\ go[t].pc = "write" /\ UNCHANGED <<hostVars, running, alive>> /\ writer' = Nobody
        /\ \/ file' = snapshot[t] /\ health' /\ health' \in BOOLEAN /\ UNCHANGED failures
           \/ /\ UNCHANGED file /\ ~health' /\ health' \in BOOLEAN
              /\ failures < MaxFailures /\ failures' = failures + 1
        /\ snapshot' = [snapshot EXCEPT ![t] = NoEntries] /\ Return(t)
    BY DEF SaveWrite, At
  <1>2. RecordTypes' /\ GoTypes' /\ Returned(t)
    BY <1>1, ReturnEffect
  <1> QED BY <1>1, <1>2, Resting DEF Sound, Types, DiskTypes

\* A new process has what the state file says, and no goroutine at work.
LEMMA RestartEffect ==
  ASSUME Sound, Restart
  PROVE  /\ crashes' \in 0..MaxCrashes /\ phase' = "restoring" /\ alive' = {}
         /\ UNCHANGED <<obeyer, past, created, file, failures>>
         /\ writer' = Nobody /\ health' /\ health' \in BOOLEAN
         /\ RecordTypes' /\ GoTypes' /\ \A t \in Goroutines : go'[t] = Rest
         /\ \A n \in Names : running'[n] = file[n].agent
         /\ todo' = {n \in Names : file[n].agent # None}
         /\ \A a \in Agents : /\ record'[a].slot = None /\ ~record'[a].stopping
                              /\ record'[a].done = 0 /\ record'[a].shorts = 0
         /\ snapshot' \in [Goroutines -> [Names -> Entry]]
         /\ \A t \in Goroutines, n \in Names : snapshot'[t][n].agent = None
         /\ wanted' \subseteq wanted /\ (~health => \A a \in wanted' : Saved(a))
  <1>1. /\ crashes' \in 0..MaxCrashes /\ phase' = "restoring" /\ alive' = {}
        /\ UNCHANGED <<obeyer, past, created, file, failures>>
        /\ writer' = Nobody /\ health' /\ health' \in BOOLEAN
        /\ todo' = {n \in Names : file[n].agent # None}
    <2>1. crashes \in 0..MaxCrashes /\ crashes < MaxCrashes /\ crashes' = crashes + 1
      BY DEF Restart, Sound, Types, HostTypes
    <2>2. crashes' \in 0..MaxCrashes
      BY <2>1, Kinds
    <2>3. /\ phase' = "restoring" /\ alive' = {} /\ writer' = Nobody /\ health' = TRUE
          /\ UNCHANGED <<obeyer, past, created, file, failures>>
          /\ todo' = {n \in Names : file[n].agent # None}
      BY DEF Restart
    <2> QED BY <2>2, <2>3
  <1>2. GoTypes' /\ \A t \in Goroutines : go'[t] = Rest
    BY Resting DEF Restart, GoTypes
  <1>3. /\ snapshot' \in [Goroutines -> [Names -> Entry]]
        /\ \A t \in Goroutines, n \in Names : snapshot'[t][n].agent = None
    <2>1. snapshot' = [t \in Goroutines |-> NoEntries]
      BY DEF Restart
    <2> QED BY <2>1, Resting
  <1>4. /\ running' \in [Names -> Agents \cup {None}]
        /\ \A n \in Names : running'[n] = file[n].agent
    <2>1. running' = [n \in Names |-> file[n].agent]
      BY DEF Restart, Reserved
    <2> QED BY <2>1 DEF Sound, Types, DiskTypes, Entry
  <1>5. \A a \in Agents : Saved(a) => SavedSession(a) \in Conversations
    <2> SUFFICES ASSUME NEW a \in Agents, Saved(a) PROVE SavedSession(a) \in Conversations
      OBVIOUS
    <2>1. (CHOOSE n \in Names : file[n].agent = a) \in Names
      BY DEF Saved
    <2> QED BY <2>1 DEF SavedSession, Sound, Types, DiskTypes, Entry
  <1>6. PICK s \in [Agents -> Conversations], c \in [Agents -> 0..MaxFresh] :
          record' = [a \in Agents |-> [Unused EXCEPT !.session = s[a], !.cleared = c[a]]]
    <2> DEFINE s == [a \in Agents |-> IF Saved(a) THEN SavedSession(a) ELSE NoConversation]
               c == [a \in Agents |-> record[a].cleared]
    <2>1. s \in [Agents -> Conversations]
      BY <1>5, Kinds
    <2>2. c \in [Agents -> 0..MaxFresh]
      BY DEF Sound, Types, RecordTypes, Record
    <2>3. record' = [a \in Agents |-> [Unused EXCEPT !.session = s[a], !.cleared = c[a]]]
      BY DEF Restart
    <2> QED BY <2>1, <2>2, <2>3
  <1>7. /\ record' \in [Agents -> Record]
        /\ \A a \in Agents : /\ record'[a].slot = None /\ ~record'[a].stopping
                             /\ record'[a].done = 0 /\ record'[a].shorts = 0
    <2>1. \A a \in Agents :
            LET r == [Unused EXCEPT !.session = s[a], !.cleared = c[a]] IN
            r \in Record /\ r.slot = None /\ ~r.stopping /\ r.done = 0 /\ r.shorts = 0
      BY <1>6, Resting, Kinds DEF Record, Unused
    <2> QED BY <1>6, <2>1
  <1>8. wanted' \subseteq wanted /\ (~health => \A a \in wanted' : Saved(a))
    BY DEF Restart
  <1> QED BY <1>1, <1>2, <1>3, <1>4, <1>7, <1>8 DEF RecordTypes

-----------------------------------------------------------------------------
(* Types, and what each kind of goroutine is at.                           *)

\* A step of one goroutine keeps the stages if that goroutine is at one of its own.
StagedAt(g, t) ==
  /\ g.pc = "idle" => g = Rest
  /\ t \in Launchers => g.pc \in {"idle", "unlaunched"} \cup Begins \cup Saves
  /\ t \in Slots => g.pc \in {"idle"} \cup Supervises \cup Saves
  /\ t \in Watchers => g.pc \in {"idle"} \cup Saves
  /\ g.pc \notin {"idle"} \cup Saves => g.name \in Names
  /\ g.then \in {"idle", "done", "begun"}
  /\ g.then = "begun" => t \in Launchers /\ g.name \in Names
  /\ g.then # "idle" => g.pc \in Saves
  /\ g.pc \in {"delay", "unlaunched"} \/ g.then = "done" => g.agent \in Agents
  /\ g.pc = "commit" => g.slot \in Slots

LEMMA StagedIs == Staged <=> \A t \in Goroutines : StagedAt(go[t], t)
  BY DEF Staged, StagedAt, At

LEMMA StagedIsNext == Staged' <=> \A t \in Goroutines : StagedAt(go'[t], t)
  BY DEF Staged, StagedAt, At

LEMMA RestStaged == \A t \in Goroutines : StagedAt(Rest, t)
  BY Resting, Kinds DEF StagedAt, Saves

LEMMA StagedInit == Init => Staged
  BY RestStaged, StagedIs DEF Init

LEMMA StagedStep ==
  ASSUME Sound, Next
  PROVE  Staged'
  <1>0. \A t \in Goroutines : StagedAt(go[t], t)
    BY StagedIs DEF Sound
  <1>1. ASSUME NEW t \in Goroutines, Others(t), StagedAt(go'[t], t) PROVE Staged'
    BY <1>0, <1>1, StagedIsNext DEF Others
  <1>2. ASSUME UNCHANGED go PROVE Staged'
    BY <1>0, <1>2, StagedIsNext
  <1>3. CASE \E t \in Goroutines : LaunchStep(t)
    <2>1. PICK t \in Goroutines : LaunchStep(t)
      BY <1>3
    <2>2. CASE Launch(t)
      <3>1. Others(t) /\ StagedAt(go'[t], t)
        BY <1>0, <2>2, LaunchEffect, Named, Kinds
           DEF StagedAt, Saves, Begins, Supervises, Holds
      <3> QED BY <1>1, <3>1
    <2>3. CASE Commit(t)
      <3>1. CASE CommitFails(t)
        <4>1. Others(t) /\ StagedAt(go'[t], t)
          BY <1>0, <2>3, <3>1, CommitEffect, Named, Kinds
             DEF StagedAt, Saves, Begins, Supervises, Holds, CommitFails
        <4> QED BY <1>1, <4>1
      <3>2. CASE CommitWorks(t)
        <4> DEFINE s == go[t].slot
        <4>1. go[t].pc = "commit" /\ go[t].name \in Names /\ s \in Slots /\ s \in Goroutines
              /\ t \in Launchers \cup Slots
          BY <2>3, <3>2, CommitEffect, Named, Kinds DEF CommitWorks, Saves
        <4>2. s # t => StagedAt(go'[s], s)
          BY <3>2, <4>1, Kinds DEF StagedAt, CommitWorks, Saves, Supervises
        <4>3. StagedAt(go'[t], t)
          BY <1>0, <3>2, <4>1, RestStaged, Kinds DEF StagedAt, CommitWorks, Saves, Holds
        <4>4. \A u \in Goroutines : u \notin {s, t} => go'[u] = go[u]
          BY <3>2 DEF CommitWorks
        <4> HIDE DEF s
        <4> QED BY <1>0, <4>2, <4>3, <4>4, StagedIsNext
      <3> QED BY <2>3, <3>1, <3>2, CommitEffect
    <2>4. CASE ForgetFailed(t)
      BY <1>1, <2>4, ForgetFailedEffect, RestStaged
    <2> QED BY <2>1, <2>2, <2>3, <2>4 DEF LaunchStep
  <1>4. CASE \E t \in Goroutines : StopUnlaunched(t)
    <2>1. PICK t \in Goroutines : StopUnlaunched(t)
      BY <1>4
    <2>2. Others(t) /\ t \in Launchers /\ Holds(t) /\ go'[t].pc = "save" /\ go'[t].then = "done"
          /\ go[t].pc = "unlaunched"
      BY <2>1, StopUnlaunchedEffect
    <2>3. StagedAt(go'[t], t)
      BY <1>0, <2>2, Kinds DEF StagedAt, Saves, Holds
    <2> QED BY <1>1, <2>2, <2>3
  <1>5. CASE \E t \in Goroutines : SaveStep(t)
    <2>1. PICK t \in Goroutines : SaveStep(t)
      BY <1>5
    <2>2. CASE Returned(t)
      BY <1>1, <2>2, RestStaged DEF Returned
    <2>3. CASE Others(t) /\ Holds(t) /\ go[t].pc \in Saves /\ go'[t].pc \in {"records", "write"}
               /\ go'[t].then = go[t].then
      <3>1. StagedAt(go'[t], t)
        BY <1>0, <2>3 DEF StagedAt, Saves, Holds
      <3> QED BY <1>1, <2>3, <3>1
    <2> QED BY <2>1, <2>2, <2>3, SaveLockEffect, SaveRecordsEffect, SaveWriteEffect
            DEF SaveStep, Saves
  <1>6. CASE \E w \in Slots : WaitStep(w)
    <2>1. PICK w \in Slots : WaitStep(w)
      BY <1>6
    <2>2. w \in Goroutines /\ StagedAt(go[w], w) /\ w \notin Launchers /\ w \notin Watchers
      BY <1>0, Kinds
    <2>3. CASE Exit(w)
      <3>1. Others(w)
        BY <2>3, ExitEffect
      <3>2. CASE ExitsAlone(w)
        BY <1>1, <2>2, <3>1, <3>2, RestStaged DEF ExitsAlone
      <3>3. CASE ExitsStopped(w) \/ ExitsForGood(w) \/ ExitsAgain(w)
        <4>1. StagedAt(go'[w], w)
          BY <2>2, <2>3, <3>3, ExitEffect
             DEF StagedAt, ExitsStopped, ExitsForGood, ExitsAgain, Saves, Supervises, Holds
        <4> QED BY <1>1, <2>2, <3>1, <4>1
      <3> QED BY <2>3, <3>2, <3>3, ExitEffect
    <2>4. CASE DelayStopped(w)
      <3>1. Others(w) /\ StagedAt(go'[w], w)
        BY <2>2, <2>4, DelayStoppedEffect DEF StagedAt, Saves, Holds
      <3> QED BY <1>1, <2>2, <3>1
    <2>5. CASE CleanUp(w)
      <3>1. Others(w) /\ StagedAt(go'[w], w)
        BY <2>2, <2>5, CleanUpEffect, Named DEF StagedAt, Saves
      <3> QED BY <1>1, <2>2, <3>1
    <2> QED BY <2>1, <2>3, <2>4, <2>5 DEF WaitStep
  <1>7. CASE \E o \in Obeyers, n \in Names : Start(o, n)
    <2>1. PICK o \in Obeyers, n \in Names : Start(o, n)
      BY <1>7
    <2>2. o \in Goroutines /\ Others(o) /\ StagedAt(go'[o], o)
      BY <2>1, StartEffect, Kinds DEF StagedAt, Saves, Begins
    <2> QED BY <1>1, <2>2
  <1>8. CASE \E t \in Obeyers \cup {Main}, n \in Names : Stop(t, n)
    <2>1. PICK t \in Obeyers \cup {Main}, n \in Names : Stop(t, n)
      BY <1>8
    <2>2. t \in Goroutines /\ t \in Launchers /\ t \notin Slots /\ t \notin Watchers
      BY Kinds
    <2>3. CASE UNCHANGED go
      BY <1>2, <2>3
    <2>4. CASE ~UNCHANGED go
      <3>1. Others(t) /\ go'[t].pc = "unlaunched" /\ go'[t].name = n /\ go'[t].then = "idle"
            /\ go'[t].agent \in Agents
        BY <2>1, <2>2, <2>4, StopEffect
      <3>2. StagedAt(go'[t], t)
        BY <2>2, <3>1 DEF StagedAt, Saves
      <3> QED BY <1>1, <2>2, <3>1, <3>2
    <2> QED BY <2>3, <2>4
  <1>9. CASE \E n \in Names : RestoreNext(n)
    <2>1. PICK n \in Names : RestoreNext(n)
      BY <1>9
    <2>2. Others(Main) /\ StagedAt(go'[Main], Main)
      BY <2>1, RestoreNextEffect, Kinds DEF StagedAt, Saves, Begins
    <2> QED BY <1>1, <2>2, Kinds
  <1>10. CASE Restart
    BY <1>10, RestartEffect, RestStaged, StagedIsNext
  <1>11. CASE \E s \in Slots, k \in Watchers : Remember(k, s) \/ Reading(k, s)
    <2>1. PICK s \in Slots, k \in Watchers : Remember(k, s) \/ Reading(k, s)
      BY <1>11
    <2>2. k \in Goroutines /\ Others(k) /\ StagedAt(go'[k], k)
      BY <1>0, <2>1, WatchEffect, Resting, Kinds DEF StagedAt, Saves, Holds
    <2> QED BY <1>1, <2>2
  <1>12. CASE \/ \E o \in Obeyers, n \in Names, fresh \in BOOLEAN : Bounce(o, n, fresh)
              \/ \E o \in Obeyers : Reconnect(o)
              \/ RestoreDone \/ Shutdown \/ \E s \in Slots : Dies(s)
    BY <1>2, <1>12 DEF Bounce, Reconnect, RestoreDone, Shutdown, Dies
  <1> QED BY <1>3, <1>4, <1>5, <1>6, <1>7, <1>8, <1>9, <1>10, <1>11, <1>12, Parts

LEMMA TypesStep ==
  ASSUME Sound, Next
  PROVE  Types'
  <1>0. RecordTypes /\ GoTypes /\ DiskTypes /\ HostTypes
    BY DEF Sound, Types
  <1>1. ASSUME RecordTypes', GoTypes', UNCHANGED diskVars, HostTypes' PROVE Types'
    BY <1>0, <1>1 DEF Types, DiskTypes, diskVars
  <1>2. ASSUME UNCHANGED hostVars, alive' \subseteq Slots, wanted' \subseteq Agents PROVE HostTypes'
    BY <1>0, <1>2 DEF HostTypes, hostVars
  <1>3. alive \subseteq Slots /\ wanted \subseteq Agents
    BY <1>0 DEF HostTypes
  <1>4. ASSUME NEW t \in Goroutines, Returned(t) PROVE wanted' \subseteq Agents
    BY <1>3, <1>4 DEF Returned
  <1>5. CASE \E t \in Goroutines : LaunchStep(t) \/ StopUnlaunched(t)
    <2>1. PICK t \in Goroutines : LaunchStep(t) \/ StopUnlaunched(t)
      BY <1>5
    <2>2. CASE Launch(t)
      BY <1>1, <1>2, <1>3, <2>2, LaunchEffect
    <2>3. CASE Commit(t)
      BY <1>1, <1>2, <1>3, <2>3, CommitEffect
    <2>4. CASE ForgetFailed(t)
      BY <1>1, <1>2, <1>3, <2>4, ForgetFailedEffect
    <2>5. CASE StopUnlaunched(t)
      BY <1>1, <1>2, <1>3, <2>5, StopUnlaunchedEffect
    <2> QED BY <2>1, <2>2, <2>3, <2>4, <2>5 DEF LaunchStep
  <1>6. CASE \E t \in Goroutines : SaveStep(t)
    <2>1. PICK t \in Goroutines : SaveStep(t)
      BY <1>6
    <2>2. CASE SaveLock(t)
      <3>1. RecordTypes' /\ GoTypes' /\ UNCHANGED <<hostVars, alive, snapshot, file, health, failures>>
            /\ writer' \in Goroutines \cup {Nobody} /\ wanted' \subseteq Agents
        BY <2>2, <1>0, <1>3, <1>4, SaveLockEffect DEF DiskTypes
      <3> QED BY <1>0, <1>2, <1>3, <3>1 DEF Types, DiskTypes
    <2>3. CASE SaveRecords(t)
      <3>1. RecordTypes' /\ GoTypes' /\ UNCHANGED <<hostVars, alive, writer, file, health, failures, wanted>>
            /\ snapshot' \in [Goroutines -> [Names -> Entry]]
        BY <2>3, <1>0, SaveRecordsEffect DEF RecordTypes
      <3> QED BY <1>0, <1>2, <1>3, <3>1 DEF Types, DiskTypes
    <2>4. CASE SaveWrite(t)
      <3>1. RecordTypes' /\ GoTypes' /\ UNCHANGED <<hostVars, alive>> /\ wanted' \subseteq Agents
            /\ snapshot' \in [Goroutines -> [Names -> Entry]] /\ writer' = Nobody
            /\ health' \in BOOLEAN
        BY <2>4, <1>4, SaveWriteEffect DEF SaveWrite
      <3>2. file' \in [Names -> Entry] /\ failures' \in 0..MaxFailures
        BY <2>4, <1>0, SaveWriteEffect, Kinds DEF DiskTypes
      <3> QED BY <1>0, <1>2, <1>3, <3>1, <3>2 DEF Types, DiskTypes
    <2> QED BY <2>1, <2>2, <2>3, <2>4 DEF SaveStep
  <1>7. CASE \E w \in Slots : WaitStep(w)
    <2>1. PICK w \in Slots : WaitStep(w)
      BY <1>7
    <2>2. CASE Exit(w)
      <3>1. wanted' \subseteq Agents
        BY <2>2, <1>3, ExitEffect DEF ExitsAlone, ExitsStopped, ExitsForGood, ExitsAgain
      <3> QED BY <1>1, <1>2, <1>3, <2>2, <3>1, ExitEffect
    <2>3. CASE DelayStopped(w)
      BY <1>1, <1>2, <1>3, <2>3, DelayStoppedEffect
    <2>4. CASE CleanUp(w)
      BY <1>1, <1>2, <1>3, <2>4, CleanUpEffect
    <2> QED BY <2>1, <2>2, <2>3, <2>4 DEF WaitStep
  <1>8. CASE \E o \in Obeyers, n \in Names : Start(o, n)
    <2>1. PICK o \in Obeyers, n \in Names : Start(o, n)
      BY <1>8
    <2>2. RecordTypes' /\ GoTypes' /\ UNCHANGED <<phase, obeyer, past, todo, crashes, alive, diskVars, wanted>>
          /\ created' \in 0..MaxAgents
      BY <2>1, StartEffect DEF Agents
    <2> QED BY <1>0, <1>1, <2>2 DEF HostTypes
  <1>9. CASE \E t \in Obeyers \cup {Main}, n \in Names : Stop(t, n)
    <2>1. PICK t \in Obeyers \cup {Main}, n \in Names : t \in Goroutines /\ Stop(t, n)
      BY <1>9, Kinds
    <2> QED BY <1>1, <1>2, <1>3, <2>1, StopEffect
  <1>10. CASE \E n \in Names : RestoreNext(n)
    <2>1. PICK n \in Names : RestoreNext(n)
      BY <1>10
    <2>2. GoTypes' /\ UNCHANGED <<phase, obeyer, past, created, crashes, running, record, alive,
                                  diskVars, wanted>>
          /\ todo' = todo \ {n}
      BY <2>1, RestoreNextEffect
    <2> QED BY <1>0, <1>1, <2>2 DEF HostTypes, RecordTypes
  <1>11. CASE Restart
    <2>1. HostTypes'
      BY <1>0, <1>11, RestartEffect DEF HostTypes
    <2>2. DiskTypes'
      BY <1>0, <1>11, RestartEffect DEF DiskTypes
    <2> QED BY <1>11, <2>1, <2>2, RestartEffect DEF Types
  <1>12. CASE \E s \in Slots, k \in Watchers : Remember(k, s) \/ Reading(k, s)
    <2>1. PICK s \in Slots, k \in Watchers : Remember(k, s) \/ Reading(k, s)
      BY <1>12
    <2> QED BY <1>1, <1>2, <1>3, <2>1, WatchEffect
  <1>13. CASE \E o \in Obeyers, n \in Names, fresh \in BOOLEAN : Bounce(o, n, fresh)
    <2>1. PICK o \in Obeyers, n \in Names, fresh \in BOOLEAN : Bounce(o, n, fresh)
      BY <1>13
    <2>2. RecordTypes' /\ UNCHANGED <<hostVars, go, diskVars, wanted>> /\ alive' \subseteq alive
      BY <2>1, BounceEffect
    <2> QED BY <1>0, <1>1, <1>2, <1>3, <2>2 DEF GoTypes
  <1>14. CASE (\E o \in Obeyers : Reconnect(o)) \/ RestoreDone \/ Shutdown \/ \E s \in Slots : Dies(s)
    <2>1. UNCHANGED <<running, record, go, diskVars, wanted>>
      BY <1>14 DEF Reconnect, RestoreDone, Shutdown, Dies
    <2>2. HostTypes'
      BY <1>0, <1>14 DEF Reconnect, RestoreDone, Shutdown, Dies, hostVars, HostTypes
    <2> QED BY <1>0, <1>1, <2>1, <2>2 DEF RecordTypes, GoTypes
  <1> QED BY <1>5, <1>6, <1>7, <1>8, <1>9, <1>10, <1>11, <1>12, <1>13, <1>14, Parts

LEMMA TypesInit == Init => Types
  BY Resting, Kinds, BoundsAssumption
     DEF Init, Types, RecordTypes, GoTypes, DiskTypes, HostTypes

\* Every variable keeps to its values, and the goroutines of a kind to what that
\* kind does: only Start, Restore and Stop run on a connection or on Main, and a
\* wait goroutine has the name of an agent as long as it looks after one.
THEOREM TypeCorrect == Spec => []TypeOK
  <1>1. Init => Sound
    BY TypesInit, StagedInit DEF Sound
  <1>2. Sound /\ [Next]_vars => Sound'
    <2>1. ASSUME Sound, Next PROVE Sound'
      BY <2>1, TypesStep, StagedStep DEF Sound
    <2>2. ASSUME Sound, UNCHANGED vars PROVE Sound'
      <3>1. Types'
        BY <2>2 DEF Sound, Types, RecordTypes, GoTypes, DiskTypes, HostTypes, vars
      <3>2. Staged'
        BY <2>2, StagedIs, StagedIsNext DEF Sound, vars
      <3> QED BY <3>1, <3>2 DEF Sound
    <2> QED BY <2>1, <2>2
  <1>3. Sound => TypeOK
    BY DEF Sound, Types, RecordTypes, GoTypes, DiskTypes, HostTypes, TypeOK, Goroutine
  <1> QED BY <1>1, <1>2, <1>3, PTL DEF Spec

-----------------------------------------------------------------------------
(* The steps, by what they do to an agent's record.                        *)

\* A launch gets on, or fails, before the record has its process.
Launches(t) ==
  /\ UNCHANGED <<hostVars, running, diskVars, wanted>> /\ (\A b \in Agents : Kept(b))
  /\ Others(t) /\ Holds(t) /\ go'[t].then = go[t].then
  /\ \/ t \in Launchers /\ go[t].pc \in {"launch", "commit"} /\ go'[t].pc \in {"commit", "forget"}
     \/ t \in Slots /\ go[t].pc \in {"launch", "delay", "commit"} /\ go'[t].pc \in {"commit", "clean"}

\* The record gets it.
Commits(t) ==
  /\ UNCHANGED <<hostVars, running, diskVars, wanted>>
  /\ go[t].pc = "commit" /\ go[t].name \in Names /\ t \in Launchers \cup Slots /\ CommitWorks(t)

\* The record is forgotten by the one that looked after it, which may then have
\* a stop to report.
Leaves(t) ==
  /\ UNCHANGED <<hostVars, alive, diskVars>> /\ go[t].name \in Names
  /\ Forgets(go[t].name) /\ Others(t)
  /\ \/ t \in Slots /\ Supervising(t)
     \/ t \in Launchers /\ go[t].pc \in {"forget", "unlaunched"}
  /\ wanted' \subseteq wanted
  /\ Its(t) \in wanted' => record[Its(t)].stopping
  /\ go'[t].name \in {None, go[t].name} /\ go'[t].agent \in {None, Its(t), go[t].agent}
  /\ go'[t].agent \in Agents \/ t \notin Launchers \/ go'[t].pc = "idle"
  /\ \/ go'[t].pc = "idle" /\ go'[t].then = "idle"
     \/ go'[t].pc = "save" /\ go'[t].then = "idle"
     \/ /\ go'[t].pc = "save" /\ go'[t].then = "done"
        /\ go'[t].agent \in Agents /\ record[go'[t].agent].stopping
        /\ \/ t \in Slots /\ go'[t].agent = Its(t)
           \/ go[t].pc = "unlaunched" /\ go'[t].agent = go[t].agent

\* The process ended, and the agent is launched again.
Retries(w) ==
  /\ w \in Slots /\ go[w].pc = "waiting" /\ go[w].name \in Names
  /\ UNCHANGED <<hostVars, alive, diskVars>> /\ Others(w) /\ ExitsAgain(w)

\* A save, and what follows it.
Writes(t) ==
  /\ UNCHANGED <<hostVars, running, alive>> /\ Others(t)
  /\ go[t].pc \in {"idle"} \cup Saves /\ (go[t].pc = "idle" => t \in Watchers)
  /\ go'[t].pc \in {"idle"} \cup Saves
  /\ go'[t] = Rest \/ (Holds(t) /\ go'[t].pc # "idle" /\ go'[t].then = go[t].then)
  /\ \/ \A b \in Agents : Kept(b)
     \/ /\ go[t].then = "done" /\ go'[t] = Rest /\ go[t].agent \in Agents
        /\ Closes(go[t].agent)
  /\ \/ UNCHANGED wanted
     \/ /\ go[t].then = "begun" /\ go[t].agent = Its(t) /\ go[t].agent \in Agents
        /\ ~record[go[t].agent].stopping /\ wanted' = wanted \cup {go[t].agent}

\* A watch goroutine has something to save.
Watches(k) ==
  /\ UNCHANGED <<diskVars, hostVars, wanted>> /\ go[k].pc = "idle" /\ go'[k].pc = "save"
  /\ \A b \in Agents : Kept(b)

\* What the host and its processes do by themselves.
Happens ==
  /\ UNCHANGED <<running, record, go, diskVars, wanted, created, crashes, todo>>
  /\ RestoreDone \/ Shutdown \/ UNCHANGED phase
  /\ UNCHANGED alive \/ \E s \in Slots : go[s].pc = "waiting" /\ alive' = alive \ {s}

LEMMA Leaving ==
  ASSUME Sound, Numbered, Supervised, Owed, NEW t \in Goroutines,
         \/ ForgetFailed(t) \/ StopUnlaunched(t)
         \/ t \in Slots /\ (CleanUp(t) \/ DelayStopped(t))
         \/ t \in Slots /\ Exit(t) /\ (ExitsStopped(t) \/ ExitsForGood(t))
  PROVE  Leaves(t)
  <1>1. CASE ForgetFailed(t)
    BY <1>1, ForgetFailedEffect, Named, Resting, Kinds DEF Leaves, Saves
  <1>2. CASE StopUnlaunched(t)
    <2>1. go[t].agent \in Agents /\ record[go[t].agent].stopping /\ Its(t) \in {None, go[t].agent}
      BY <1>2, StopUnlaunchedEffect DEF Owed, Owes, At, Sound, Staged
    <2>2. None \notin wanted
      BY Kinds DEF Sound, Types, HostTypes
    <2> QED BY <1>2, <2>1, <2>2, StopUnlaunchedEffect, Named DEF Leaves, Saves, Holds
  <1>3. CASE t \in Slots /\ CleanUp(t)
    <2>1. Its(t) \in Agents
      BY <1>3, CleanUpEffect, Named, Kinds DEF Supervised, Supervising, Supervises, Saves
    <2> QED BY <1>3, <2>1, CleanUpEffect, Named, Kinds
            DEF Leaves, Saves, Supervising, Supervises
  <1>4. CASE t \in Slots /\ DelayStopped(t)
    <2>1. Its(t) = go[t].agent
      BY <1>4, DelayStoppedEffect DEF Supervised, Supervising, Supervises, At
    <2> QED BY <1>4, <2>1, DelayStoppedEffect, Named, Kinds
            DEF Leaves, Saves, Supervising, Supervises, Holds
  <1>5. CASE t \in Slots /\ Exit(t) /\ ExitsStopped(t)
    BY <1>5, ExitEffect, Named, Kinds DEF Leaves, ExitsStopped, Saves, Supervising, Supervises
  <1>6. CASE t \in Slots /\ Exit(t) /\ ExitsForGood(t)
    BY <1>6, ExitEffect, Named, Kinds
       DEF Leaves, ExitsForGood, Saves, Supervising, Supervises, Holds
  <1> QED BY <1>1, <1>2, <1>3, <1>4, <1>5, <1>6

LEMMA Launching ==
  ASSUME Sound, NEW t \in Goroutines, Launch(t) \/ Commit(t)
  PROVE  (Launch(t) /\ Launches(t)) \/ (Commit(t) /\ (Launches(t) \/ Commits(t)))
  <1>1. CASE Launch(t)
    <2>1. t \in Launchers => go[t].pc = "launch"
      BY <1>1, LaunchEffect DEF Sound, Staged, Begins, Saves
    <2> QED BY <1>1, <2>1, LaunchEffect, Kinds DEF Launches
  <1>2. CASE Commit(t) /\ CommitFails(t)
    BY <1>2, CommitEffect, Kinds DEF Launches, CommitFails, Kept
  <1>3. CASE Commit(t) /\ CommitWorks(t)
    BY <1>3, CommitEffect, Named DEF Commits, Saves
  <1> QED BY <1>1, <1>2, <1>3, CommitEffect

LEMMA Returning ==
  ASSUME Sound, NEW t \in Goroutines, go[t].pc \in Saves, Returned(t),
         UNCHANGED <<hostVars, running, alive>>
  PROVE  Writes(t)
  BY Resting DEF Returned, Writes, Kept, Saves

LEMMA Writing ==
  ASSUME Sound, NEW t \in Goroutines, SaveStep(t)
  PROVE  Writes(t)
  <1>1. CASE SaveLock(t)
    <2>1. CASE Returned(t)
      BY <1>1, <2>1, SaveLockEffect, Returning DEF Saves
    <2> QED BY <1>1, <2>1, SaveLockEffect DEF Writes, Saves, Kept
  <1>2. CASE SaveRecords(t)
    BY <1>2, SaveRecordsEffect DEF Writes, Saves, Kept
  <1>3. CASE SaveWrite(t)
    BY <1>3, SaveWriteEffect, Returning DEF Saves
  <1> QED BY <1>1, <1>2, <1>3 DEF SaveStep

LEMMA Classes ==
  ASSUME Sound, Numbered, Supervised, Owed, Next
  PROVE  \/ \E t \in Goroutines : (Launch(t) /\ Launches(t)) \/ (Commit(t) /\ (Launches(t) \/ Commits(t)))
                                  \/ Leaves(t) \/ (Writes(t) /\ (SaveStep(t) \/ Watches(t)))
         \/ \E w \in Slots : Retries(w)
         \/ \E o \in Obeyers, n \in Names : Start(o, n)
         \/ \E t \in Launchers, n \in Names : Stop(t, n)
         \/ \E o \in Obeyers, n \in Names, fresh \in BOOLEAN : Bounce(o, n, fresh)
         \/ \E n \in Names : RestoreNext(n)
         \/ Happens \/ Restart
  <1>1. CASE \E t \in Goroutines : LaunchStep(t) \/ StopUnlaunched(t) \/ SaveStep(t)
    <2>1. PICK t \in Goroutines : LaunchStep(t) \/ StopUnlaunched(t) \/ SaveStep(t)
      BY <1>1
    <2>2. CASE Launch(t) \/ Commit(t)
      BY <2>2, Launching
    <2>3. CASE ForgetFailed(t) \/ StopUnlaunched(t)
      BY <2>3, Leaving
    <2>4. CASE SaveStep(t)
      BY <2>4, Writing
    <2> QED BY <2>1, <2>2, <2>3, <2>4 DEF LaunchStep
  <1>2. CASE \E w \in Slots : WaitStep(w)
    <2>1. PICK w \in Slots : WaitStep(w)
      BY <1>2
    <2>2. CASE Exit(w)
      <3>1. go[w].pc = "waiting" /\ Its(w) # None /\ go[w].name \in Names /\ w \in Goroutines
        BY <2>2, ExitEffect, Named, Kinds DEF Supervised, Supervising, Supervises, Saves
      <3>2. CASE ExitsAgain(w)
        BY <2>2, <3>1, <3>2, ExitEffect DEF Retries
      <3> QED BY <2>2, <3>1, <3>2, ExitEffect, Leaving DEF ExitsAlone
    <2> QED BY <2>1, <2>2, Leaving, Kinds DEF WaitStep
  <1>3. CASE \E s \in Slots, k \in Watchers : Remember(k, s) \/ Reading(k, s)
    BY <1>3, WatchEffect, Kinds DEF Writes, Watches, Saves
  <1>4. CASE (\E o \in Obeyers : Reconnect(o)) \/ RestoreDone \/ Shutdown \/ \E s \in Slots : Dies(s)
    BY <1>4 DEF Reconnect, RestoreDone, Shutdown, Dies, Happens, hostVars, At
  <1>5. CASE \/ \E o \in Obeyers, n \in Names :
                  Start(o, n) \/ Stop(o, n) \/ \E fresh \in BOOLEAN : Bounce(o, n, fresh)
             \/ \E n \in Names : Stop(Main, n) \/ RestoreNext(n)
             \/ Restart
    BY <1>5, Kinds
  <1> QED BY <1>1, <1>2, <1>3, <1>4, <1>5, Parts

-----------------------------------------------------------------------------
(* Agents are numbered as they are asked for.                              *)

LEMMA OrderedInit == Init => Numbered /\ Phased /\ Supervised /\ Reserving /\ Owed /\ Locked
                              /\ Erased /\ Remembered /\ Tracked /\ Counted
  <1> SUFFICES ASSUME Init
               PROVE  Numbered /\ Phased /\ Supervised /\ Reserving /\ Owed /\ Locked
                      /\ Erased /\ Remembered /\ Tracked /\ Counted
    OBVIOUS
  <1>1. /\ phase = "serving" /\ alive = {} /\ writer = Nobody /\ health /\ todo = {}
        /\ created = 0 /\ wanted = {}
        /\ \A n \in Names : running[n] = None /\ file[n].agent = None
        /\ \A t \in Goroutines, n \in Names : snapshot[t][n].agent = None
        /\ \A a \in Agents : /\ record[a].slot = None /\ record[a].done = 0
                             /\ record[a].shorts = 0 /\ ~record[a].stopping
        /\ \A t \in Goroutines : go[t] = Rest
    BY Resting DEF Init
  <1>2. Numbered
    <2>1. \A t \in Goroutines : go[t].pc = "idle" /\ go[t].agent = None
      BY <1>1, Resting
    <2>2. None <= created
      BY <1>1, Kinds
    <2>3. Once(file) /\ \A t \in Goroutines : Once(snapshot[t])
      BY <1>1 DEF Once
    <2> QED BY <1>1, <2>1, <2>2, <2>3, Kinds DEF Numbered, At
  <1>3. Phased
    BY <1>1, Resting, Kinds DEF Phased, At, Begins
  <1>4. Supervised /\ Reserving
    <2>1. \A t \in Goroutines : go[t].pc = "idle"
      BY <1>1, Resting
    <2>2. \A t \in Launchers : t \in Goroutines
      BY Kinds DEF Launchers
    <2>3. Supervised
      BY <1>1, <2>1, <2>2, Kinds DEF Supervised, Supervising, Supervises, Begins
    <2> QED BY <2>1, <2>3 DEF Reserving, At
  <1>5. Owed /\ Locked
    <2>1. \A t \in Goroutines : go[t].pc = "idle" /\ go[t].then = "idle"
      BY <1>1, Resting
    <2>2. Owed
      BY <1>1, <2>1 DEF Owed, Owes, At
    <2>3. Locked
      BY <1>1, <2>1, Kinds DEF Locked
    <2> QED BY <2>2, <2>3
  <1>6. Erased /\ Remembered
    BY <1>1, Resting, Kinds DEF Erased, Gones, Remembered, WantedIsSaved, At
  <1>7. Tracked /\ Counted
    <2>1. \A t \in Goroutines : go[t].pc = "idle"
      BY <1>1, Resting
    <2>2. Tracked
      BY <1>1 DEF Tracked, ProcessesAreTracked
    <2>3. Counted
      BY <1>1, <2>1, Kinds DEF Counted, Supervising, Supervises
    <2> QED BY <2>2, <2>3
  <1> QED BY <1>2, <1>3, <1>4, <1>5, <1>6, <1>7

\* What is written, and when.
LEMMA DiskStep ==
  ASSUME Sound, Numbered, Supervised, Owed, Next
  PROVE  \/ UNCHANGED diskVars
         \/ Restart
         \/ \E t \in Goroutines : SaveLock(t) \/ SaveRecords(t) \/ SaveWrite(t)
  BY Parts DEF LaunchStep, Launch, Commit, ForgetFailed, StopUnlaunched, SaveStep, WaitStep,
               Exit, DelayStopped, CleanUp, Start, Stop, Bounce, Reconnect, RestoreNext,
               RestoreDone, Shutdown, Dies, Remember, Reading

LEMMA NumberedDisk ==
  ASSUME Sound, Numbered, Supervised, Owed, Next
  PROVE  /\ \A n \in Names : file'[n].agent <= created
         /\ \A t \in Goroutines, n \in Names : snapshot'[t][n].agent <= created
         /\ Once(file') /\ \A t \in Goroutines : Once(snapshot'[t])
  <1>0. created \in Nat /\ 0 <= created
    BY Kinds DEF Sound, Types, HostTypes
  <1>1. CASE UNCHANGED diskVars
    BY <1>1 DEF Numbered, diskVars
  <1>2. CASE Restart
    BY <1>0, <1>2, RestartEffect, Kinds DEF Numbered, Once
  <1>3. CASE \E t \in Goroutines : SaveLock(t)
    BY <1>3, SaveLockEffect DEF Numbered
  <1>4. CASE \E t \in Goroutines : SaveRecords(t)
    <2>1. PICK t \in Goroutines : SaveRecords(t)
      BY <1>4
    <2>2. Once(snapshot'[t])
      BY <2>1, SaveRecordsEffect DEF Numbered, Once
    <2> QED BY <2>1, <2>2, SaveRecordsEffect DEF Numbered
  <1>5. CASE \E t \in Goroutines : SaveWrite(t)
    <2>1. PICK t \in Goroutines : SaveWrite(t)
      BY <1>5
    <2>2. Once(snapshot'[t])
      BY <2>1, SaveWriteEffect DEF Once
    <2> QED BY <1>0, <2>1, <2>2, SaveWriteEffect, Kinds DEF Numbered
  <1> QED BY <1>1, <1>2, <1>3, <1>4, <1>5, DiskStep

\* What Numbered says of the goroutines and the names.
Begun ==
  /\ \A n \in Names : running[n] <= created
  /\ \A t \in Launchers : ~At(t, "idle") => go[t].agent \in Agents
  /\ \A t \in Goroutines : go[t].agent <= created
  /\ \A a \in wanted : a <= created
  /\ \A n, m \in Names : running[n] = running[m] /\ running[n] # None => n = m

LEMMA BegunStep ==
  ASSUME Sound, Numbered, Phased, Supervised, Owed, Next
  PROVE  Begun'
  <1>0. created \in Nat /\ None <= created /\ None \notin Agents
        /\ Rest.pc = "idle" /\ Rest.agent = None /\ Launchers \subseteq Goroutines
    BY Resting, Kinds DEF Sound, Types, HostTypes
  <1>1. Begun
    BY DEF Numbered, Begun
  <1>2. ASSUME UNCHANGED running, UNCHANGED created, NEW t \in Goroutines, Others(t),
               go'[t].agent <= created,
               t \in Launchers /\ go'[t].pc # "idle" => go'[t].agent \in Agents,
               \A a \in wanted' : a <= created
        PROVE  Begun'
    BY <1>0, <1>1, <1>2 DEF Begun, At, Others
  <1>3. CASE \E t \in Goroutines : Launches(t)
    <2>1. PICK t \in Goroutines : Launches(t)
      BY <1>3
    <2>2. /\ UNCHANGED running /\ UNCHANGED created /\ Others(t) /\ UNCHANGED wanted
          /\ go'[t].agent = go[t].agent /\ go[t].pc # "idle"
      BY <2>1 DEF Launches, hostVars, Holds
    <2> QED BY <1>1, <1>2, <2>2 DEF Begun, At
  <1>4. CASE \E t \in Goroutines : Commits(t)
    <2>1. PICK t \in Goroutines : Commits(t)
      BY <1>4
    <2> DEFINE s == go[t].slot
    <2>2. /\ UNCHANGED running /\ UNCHANGED created /\ UNCHANGED wanted
          /\ go[t].pc = "commit" /\ s \in Slots /\ s \notin Launchers
          /\ s # t => go'[s].agent = None
          /\ t \in Slots => go'[t] = Rest
          /\ t \notin Slots => go'[t].agent = go[t].agent
          /\ \A u \in Goroutines : u \notin {s, t} => go'[u] = go[u]
      BY <2>1, Kinds DEF Commits, CommitWorks, hostVars, Holds
    <2>3. \A u \in Goroutines : go'[u] = go[u] \/ go'[u].agent = None \/ (u = t /\ go'[u].agent = go[u].agent)
      BY <1>0, <2>2
    <2>4. \A u \in Launchers : u # t => go'[u] = go[u]
      BY <2>2, Kinds
    <2>5. t \in Launchers => go'[t].agent = go[t].agent
      BY <2>2, Kinds
    <2> HIDE DEF s
    <2> QED BY <1>0, <1>1, <2>2, <2>3, <2>4, <2>5, Kinds DEF Begun, At
  <1>5. CASE \E t \in Goroutines : Leaves(t)
    <2>1. PICK t \in Goroutines : Leaves(t)
      BY <1>5
    <2>2. PICK n \in Names : n = go[t].name
      BY <2>1 DEF Leaves
    <2>3. /\ UNCHANGED created /\ Others(t) /\ wanted' \subseteq wanted
          /\ go'[t].agent \in {None, Its(t), go[t].agent}
          /\ go'[t].agent \in Agents \/ t \notin Launchers \/ go'[t].pc = "idle"
          /\ running'[n] = None /\ \A m \in Names : m # n => running'[m] = running[m]
          /\ Its(t) = running[n]
      BY <2>1, <2>2 DEF Leaves, hostVars, Forgets, Its
    <2>4. \A u \in Goroutines : go'[u].agent <= created
      BY <1>0, <1>1, <2>2, <2>3 DEF Begun, Others
    <2>5. \A m \in Names : running'[m] \in {None, running[m]}
      BY <2>3
    <2>6. \A u \in Launchers : go'[u].pc # "idle" => go'[u].agent \in Agents
      BY <1>0, <1>1, <2>3 DEF Begun, At, Others
    <2>7. /\ \A m \in Names : running'[m] <= created
          /\ \A l, m \in Names : running'[l] = running'[m] /\ running'[l] # None => l = m
      BY <1>0, <1>1, <2>5 DEF Begun
    <2> QED BY <1>1, <2>3, <2>4, <2>6, <2>7 DEF Begun, At
  <1>6. CASE \E t \in Goroutines : Writes(t)
    <2>1. PICK t \in Goroutines : Writes(t)
      BY <1>6
    <2>2. \A a \in wanted' : a <= created
      BY <1>1, <2>1 DEF Begun, Writes
    <2>3. UNCHANGED running /\ UNCHANGED created /\ Others(t)
          /\ (go'[t] = Rest \/ (go'[t].agent = go[t].agent /\ (t \in Launchers => go[t].pc # "idle")))
      BY <2>1, Kinds DEF Writes, hostVars, Holds
    <2> QED BY <1>0, <1>1, <1>2, <2>2, <2>3 DEF Begun, At
  <1>7. CASE \E w \in Slots : Retries(w)
    <2>1. PICK w \in Slots : Retries(w)
      BY <1>7
    <2>2. UNCHANGED running /\ UNCHANGED created /\ Others(w) /\ UNCHANGED wanted
          /\ w \in Goroutines /\ w \notin Launchers /\ go[w].name \in Names
          /\ go'[w].agent = running[go[w].name]
      BY <2>1, Kinds DEF Retries, ExitsAgain, hostVars, Its
    <2> QED BY <1>0, <1>1, <1>2, <2>2 DEF Begun
  <1>8. CASE \E o \in Obeyers, n \in Names : Start(o, n)
    <2>1. PICK o \in Obeyers, n \in Names : Start(o, n)
      BY <1>8
    <2> DEFINE a == created + 1
    <2>2. /\ a \in Agents /\ created' = a /\ UNCHANGED wanted /\ Others(o) /\ o \in Goroutines
          /\ running'[n] = a /\ \A m \in Names : m # n => running'[m] = running[m]
          /\ go'[o].agent = a
      BY <2>1, StartEffect, Kinds
    <2>3. \A k \in Nat : k <= created => k <= a /\ k # a
      BY <1>0
    <2>4. /\ \A m \in Names : running[m] \in Nat
          /\ \A t \in Goroutines : go[t].agent \in Nat /\ \A b \in wanted : b \in Nat
      <3>1. Agents \cup {None} \subseteq Nat
        BY Kinds
      <3>2. \A m \in Names : running[m] \in Agents \cup {None}
        BY DEF Sound, Types, RecordTypes
      <3>3. \A t \in Goroutines : go[t].agent \in Agents \cup {None}
        BY DEF Sound, Types, GoTypes, Goroutine
      <3>4. wanted \subseteq Agents
        BY DEF Sound, Types, HostTypes
      <3> QED BY <3>1, <3>2, <3>3, <3>4
    <2>5. \A m \in Names : m # n => running'[m] # a /\ running'[m] <= a
      BY <1>1, <2>2, <2>3, <2>4 DEF Begun
    <2>6. \A t \in Goroutines : go'[t].agent <= a
      BY <1>1, <2>2, <2>3, <2>4, <1>0 DEF Begun, Others
    <2>7. \A b \in wanted' : b <= a
      BY <1>1, <2>2, <2>3, <2>4, Kinds DEF Begun
    <2>8. \A t \in Launchers : ~At(t, "idle")' => go'[t].agent \in Agents
      BY <1>1, <2>2, Kinds DEF Begun, Others, At
    <2>9. \A l, m \in Names : running'[l] = running'[m] /\ running'[l] # None => l = m
      BY <1>1, <2>2, <2>5 DEF Begun
    <2> HIDE DEF a
    <2> QED BY <1>0, <2>2, <2>5, <2>6, <2>7, <2>8, <2>9, Kinds DEF Begun, At
  <1>9. CASE \E t \in Launchers, n \in Names : Stop(t, n)
    <2>1. PICK t \in Launchers, n \in Names : t \in Goroutines /\ Stop(t, n)
      BY <1>9, Kinds
    <2>2. UNCHANGED running /\ UNCHANGED created /\ wanted' \subseteq wanted /\ running[n] \in Agents
          /\ (UNCHANGED go \/ (Others(t) /\ go'[t].agent = running[n]))
      BY <2>1, StopEffect DEF hostVars
    <2> QED BY <1>1, <1>2, <2>1, <2>2 DEF Begun, At
  <1>10. CASE \/ \E o \in Obeyers, n \in Names, fresh \in BOOLEAN : Bounce(o, n, fresh)
              \/ Happens
    <2>1. UNCHANGED <<running, go, wanted, created>>
      BY <1>10 DEF Bounce, Happens, hostVars
    <2> QED BY <1>1, <2>1 DEF Begun, At
  <1>11. CASE \E n \in Names : RestoreNext(n)
    <2>1. PICK n \in Names : RestoreNext(n)
      BY <1>11
    <2>2. running[n] # None /\ UNCHANGED running /\ UNCHANGED created /\ UNCHANGED wanted
          /\ Others(Main) /\ go'[Main].agent = running[n] /\ Main \in Goroutines
      BY <2>1, RestoreNextEffect, Kinds DEF Phased
    <2>3. running[n] \in Agents
      BY <2>2 DEF Sound, Types, RecordTypes
    <2> QED BY <1>1, <1>2, <2>2, <2>3 DEF Begun
  <1>12. CASE Restart
    <2>1. /\ \A n \in Names : running'[n] = file[n].agent
          /\ \A t \in Goroutines : go'[t] = Rest
          /\ UNCHANGED created /\ wanted' \subseteq wanted
      BY <1>12, RestartEffect
    <2> QED BY <1>0, <1>1, <2>1, Kinds DEF Begun, At, Numbered, Once
  <1> QED BY <1>3, <1>4, <1>5, <1>6, <1>7, <1>8, <1>9, <1>10, <1>11, <1>12, Classes

LEMMA NumberedStep ==
  ASSUME Sound, Numbered, Phased, Supervised, Owed, Next
  PROVE  Numbered'
  <1>1. /\ \A n \in Names : file'[n].agent <= created
        /\ \A t \in Goroutines, n \in Names : snapshot'[t][n].agent <= created
        /\ Once(file') /\ \A t \in Goroutines : Once(snapshot'[t])
    BY NumberedDisk
  <1>2. Begun'
    BY BegunStep
  <1>3. UNCHANGED created \/ \E o \in Obeyers, n \in Names : Start(o, n)
    BY Parts DEF LaunchStep, Launch, Commit, ForgetFailed, StopUnlaunched, SaveStep, SaveLock,
                 SaveRecords, SaveWrite, WaitStep, Exit, DelayStopped, CleanUp, Stop, Bounce,
                 Reconnect, RestoreNext, RestoreDone, Shutdown, Dies, Remember, Reading,
                 Restart, hostVars
  <1>4. created' \in Nat /\ created \in Nat /\ created <= created'
    <2>1. created \in Nat
      BY Kinds DEF Sound, Types, HostTypes
    <2>2. created' = created \/ created' = created + 1
      BY <1>3, StartEffect
    <2> QED BY <2>1, <2>2
  <1>5. /\ \A n \in Names : file'[n].agent \in Nat
        /\ \A t \in Goroutines, n \in Names : snapshot'[t][n].agent \in Nat
    <2>1. Agents \cup {None} \subseteq Nat
      BY Kinds
    <2>2. file' \in [Names -> Entry] /\ snapshot' \in [Goroutines -> [Names -> Entry]]
      BY TypesStep DEF Types, DiskTypes
    <2>3. \A e \in Entry : e.agent \in Agents \cup {None}
      BY DEF Entry
    <2> QED BY <2>1, <2>2, <2>3
  <1> QED BY <1>1, <1>2, <1>4, <1>5 DEF Numbered, Begun, At, Once

-----------------------------------------------------------------------------
(* Commands wait until everything in the state file has been begun.        *)

\* A name leads to one record.
LEMMA OneName ==
  ASSUME Sound, Numbered, NEW t \in Goroutines, go[t].name \in Names, Its(t) # None,
         NEW n \in Names, n # go[t].name
  PROVE  running[n] # Its(t)
  BY DEF Numbered, Its

LEMMA PhasedFrame ==
  ASSUME Sound, Phased, UNCHANGED phase, UNCHANGED todo, UNCHANGED running,
         \A a \in Agents : record'[a].slot = record[a].slot,
         \A u \in Launchers :
           \/ go'[u] = go[u]
           \/ go[u].pc \in Begins /\ go'[u].pc \in Begins /\ go'[u].name = go[u].name
           \/ go[u].pc \notin {"idle"} \cup Begins /\ go'[u].pc \notin {"unlaunched"} \cup Begins
           \/ /\ go[u].pc = "idle" /\ go'[u].pc = "unlaunched"
              /\ phase = "closing" \/ (phase = "serving" /\ u # Main)
  PROVE  Phased'
  <1>1. "idle" \notin Begins /\ "unlaunched" \notin Begins
    BY DEF Begins
  <1>2. \A u \in Launchers : /\ go'[u].pc \in Begins <=> go[u].pc \in Begins
                             /\ go[u].pc \in Begins => go'[u].name = go[u].name
    BY <1>1
  <1>3. phase = "restoring" => \A o \in Obeyers : go'[o].pc = "idle"
    BY <1>1, Kinds DEF Phased, At
  <1>4. phase = "serving" => go'[Main].pc = "idle"
    BY <1>1, Kinds DEF Phased, At
  <1>5. /\ phase = "closing" => go'[Main].pc \notin Begins
        /\ go'[Main].pc = "unlaunched" => phase = "closing"
    BY <1>1, <1>2, Kinds DEF Phased, At
  <1>6. \A n \in Names : running[n] # None => running[n] \in Agents
    BY DEF Sound, Types, RecordTypes
  <1>7. todo \subseteq Names
    BY DEF Sound, Types, HostTypes
  <1> QED BY <1>2, <1>3, <1>4, <1>5, <1>6, <1>7 DEF Phased, At

\* When an agent's record is forgotten, it was not waiting to be begun, and
\* whoever forgot it is not at beginning it any more.
LEMMA PhasedLeaves ==
  ASSUME Sound, Numbered, Phased, Supervised, Owed, NEW t \in Goroutines, Leaves(t)
  PROVE  Phased'
  <1>1. PICK n \in Names : n = go[t].name
    BY DEF Leaves
  <1>2. /\ UNCHANGED phase /\ UNCHANGED todo /\ Others(t) /\ Its(t) = running[n]
        /\ running'[n] = None /\ \A m \in Names : m # n => running'[m] = running[m]
        /\ \A a \in Agents : a # running[n] => record'[a] = record[a]
        /\ \/ t \in Slots /\ go[t].pc \in Supervises
           \/ t \in Launchers /\ go[t].pc \in {"forget", "unlaunched"}
        /\ go'[t].pc \in {"idle", "save"}
    BY <1>1 DEF Leaves, Forgets, Supervising, Its, hostVars
  <1>3. "idle" \notin Begins /\ "unlaunched" \notin Begins /\ "save" \notin Begins
    BY DEF Begins
  <1>4. Launchers \subseteq Goroutines /\ (t \in Slots => t \notin Launchers) /\ Main \in Launchers
        /\ Obeyers \subseteq Launchers
    BY Kinds
  <1>5. \A u \in Launchers : u # t => go'[u] = go[u]
    BY <1>2, <1>4 DEF Others
  <1>6. phase = "restoring" => \A o \in Obeyers : go'[o].pc = "idle"
    BY <1>2, <1>4, <1>5 DEF Phased, At
  <1>7. phase = "serving" => go'[Main].pc = "idle"
    BY <1>2, <1>4, <1>5 DEF Phased, At
  <1>8. /\ phase = "closing" => go'[Main].pc \notin Begins
        /\ go'[Main].pc = "unlaunched" => phase = "closing"
    BY <1>2, <1>3, <1>4, <1>5 DEF Phased, At
  <1>9. \A m \in Names : m # n /\ running[m] # None => running[m] \in Agents /\ running[m] # running[n]
    BY DEF Sound, Types, RecordTypes, Numbered
  <1>10. ASSUME phase # "closing", NEW m \in Names, running'[m] # None,
                record'[running'[m]].slot = None
         PROVE  m \in todo \/ \E u \in Launchers : go'[u].pc \in Begins /\ go'[u].name = m
    <2>1. m # n /\ running'[m] = running[m] /\ record'[running[m]] = record[running[m]]
      BY <1>2, <1>9, <1>10
    <2>2. m \in todo \/ \E u \in Launchers : go[u].pc \in Begins /\ go[u].name = m
      BY <1>10, <2>1 DEF Phased
    <2> QED BY <1>1, <1>5, <2>1, <2>2
  <1>11. ASSUME NEW m \in todo
         PROVE  /\ running'[m] # None /\ record'[running'[m]].slot = None
                /\ \A u \in Launchers : go'[u].pc \in Begins => go'[u].name # m
    <2>1. /\ m \in Names /\ running[m] # None /\ record[running[m]].slot = None
          /\ \A u \in Launchers : go[u].pc \in Begins => go[u].name # m
      BY DEF Phased, Sound, Types, HostTypes
    <2>2. m # n
      <3>1. CASE t \in Slots /\ go[t].pc \in Supervises
        BY <1>1, <1>2, <2>1, <3>1, Kinds DEF Supervised, Supervising
      <3>2. CASE t \in Launchers /\ go[t].pc = "forget"
        BY <1>1, <2>1, <3>2 DEF Begins
      <3>3. CASE t \in Launchers /\ go[t].pc = "unlaunched"
        <4>1. phase = "restoring"
          BY DEF Phased, Sound, Types, HostTypes
        <4> QED BY <3>3, <4>1 DEF Phased, At, Launchers
      <3> QED BY <1>2, <3>1, <3>2, <3>3
    <2>3. running'[m] = running[m] /\ record'[running[m]] = record[running[m]]
      BY <1>2, <1>9, <2>1, <2>2
    <2> QED BY <1>2, <1>3, <1>5, <2>1, <2>3
  <1>12. phase # "restoring" => todo = {}
    BY DEF Phased
  <1> QED BY <1>2, <1>6, <1>7, <1>8, <1>10, <1>11, <1>12 DEF Phased, At

LEMMA PhasedCommits ==
  ASSUME Sound, Numbered, Phased, Supervised, Reserving, NEW t \in Goroutines, Commits(t)
  PROVE  Phased'
  <1>1. PICK n \in Names, a \in Agents, s \in Slots :
          n = go[t].name /\ a = Its(t) /\ a = running[n] /\ s = go[t].slot
    BY DEF Commits, CommitWorks, Its
  <1>2. /\ UNCHANGED phase /\ UNCHANGED todo /\ UNCHANGED running
        /\ \A b \in Agents : b # a => record'[b] = record[b]
        /\ record'[a].slot = s /\ s # None /\ s \notin Launchers
        /\ go[t].pc = "commit"
        /\ \A u \in Goroutines : u \notin {s, t} => go'[u] = go[u]
        /\ t \notin Slots => go'[t].pc = "save"
    BY <1>1, Kinds DEF Commits, CommitWorks, hostVars
  <1>3. "save" \notin Begins /\ "commit" \in Begins
    BY DEF Begins
  <1>4. Launchers \subseteq Goroutines /\ (t \in Slots <=> t \notin Launchers) /\ Main \in Launchers
        /\ Obeyers \subseteq Launchers
    BY Kinds DEF Commits
  <1>5. \A u \in Launchers : u # t => go'[u] = go[u]
    BY <1>2, <1>4
  <1>6. phase = "restoring" => \A o \in Obeyers : go'[o].pc = "idle"
    BY <1>2, <1>4, <1>5 DEF Phased, At
  <1>7. phase = "serving" => go'[Main].pc = "idle"
    BY <1>2, <1>4, <1>5 DEF Phased, At
  <1>8. /\ phase = "closing" => go'[Main].pc \notin Begins
        /\ go'[Main].pc = "unlaunched" => phase = "closing"
    BY <1>2, <1>3, <1>4, <1>5 DEF Phased, At
  <1>9. \A m \in Names : m # n /\ running[m] # None => running[m] \in Agents /\ running[m] # a
    BY <1>1 DEF Sound, Types, RecordTypes, Numbered
  <1>10. ASSUME phase # "closing", NEW m \in Names, running[m] # None, record'[running[m]].slot = None
         PROVE  m \in todo \/ \E u \in Launchers : go'[u].pc \in Begins /\ go'[u].name = m
    <2>1. m # n
      BY <1>1, <1>2, <1>10
    <2>2. m \in todo \/ \E u \in Launchers : go[u].pc \in Begins /\ go[u].name = m
      BY <1>2, <1>9, <1>10, <2>1 DEF Phased
    <2> QED BY <1>1, <1>5, <2>1, <2>2
  <1>11. ASSUME NEW m \in todo
         PROVE  /\ running[m] # None /\ record'[running[m]].slot = None
                /\ \A u \in Launchers : go'[u].pc \in Begins => go'[u].name # m
    <2>1. /\ m \in Names /\ running[m] # None /\ record[running[m]].slot = None
          /\ \A u \in Launchers : go[u].pc \in Begins => go[u].name # m
      BY DEF Phased, Sound, Types, HostTypes
    <2>2. m # n
      <3>1. CASE t \in Slots
        <4>0. Supervising(t)
          BY <1>2 DEF Supervising, Supervises
        <4>1. record[Its(t)].slot = t
          BY <3>1, <4>0 DEF Supervised
        <4>2. t # None
          BY <3>1, Kinds
        <4> QED BY <1>1, <2>1, <4>1, <4>2
      <3>2. CASE t \in Launchers
        BY <1>1, <1>2, <1>3, <2>1, <3>2
      <3> QED BY <1>4, <3>1, <3>2
    <2> QED BY <1>2, <1>3, <1>4, <1>5, <1>9, <2>1, <2>2
  <1>12. phase # "restoring" => todo = {}
    BY DEF Phased
  <1> QED BY <1>2, <1>6, <1>7, <1>8, <1>10, <1>11, <1>12 DEF Phased, At

LEMMA PhasedStep ==
  ASSUME Sound, Numbered, Phased, Supervised, Reserving, Owed, Next
  PROVE  Phased'
  <1>1. Launchers \subseteq Goroutines /\ Main \in Launchers /\ Obeyers \subseteq Launchers
        /\ (\A t \in Slots \cup Watchers : t \notin Launchers) /\ Main \notin Obeyers
        /\ Launchers = Obeyers \cup {Main}
    BY Kinds DEF Launchers
  <1>2. /\ "idle" \notin Begins /\ "unlaunched" \notin Begins /\ "launch" \in Begins
        /\ "commit" \in Begins /\ "forget" \in Begins
        /\ "unlaunched" \notin Saves /\ "idle" \notin Saves /\ \A pc \in Saves : pc \notin Begins
    BY DEF Begins, Saves
  <1>3. CASE \E t \in Goroutines : Launches(t)
    <2>1. PICK t \in Goroutines : Launches(t)
      BY <1>3
    <2>2. /\ UNCHANGED phase /\ UNCHANGED todo /\ UNCHANGED running
          /\ \A a \in Agents : record'[a].slot = record[a].slot
          /\ Others(t) /\ go'[t].name = go[t].name
          /\ t \in Launchers => go[t].pc \in {"launch", "commit"} /\ go'[t].pc \in {"commit", "forget"}
      BY <2>1, <1>1 DEF Launches, hostVars, Kept, Holds
    <2>3. \A u \in Launchers :
           \/ go'[u] = go[u]
           \/ go[u].pc \in Begins /\ go'[u].pc \in Begins /\ go'[u].name = go[u].name
      BY <1>1, <1>2, <2>2 DEF Others
    <2> QED BY <2>2, <2>3, PhasedFrame
  <1>4. CASE \E t \in Goroutines : Commits(t)
    BY <1>4, PhasedCommits
  <1>5. CASE \E t \in Goroutines : Leaves(t)
    BY <1>5, PhasedLeaves
  <1>6. CASE \E t \in Goroutines : Writes(t)
    <2>1. PICK t \in Goroutines : Writes(t)
      BY <1>6
    <2>2. /\ UNCHANGED phase /\ UNCHANGED todo /\ UNCHANGED running /\ Others(t)
          /\ t \in Launchers => go[t].pc \in Saves /\ go'[t].pc \in {"idle"} \cup Saves
      BY <2>1, <1>1 DEF Writes, hostVars
    <2>3. \A a \in Agents : record'[a].slot = record[a].slot
      BY <2>1 DEF Writes, Kept, Closes
    <2>4. \A u \in Launchers :
           \/ go'[u] = go[u]
           \/ go[u].pc \notin {"idle"} \cup Begins /\ go'[u].pc \notin {"unlaunched"} \cup Begins
      BY <1>1, <1>2, <2>2 DEF Others
    <2> QED BY <2>2, <2>3, <2>4, PhasedFrame
  <1>7. CASE \E w \in Slots : Retries(w)
    <2>1. PICK w \in Slots : Retries(w)
      BY <1>7
    <2>2. /\ UNCHANGED phase /\ UNCHANGED todo /\ UNCHANGED running
          /\ \A a \in Agents : record'[a].slot = record[a].slot
          /\ Others(w)
      BY <2>1 DEF Retries, ExitsAgain, hostVars
    <2>3. \A u \in Launchers : go'[u] = go[u]
      BY <1>1, <2>2 DEF Others
    <2> QED BY <2>2, <2>3, PhasedFrame
  <1>8. CASE \E o \in Obeyers, n \in Names : Start(o, n)
    <2>1. PICK o \in Obeyers, n \in Names : Start(o, n)
      BY <1>8
    <2> DEFINE a == created + 1
    <2>2. /\ phase = "serving" /\ UNCHANGED phase /\ UNCHANGED todo
          /\ running'[n] = a /\ \A m \in Names : m # n => running'[m] = running[m]
          /\ \A b \in Agents : b # a => record'[b] = record[b]
          /\ Others(o) /\ go'[o].pc = "launch" /\ go'[o].name = n /\ go[o].pc = "idle"
      BY <2>1, StartEffect
    <2>3. \A m \in Names : running[m] # None => running[m] \in Agents /\ running[m] # a
      <3>1. created \in Nat /\ \A m \in Names : running[m] <= created
        BY Kinds DEF Sound, Types, HostTypes, Numbered
      <3>2. \A m \in Names : running[m] # None => running[m] \in Agents /\ running[m] \in Nat
        BY Kinds DEF Sound, Types, RecordTypes
      <3> QED BY <3>1, <3>2
    <2> HIDE DEF a
    <2>4. \A u \in Launchers : u # o => go'[u] = go[u]
      BY <1>1, <2>2 DEF Others
    <2>5. todo = {} /\ go'[Main].pc = "idle"
      BY <1>1, <2>2, <2>4 DEF Phased, At
    <2>6. ASSUME NEW m \in Names, running'[m] # None, record'[running'[m]].slot = None
          PROVE  \E u \in Launchers : go'[u].pc \in Begins /\ go'[u].name = m
      <3>1. CASE m = n
        BY <1>1, <1>2, <2>2, <3>1
      <3>2. CASE m # n
        <4>1. \E u \in Launchers : go[u].pc \in Begins /\ go[u].name = m
          BY <2>2, <2>3, <2>5, <2>6, <3>2 DEF Phased
        <4> QED BY <1>2, <2>2, <2>4, <4>1
      <3> QED BY <3>1, <3>2
    <2>7. ~ShutsDown => phase # "closing"
      BY DEF Phased
    <2> QED BY <2>2, <2>5, <2>6, <2>7, <1>2 DEF Phased, At
  <1>9. CASE \E t \in Launchers, n \in Names : Stop(t, n)
    <2>1. PICK t \in Launchers, n \in Names : t \in Goroutines /\ Stop(t, n)
      BY <1>9, <1>1
    <2>2. /\ UNCHANGED phase /\ UNCHANGED todo /\ UNCHANGED running
          /\ \A a \in Agents : record'[a].slot = record[a].slot
          /\ UNCHANGED go \/ (Others(t) /\ go'[t].pc = "unlaunched")
      BY <2>1, StopEffect DEF hostVars
    <2>4. go[t].pc = "idle" /\ (phase = "closing" \/ (phase = "serving" /\ t \in Obeyers))
      <3>1. Obeys(t) \/ (t = Main /\ phase = "closing" /\ At(t, "idle"))
        BY <2>1, StopEffect
      <3> QED BY <3>1 DEF Obeys, At, Sound, Types, HostTypes
    <2>3. \A u \in Launchers :
           \/ go'[u] = go[u]
           \/ /\ go[u].pc = "idle" /\ go'[u].pc = "unlaunched"
              /\ phase = "closing" \/ (phase = "serving" /\ u # Main)
      BY <1>1, <2>1, <2>2, <2>4 DEF Others
    <2> QED BY <2>2, <2>3, PhasedFrame
  <1>10. CASE \E o \in Obeyers, n \in Names, fresh \in BOOLEAN : Bounce(o, n, fresh)
    <2>1. PICK o \in Obeyers, n \in Names, fresh \in BOOLEAN : Bounce(o, n, fresh)
      BY <1>10
    <2>2. /\ UNCHANGED phase /\ UNCHANGED todo /\ UNCHANGED running /\ UNCHANGED go
          /\ \A a \in Agents : record'[a].slot = record[a].slot
      BY <2>1, BounceEffect DEF hostVars
    <2> QED BY <2>2, PhasedFrame
  <1>11. CASE \E n \in Names : RestoreNext(n)
    <2>1. PICK n \in Names : RestoreNext(n)
      BY <1>11
    <2>2. /\ phase = "restoring" /\ UNCHANGED phase /\ n \in todo /\ todo' = todo \ {n}
          /\ UNCHANGED running /\ UNCHANGED record /\ Others(Main) /\ go[Main].pc = "idle"
          /\ go'[Main].pc = "launch" /\ go'[Main].name = n
      BY <2>1, RestoreNextEffect
    <2>3. \A u \in Launchers : u # Main => go'[u] = go[u]
      BY <1>1, <2>2 DEF Others
    <2>4. \A o \in Obeyers : go'[o].pc = "idle"
      BY <1>1, <2>2, <2>3 DEF Phased, At
    <2>5. ASSUME NEW m \in Names, running[m] # None, record[running[m]].slot = None, m \notin todo'
          PROVE  \E u \in Launchers : go'[u].pc \in Begins /\ go'[u].name = m
      <3>1. CASE m = n
        BY <1>1, <1>2, <2>2, <3>1
      <3>2. CASE m # n
        <4>1. \E u \in Launchers : go[u].pc \in Begins /\ go[u].name = m
          BY <2>2, <2>5, <3>2 DEF Phased
        <4> QED BY <1>2, <2>2, <2>3, <4>1
      <3> QED BY <3>1, <3>2
    <2>6. ASSUME NEW m \in todo'
          PROVE  /\ running[m] # None /\ record[running[m]].slot = None
                 /\ \A u \in Launchers : go'[u].pc \in Begins => go'[u].name # m
      BY <1>1, <1>2, <2>2, <2>4 DEF Phased
    <2>7. ~ShutsDown => phase # "closing"
      BY DEF Phased
    <2> QED BY <2>2, <2>4, <2>5, <2>6, <2>7 DEF Phased, At
  <1>12. CASE Happens
    <2>1. /\ RestoreDone \/ Shutdown \/ UNCHANGED phase
          /\ UNCHANGED running /\ UNCHANGED record /\ UNCHANGED go /\ UNCHANGED todo
      BY <1>12 DEF Happens
    <2>2. CASE RestoreDone
      <3>1. go[Main].pc = "idle" /\ todo = {} /\ phase = "restoring" /\ phase' = "serving"
        BY <2>2 DEF RestoreDone, At
      <3> QED BY <1>2, <2>1, <3>1 DEF Phased, At
    <2>3. CASE Shutdown
      <3>1. phase = "serving" /\ phase' = "closing" /\ ShutsDown
        BY <2>3 DEF Shutdown
      <3>2. go[Main].pc = "idle" /\ todo = {}
        BY <3>1 DEF Phased, At
      <3> QED BY <1>2, <2>1, <3>1, <3>2 DEF Phased, At
    <2>4. CASE UNCHANGED phase
      BY <2>1, <2>4, PhasedFrame
    <2> QED BY <2>1, <2>2, <2>3, <2>4
  <1>13. CASE Restart
    <2>1. /\ \A t \in Launchers : go'[t].pc = "idle"
          /\ phase' = "restoring" /\ todo' = {n \in Names : running'[n] # None}
          /\ \A a \in Agents : record'[a].slot = None
          /\ \A n \in Names : running'[n] # None => running'[n] \in Agents
      BY <1>1, <1>13, RestartEffect, Resting DEF RecordTypes
    <2> QED BY <1>1, <1>2, <2>1 DEF Phased, At
  <1> QED BY <1>3, <1>4, <1>5, <1>6, <1>7, <1>8, <1>9, <1>10, <1>11, <1>12, <1>13, Classes

-----------------------------------------------------------------------------
(* One goroutine looks after each record.                                  *)

\* When a command comes, no start is under way: there is no other connection, or
\* no agent.
LEMMA Quiet ==
  ASSUME Sound, Orderly, Numbered, Phased, NEW o \in Obeyers, go[o].pc = "idle", phase = "serving",
         MaxAgents <= 1 => created < MaxAgents
  PROVE  \A t \in Launchers : go[t].pc = "idle"
  <1>1. CASE \A q, p \in Obeyers : q = p
    BY <1>1 DEF Launchers, Phased, At
  <1>2. CASE MaxAgents <= 1
    <2>1. created = 0
      BY <1>2, Kinds DEF Sound, Types, HostTypes
    <2>2. \A t \in Launchers : go[t].agent \in Agents => go[t].agent >= 1 /\ go[t].agent <= 0
      BY <2>1, Kinds DEF Numbered, Agents
    <2>3. \A t \in Launchers : go[t].agent \in Agents => go[t].agent \in Nat
      BY Kinds
    <2> QED BY <2>2, <2>3 DEF Numbered, At
  <1> QED BY <1>1, <1>2 DEF Orderly

\* Nothing that supervision knows changes.
LEMMA SupervisedFrame ==
  ASSUME Sound, Supervised, UNCHANGED running,
         \A a \in Agents : record'[a].slot = record[a].slot,
         \A w \in Slots :
           \/ go'[w] = go[w]
           \/ /\ go[w].pc \in Supervises /\ go'[w].pc \in Supervises /\ go'[w].name = go[w].name
              /\ go'[w].pc = "delay" => go'[w].agent = Its(w)
           \/ go[w].pc \notin Supervises /\ go'[w].pc \notin Supervises,
         \A u \in Launchers :
           \/ go'[u] = go[u]
           \/ /\ go[u].pc \in Begins /\ go'[u].pc \in Begins /\ go'[u].name = go[u].name
              /\ go'[u].agent = go[u].agent
           \/ go'[u].pc \notin Begins
  PROVE  Supervised'
  <1>1. \A n \in Names : running[n] # None => running[n] \in Agents
    BY DEF Sound, Types, RecordTypes
  <1>2. \A w \in Slots :
          /\ go'[w].pc \in Supervises <=> go[w].pc \in Supervises
          /\ go[w].pc \in Supervises => go'[w].name = go[w].name /\ go[w].name \in Names
                                         /\ (go'[w].pc = "delay" => go'[w].agent = Its(w))
    <2>1. \A w \in Slots : go[w].pc \in Supervises => go[w].name \in Names
      BY Kinds DEF Sound, Staged, Supervises, Saves
    <2>2. \A w \in Slots : go[w].pc = "delay" => go[w].agent = Its(w)
      BY DEF Supervised, Supervising, Supervises, At
    <2> QED BY <2>1, <2>2
  <1>3. \A u \in Launchers : go'[u].pc \in Begins =>
          /\ go[u].pc \in Begins /\ go'[u].name = go[u].name /\ go'[u].agent = go[u].agent
          /\ go[u].name \in Names
    <2>1. \A u \in Launchers : go[u].pc \in Begins => go[u].name \in Names
      BY Kinds DEF Sound, Staged, Begins, Saves
    <2> QED BY <2>1
  <1>4. ASSUME NEW w \in Slots, Supervising(w)'
        PROVE  (Its(w) # None /\ record[Its(w)].slot = w /\ (At(w, "delay") => Its(w) = go[w].agent))'
    <2>1. /\ Its(w) # None /\ record[Its(w)].slot = w /\ Its(w) = running[go[w].name]
          /\ Its(w) \in Agents /\ go'[w].name = go[w].name
          /\ go'[w].pc = "delay" => go'[w].agent = Its(w)
      <3>1. /\ Supervising(w) /\ go[w].name \in Names /\ go'[w].name = go[w].name
            /\ go'[w].pc = "delay" => go'[w].agent = Its(w)
        BY <1>2, <1>4 DEF Supervising
      <3>2. Its(w) # None /\ record[Its(w)].slot = w
        BY <3>1 DEF Supervised
      <3> QED BY <1>1, <3>1, <3>2 DEF Its
    <2> QED BY <2>1 DEF Its, At
  <1>5. ASSUME NEW n \in Names, running[n] # None, record'[running[n]].slot # None
        PROVE  /\ go'[record'[running[n]].slot].pc \in Supervises
               /\ go'[record'[running[n]].slot].name = n
    <2>1. record'[running[n]].slot = record[running[n]].slot /\ record[running[n]].slot \in Slots
      BY <1>1, <1>5 DEF Sound, Types, RecordTypes, Record
    <2> QED BY <1>2, <1>5, <2>1 DEF Supervised, Supervising
  <1>6. \A u \in Launchers : go'[u].pc \in Begins /\ running[go'[u].name] # None =>
          running[go'[u].name] = go'[u].agent /\ record'[running[go'[u].name]].slot = None
    BY <1>1, <1>3 DEF Supervised, Its
  <1>7. \A t, u \in Launchers : go'[t].pc \in Begins /\ go'[u].pc \in Begins
          /\ go'[t].name = go'[u].name => t = u
    BY <1>3 DEF Supervised
  <1>8. \A a \in Agents : record'[a].slot # None => \E n \in Names : running[n] = a
    BY DEF Supervised
  <1> QED BY <1>4, <1>5, <1>6, <1>7, <1>8 DEF Supervised, Supervising, Its

\* The one that forgets a record is the only one that looked after it.
LEMMA OnlyOne ==
  ASSUME Sound, Numbered, Supervised, Owed, NEW t \in Goroutines, Leaves(t),
         NEW w \in Slots, Supervising(w), go[w].name = go[t].name
  PROVE  w = t
  <1>1. Its(w) = Its(t) /\ Its(w) # None /\ record[Its(w)].slot = w /\ w # None
    BY Kinds DEF Supervised, Its
  <1>2. CASE t \in Slots /\ Supervising(t)
    BY <1>1, <1>2 DEF Supervised
  <1>3. CASE t \in Launchers /\ go[t].pc = "forget"
    BY <1>1, <1>3 DEF Supervised, Begins
  <1>4. CASE t \in Launchers /\ go[t].pc = "unlaunched"
    <2>1. Its(t) = go[t].agent /\ go[t].agent \in Agents
      BY <1>1, <1>4 DEF Owed, At, Sound, Staged
    <2>2. record[go[t].agent].slot = None
      BY <1>4, <2>1 DEF Owed, Owes, At
    <2> QED BY <1>1, <2>1, <2>2
  <1> QED BY <1>2, <1>3, <1>4 DEF Leaves

LEMMA SupervisedLeaves ==
  ASSUME Sound, Numbered, Supervised, Owed, NEW t \in Goroutines, Leaves(t)
  PROVE  Supervised'
  <1>1. PICK n \in Names : n = go[t].name
    BY DEF Leaves
  <1>2. /\ Others(t) /\ Its(t) = running[n]
        /\ running'[n] = None /\ \A m \in Names : m # n => running'[m] = running[m]
        /\ \A a \in Agents : a # running[n] => record'[a] = record[a]
        /\ \A a \in Agents : a = running[n] => record'[a].slot = None
        /\ \/ t \in Slots /\ go[t].pc \in Supervises
           \/ t \in Launchers /\ go[t].pc \in {"forget", "unlaunched"}
        /\ go'[t].pc \in {"idle", "save"}
    BY <1>1 DEF Leaves, Forgets, Supervising, Its
  <1>3. "idle" \notin Begins \cup Supervises /\ "save" \notin Begins \cup Supervises
    BY DEF Begins, Supervises
  <1>4. Launchers \subseteq Goroutines /\ Slots \subseteq Goroutines
    BY Kinds
  <1>5. \A m \in Names : m # n /\ running[m] # None =>
          /\ running[m] \in Agents /\ running[m] # running[n]
          /\ running'[m] = running[m] /\ record'[running[m]] = record[running[m]]
    BY <1>2 DEF Sound, Types, RecordTypes, Numbered
  <1>6. \A w \in Slots : go'[w].pc \in Supervises =>
          /\ go'[w] = go[w] /\ go[w].name \in Names /\ go[w].name # n
    <2> SUFFICES ASSUME NEW w \in Slots, go'[w].pc \in Supervises
                 PROVE  go'[w] = go[w] /\ go[w].name \in Names /\ go[w].name # n
      OBVIOUS
    <2>1. w # t /\ go'[w] = go[w]
      BY <1>2, <1>3, <1>4 DEF Others
    <2>2. Supervising(w) /\ go[w].name \in Names
      BY <1>4, <2>1 DEF Supervising, Sound, Staged, Supervises, Saves
    <2> QED BY <1>1, <2>1, <2>2, OnlyOne
  <1>7. \A u \in Launchers : go'[u].pc \in Begins => go'[u] = go[u] /\ go[u].name \in Names
    <2>1. \A u \in Launchers : go[u].pc \in Begins => go[u].name \in Names
      BY Kinds DEF Sound, Staged, Begins, Saves
    <2> QED BY <1>2, <1>3, <1>4, <2>1 DEF Others
  <1>8. \A w \in Slots : Supervising(w)' =>
          (Its(w) # None /\ record[Its(w)].slot = w /\ (At(w, "delay") => Its(w) = go[w].agent))'
    <2> SUFFICES ASSUME NEW w \in Slots, go'[w].pc \in Supervises
                 PROVE  (Its(w) # None /\ record[Its(w)].slot = w
                         /\ (At(w, "delay") => Its(w) = go[w].agent))'
      BY DEF Supervising
    <2>1. /\ Its(w) # None /\ record[Its(w)].slot = w /\ (go[w].pc = "delay" => Its(w) = go[w].agent)
          /\ go'[w] = go[w] /\ go[w].name \in Names /\ go[w].name # n /\ Its(w) = running[go[w].name]
      BY <1>6 DEF Supervised, Supervising, At, Its
    <2>2. running'[go[w].name] = Its(w) /\ record'[Its(w)] = record[Its(w)]
      BY <1>5, <2>1
    <2> QED BY <2>1, <2>2 DEF Its, At
  <1>9. ASSUME NEW m \in Names, running'[m] # None, record'[running'[m]].slot # None
        PROVE  /\ go'[record'[running'[m]].slot].pc \in Supervises
               /\ go'[record'[running'[m]].slot].name = m
    <2>1. m # n /\ running'[m] = running[m] /\ record'[running[m]] = record[running[m]]
          /\ running[m] \in Agents
      BY <1>2, <1>5, <1>9
    <2> DEFINE w == record[running[m]].slot
    <2>2. w \in Slots /\ Supervising(w) /\ go[w].name = m
      BY <1>9, <2>1 DEF Sound, Types, RecordTypes, Record, Supervised
    <2>3. w # t
      BY <1>1, <2>1, <2>2
    <2>4. go'[w] = go[w]
      BY <1>2, <1>4, <2>2, <2>3 DEF Others
    <2> QED BY <2>1, <2>2, <2>4 DEF Supervising
  <1>10. \A a \in Agents : record'[a].slot # None => \E m \in Names : running'[m] = a
    BY <1>2, <1>5 DEF Supervised
  <1>11. \A u \in Launchers : go'[u].pc \in Begins /\ running'[go'[u].name] # None =>
          running'[go'[u].name] = go'[u].agent /\ record'[running'[go'[u].name]].slot = None
    BY <1>2, <1>5, <1>7 DEF Supervised, Its
  <1>12. \A v, u \in Launchers : go'[v].pc \in Begins /\ go'[u].pc \in Begins
          /\ go'[v].name = go'[u].name => v = u
    BY <1>7 DEF Supervised
  <1> QED BY <1>8, <1>9, <1>10, <1>11, <1>12 DEF Supervised, Supervising, Its

LEMMA SupervisedCommits ==
  ASSUME Sound, Numbered, Supervised, Reserving, NEW t \in Goroutines, Commits(t)
  PROVE  Supervised'
  <1>1. PICK n \in Names, a \in Agents, s \in Slots :
          n = go[t].name /\ a = Its(t) /\ a = running[n] /\ s = go[t].slot
    BY DEF Commits, CommitWorks, Its
  <1>2. /\ UNCHANGED running
        /\ \A b \in Agents : b # a => record'[b] = record[b]
        /\ record'[a].slot = s /\ go[t].pc = "commit"
        /\ \A u \in Goroutines : u \notin {s, t} => go'[u] = go[u]
        /\ s # t => go'[s].pc = "waiting" /\ go'[s].name = n
        /\ t \notin Slots => go'[t].pc = "save"
        /\ t \in Slots => go'[t].pc = "idle"
    BY <1>1, Resting DEF Commits, CommitWorks
  <1>3. /\ "idle" \notin Begins \cup Supervises /\ "save" \notin Begins \cup Supervises
        /\ "waiting" \in Supervises /\ "commit" \in Begins /\ "commit" \in Supervises
        /\ "waiting" # "delay"
    BY DEF Begins, Supervises
  <1>4. /\ Launchers \subseteq Goroutines /\ Slots \subseteq Goroutines /\ None \notin Agents
        /\ s \notin Launchers /\ s # None /\ t \in Launchers \cup Slots
        /\ t \in Launchers => t \notin Slots
    BY Kinds DEF Commits
  <1>5. s # t /\ go[s].pc = "idle"
    BY <1>1, <1>2 DEF Reserving, At
  \* Whoever else looks after a record looks after another one.
  <1>6. \A w \in Slots : Supervising(w) /\ w # t => Its(w) # a
    <2> SUFFICES ASSUME NEW w \in Slots, Supervising(w), w # t, Its(w) = a PROVE FALSE
      OBVIOUS
    <2>1. record[a].slot = w /\ w # None
      BY Kinds DEF Supervised
    <2>2. CASE t \in Slots
      <3>1. Supervising(t)
        BY <1>2, <1>3 DEF Supervising
      <3> QED BY <1>1, <2>1, <2>2, <3>1 DEF Supervised
    <2>3. CASE t \in Launchers
      BY <1>1, <1>2, <1>3, <1>4, <2>1, <2>3 DEF Supervised
    <2> QED BY <1>4, <2>2, <2>3
  <1>7. \A u \in Launchers : go[u].pc \in Begins /\ u # t => Its(u) # a /\ go[u].name # n
    <2> SUFFICES ASSUME NEW u \in Launchers, go[u].pc \in Begins, u # t PROVE Its(u) # a /\ go[u].name # n
      OBVIOUS
    <2>1. go[u].name \in Names
      BY <1>4 DEF Sound, Staged, Begins, Saves
    <2>2. go[u].name # n
      <3>1. CASE t \in Launchers
        BY <1>1, <1>2, <1>3, <3>1 DEF Supervised
      <3>2. CASE t \in Slots
        <4>1. record[a].slot = t /\ t # None
          <5>1. Supervising(t)
            BY <1>2, <1>3 DEF Supervising
          <5> QED BY <1>1, <3>2, <5>1, Kinds DEF Supervised
        <4>2. go[u].name = n => Its(u) = a
          BY <1>1 DEF Its
        <4> QED BY <1>4, <4>1, <4>2 DEF Supervised
      <3> QED BY <1>4, <3>1, <3>2
    <2>3. Its(u) = running[go[u].name]
      BY DEF Its
    <2> QED BY <1>1, <1>4, <2>1, <2>2, <2>3 DEF Numbered
  <1>8. \A w \in Slots : Supervising(w)' =>
          (Its(w) # None /\ record[Its(w)].slot = w /\ (At(w, "delay") => Its(w) = go[w].agent))'
    <2> SUFFICES ASSUME NEW w \in Slots, go'[w].pc \in Supervises
                 PROVE  (Its(w) # None /\ record[Its(w)].slot = w
                         /\ (At(w, "delay") => Its(w) = go[w].agent))'
      BY DEF Supervising
    <2>1. CASE w = s
      BY <1>1, <1>2, <1>3, <1>4, <1>5, <2>1 DEF Its, At
    <2>2. CASE w # s
      <3>1. w # t /\ go'[w] = go[w]
        BY <1>2, <1>3, <1>4, <2>2
      <3>2. Supervising(w) /\ go[w].name \in Names
        BY <1>4, <3>1 DEF Supervising, Sound, Staged, Supervises, Saves
      <3>3. /\ Its(w) # None /\ record[Its(w)].slot = w /\ (go[w].pc = "delay" => Its(w) = go[w].agent)
            /\ Its(w) = running[go[w].name] /\ Its(w) # a
        BY <1>6, <3>1, <3>2 DEF Supervised, At, Its
      <3>4. Its(w) \in Agents /\ record'[Its(w)] = record[Its(w)]
        BY <1>2, <3>2, <3>3 DEF Sound, Types, RecordTypes
      <3> QED BY <1>2, <3>1, <3>3, <3>4 DEF Its, At
    <2> QED BY <2>1, <2>2
  <1>9. ASSUME NEW m \in Names, running[m] # None, record'[running[m]].slot # None
        PROVE  /\ go'[record'[running[m]].slot].pc \in Supervises
               /\ go'[record'[running[m]].slot].name = m
    <2>1. CASE m = n
      BY <1>1, <1>2, <1>3, <1>5, <2>1
    <2>2. CASE m # n
      <3>1. running[m] # a /\ running[m] \in Agents
        BY <1>1, <1>9, <2>2 DEF Numbered, Sound, Types, RecordTypes
      <3> DEFINE w == record[running[m]].slot
      <3>2. w \in Slots /\ Supervising(w) /\ go[w].name = m /\ record'[running[m]].slot = w
        BY <1>2, <1>9, <3>1 DEF Sound, Types, RecordTypes, Record, Supervised
      <3>3. w # s /\ w # t
        BY <1>1, <1>3, <1>5, <2>2, <3>2 DEF Supervising
      <3> HIDE DEF w
      <3>4. go'[w] = go[w]
        BY <1>2, <1>4, <3>2, <3>3
      <3> QED BY <3>2, <3>4 DEF Supervising
    <2> QED BY <2>1, <2>2
  <1>10. \A b \in Agents : record'[b].slot # None => \E m \in Names : running[m] = b
    BY <1>1, <1>2 DEF Supervised
  <1>11. \A u \in Launchers : go'[u].pc \in Begins =>
           u # t /\ go'[u] = go[u] /\ Its(u) # a /\ go[u].name \in Names
    <2>1. \A u \in Launchers : go[u].pc \in Begins => go[u].name \in Names
      BY Kinds DEF Sound, Staged, Begins, Saves
    <2> QED BY <1>2, <1>3, <1>4, <1>7, <2>1
  <1>12. \A u \in Launchers : go'[u].pc \in Begins /\ running[go'[u].name] # None =>
          running[go'[u].name] = go'[u].agent /\ record'[running[go'[u].name]].slot = None
    <2> SUFFICES ASSUME NEW u \in Launchers, go'[u].pc \in Begins, running[go'[u].name] # None
                 PROVE  running[go'[u].name] = go'[u].agent /\ record'[running[go'[u].name]].slot = None
      OBVIOUS
    <2>1. /\ go'[u] = go[u] /\ Its(u) # a /\ go[u].name \in Names /\ Its(u) = running[go[u].name]
          /\ go[u].pc \in Begins /\ Its(u) # None
      BY <1>11 DEF Its
    <2>2. Its(u) \in Agents /\ Its(u) = go[u].agent /\ record[Its(u)].slot = None
      BY <2>1 DEF Supervised, Sound, Types, RecordTypes
    <2> QED BY <1>2, <2>1, <2>2
  <1>13. \A v, u \in Launchers : go'[v].pc \in Begins /\ go'[u].pc \in Begins
          /\ go'[v].name = go'[u].name => v = u
    BY <1>11 DEF Supervised
  <1> QED BY <1>2, <1>8, <1>9, <1>10, <1>12, <1>13 DEF Supervised, Supervising, Its

LEMMA SupervisedStart ==
  ASSUME Sound, Orderly, Numbered, Phased, Supervised, NEW o \in Obeyers, NEW n \in Names, Start(o, n)
  PROVE  Supervised'
  <1> DEFINE a == created + 1
  <1>1. /\ phase = "serving" /\ go[o].pc = "idle" /\ a \in Agents /\ running[n] = None
        /\ running'[n] = a /\ \A m \in Names : m # n => running'[m] = running[m]
        /\ \A b \in Agents : b # a => record'[b] = record[b]
        /\ record'[a].slot = None
        /\ Others(o) /\ go'[o].pc = "launch" /\ go'[o].name = n /\ go'[o].agent = a
    BY StartEffect
  <1>2. created < MaxAgents
    BY DEF Start
  <1>3. \A t \in Launchers : go[t].pc = "idle"
    BY <1>1, <1>2, Quiet
  <1>4. \A m \in Names : running[m] # None =>
          /\ m # n /\ running[m] \in Agents /\ running[m] # a
          /\ running'[m] = running[m] /\ record'[running[m]] = record[running[m]]
    <2>1. created \in Nat /\ \A m \in Names : running[m] <= created
      BY Kinds DEF Sound, Types, HostTypes, Numbered
    <2>2. \A m \in Names : running[m] # None => running[m] \in Agents /\ running[m] \in Nat
      BY Kinds DEF Sound, Types, RecordTypes
    <2> QED BY <1>1, <2>1, <2>2
  <1>5. /\ "idle" \notin Begins /\ "launch" \in Begins /\ None \notin Agents /\ a # None
        /\ Launchers \subseteq Goroutines /\ Slots \subseteq Goroutines /\ o \in Launchers
        /\ o \notin Slots
    BY <1>1, Kinds DEF Begins
  <1> HIDE DEF a
  <1>6. \A w \in Slots : go'[w] = go[w]
    BY <1>1, <1>5 DEF Others
  <1>7. \A u \in Launchers : go'[u].pc \in Begins => u = o
    BY <1>1, <1>3, <1>5 DEF Others
  <1>8. \A w \in Slots : Supervising(w)' =>
          (Its(w) # None /\ record[Its(w)].slot = w /\ (At(w, "delay") => Its(w) = go[w].agent))'
    <2> SUFFICES ASSUME NEW w \in Slots, go'[w].pc \in Supervises
                 PROVE  (Its(w) # None /\ record[Its(w)].slot = w
                         /\ (At(w, "delay") => Its(w) = go[w].agent))'
      BY DEF Supervising
    <2>1. Supervising(w) /\ go'[w] = go[w] /\ go[w].name \in Names
      BY <1>5, <1>6 DEF Supervising, Sound, Staged, Supervises, Saves
    <2>2. /\ Its(w) # None /\ record[Its(w)].slot = w /\ (go[w].pc = "delay" => Its(w) = go[w].agent)
          /\ Its(w) = running[go[w].name]
      BY <2>1 DEF Supervised, At, Its
    <2>3. running'[go[w].name] = Its(w) /\ record'[Its(w)] = record[Its(w)]
      BY <1>4, <2>1, <2>2
    <2> QED BY <2>1, <2>2, <2>3 DEF Its, At
  <1>9. ASSUME NEW m \in Names, running'[m] # None, record'[running'[m]].slot # None
        PROVE  /\ go'[record'[running'[m]].slot].pc \in Supervises
               /\ go'[record'[running'[m]].slot].name = m
    <2>1. m # n /\ running'[m] = running[m] /\ running[m] # None
          /\ record'[running[m]] = record[running[m]] /\ running[m] \in Agents
      BY <1>1, <1>4, <1>9
    <2>2. record[running[m]].slot \in Slots
      BY <1>9, <2>1 DEF Sound, Types, RecordTypes, Record
    <2> QED BY <1>6, <1>9, <2>1, <2>2 DEF Supervised, Supervising
  <1>10. \A b \in Agents : record'[b].slot # None => \E m \in Names : running'[m] = b
    <2> SUFFICES ASSUME NEW b \in Agents, record'[b].slot # None PROVE \E m \in Names : running'[m] = b
      OBVIOUS
    <2>1. record[b].slot # None
      BY <1>1
    <2>2. PICK m \in Names : running[m] = b
      BY <2>1 DEF Supervised
    <2> QED BY <1>4, <1>5, <2>2
  <1>11. \A u \in Launchers : go'[u].pc \in Begins /\ running'[go'[u].name] # None =>
          running'[go'[u].name] = go'[u].agent /\ record'[running'[go'[u].name]].slot = None
    BY <1>1, <1>7
  <1>12. \A v, u \in Launchers : go'[v].pc \in Begins /\ go'[u].pc \in Begins
          /\ go'[v].name = go'[u].name => v = u
    BY <1>7
  <1> QED BY <1>8, <1>9, <1>10, <1>11, <1>12 DEF Supervised, Supervising, Its

LEMMA SupervisedStep ==
  ASSUME Sound, Orderly, Numbered, Phased, Supervised, Reserving, Owed, Next
  PROVE  Supervised'
  <1>1. Launchers \subseteq Goroutines /\ Slots \subseteq Goroutines /\ Main \in Launchers
        /\ (\A t \in Slots : t \notin Launchers) /\ (\A t \in Watchers : t \notin Slots \cup Launchers)
        /\ Obeyers \subseteq Launchers /\ Launchers = Obeyers \cup {Main}
    BY Kinds DEF Launchers
  <1>2. /\ "idle" \notin Begins \cup Supervises /\ "unlaunched" \notin Begins
        /\ \A pc \in Saves : pc \notin Begins \cup Supervises
        /\ Begins = {"launch", "commit", "forget"}
        /\ Supervises = {"launch", "commit", "waiting", "delay", "clean"}
    BY DEF Begins, Saves, Supervises
  <1>3. CASE \E t \in Goroutines : Launches(t)
    <2>1. PICK t \in Goroutines : Launches(t)
      BY <1>3
    <2>2. /\ UNCHANGED running /\ Others(t)
          /\ \A a \in Agents : record'[a].slot = record[a].slot
          /\ go'[t].name = go[t].name /\ go'[t].agent = go[t].agent
          /\ t \in Launchers => go[t].pc \in {"launch", "commit"} /\ go'[t].pc \in {"commit", "forget"}
          /\ t \in Slots => go[t].pc \in {"launch", "delay", "commit"} /\ go'[t].pc \in {"commit", "clean"}
      BY <2>1, <1>1 DEF Launches, Kept, Holds
    <2>3. \A w \in Slots :
           \/ go'[w] = go[w]
           \/ /\ go[w].pc \in Supervises /\ go'[w].pc \in Supervises /\ go'[w].name = go[w].name
              /\ go'[w].pc = "delay" => go'[w].agent = Its(w)
      BY <1>1, <1>2, <2>2 DEF Others
    <2>4. \A u \in Launchers :
           \/ go'[u] = go[u]
           \/ /\ go[u].pc \in Begins /\ go'[u].pc \in Begins /\ go'[u].name = go[u].name
              /\ go'[u].agent = go[u].agent
      BY <1>1, <1>2, <2>2 DEF Others
    <2> QED BY <2>2, <2>3, <2>4, SupervisedFrame
  <1>4. CASE \E t \in Goroutines : Commits(t)
    BY <1>4, SupervisedCommits
  <1>5. CASE \E t \in Goroutines : Leaves(t)
    BY <1>5, SupervisedLeaves
  <1>6. CASE \E t \in Goroutines : Writes(t)
    <2>1. PICK t \in Goroutines : Writes(t)
      BY <1>6
    <2>2. /\ UNCHANGED running /\ Others(t)
          /\ go[t].pc \in {"idle"} \cup Saves /\ go'[t].pc \in {"idle"} \cup Saves
      BY <2>1 DEF Writes
    <2>3. \A a \in Agents : record'[a].slot = record[a].slot
      BY <2>1 DEF Writes, Kept, Closes
    <2>4. \A u \in Goroutines :
           go'[u] = go[u] \/ (/\ go[u].pc \notin Supervises /\ go'[u].pc \notin Supervises
                              /\ go'[u].pc \notin Begins)
      BY <1>2, <2>2 DEF Others
    <2> QED BY <1>1, <2>2, <2>3, <2>4, SupervisedFrame
  <1>7. CASE \E w \in Slots : Retries(w)
    <2>1. PICK w \in Slots : Retries(w)
      BY <1>7
    <2>2. /\ UNCHANGED running /\ \A a \in Agents : record'[a].slot = record[a].slot
          /\ Others(w) /\ go[w].pc = "waiting" /\ go'[w].pc = "delay" /\ go'[w].name = go[w].name
          /\ go'[w].agent = Its(w)
      BY <2>1 DEF Retries, ExitsAgain
    <2>3. \A u \in Goroutines : u # w => go'[u] = go[u]
      BY <2>2 DEF Others
    <2> QED BY <1>1, <1>2, <2>1, <2>2, <2>3, SupervisedFrame
  <1>8. CASE \E o \in Obeyers, n \in Names : Start(o, n)
    BY <1>8, SupervisedStart
  <1>9. CASE \E t \in Launchers, n \in Names : Stop(t, n)
    <2>1. PICK t \in Launchers, n \in Names : t \in Goroutines /\ Stop(t, n)
      BY <1>9, <1>1
    <2>2. /\ UNCHANGED running
          /\ \A a \in Agents : record'[a].slot = record[a].slot
          /\ UNCHANGED go \/ (Others(t) /\ go'[t].pc = "unlaunched")
      BY <2>1, StopEffect
    <2>3. \A u \in Goroutines : go'[u] = go[u] \/ (u = t /\ go'[u].pc = "unlaunched")
      BY <2>1, <2>2 DEF Others
    <2> QED BY <1>1, <1>2, <2>2, <2>3, SupervisedFrame
  <1>10. CASE \E o \in Obeyers, n \in Names, fresh \in BOOLEAN : Bounce(o, n, fresh)
    <2>1. UNCHANGED running /\ UNCHANGED go /\ \A a \in Agents : record'[a].slot = record[a].slot
      BY <1>10, BounceEffect
    <2> QED BY <1>1, <2>1, SupervisedFrame
  <1>11. CASE \E n \in Names : RestoreNext(n)
    <2>1. PICK n \in Names : RestoreNext(n)
      BY <1>11
    <2>2. /\ phase = "restoring" /\ n \in todo
          /\ UNCHANGED running /\ UNCHANGED record /\ Others(Main) /\ go[Main].pc = "idle"
          /\ go'[Main].pc = "launch" /\ go'[Main].name = n /\ go'[Main].agent = running[n]
      BY <2>1, RestoreNextEffect
    <2>3. \A u \in Goroutines : u # Main => go'[u] = go[u]
      BY <2>2 DEF Others
    <2>4. \A u \in Launchers : go'[u].pc \in Begins => u = Main
      BY <1>1, <1>2, <2>2, <2>3 DEF Phased, At
    <2>5. record[running[n]].slot = None
      BY <2>2 DEF Phased
    <2>6. \A w \in Slots : go'[w] = go[w]
      BY <1>1, <2>3
    <2>7. \A w \in Slots : Supervising(w)' =>
            (Its(w) # None /\ record[Its(w)].slot = w /\ (At(w, "delay") => Its(w) = go[w].agent))'
      BY <2>2, <2>6 DEF Supervised, Supervising, Its, At
    <2>8. \A m \in Names : running[m] # None /\ record[running[m]].slot # None =>
            go'[record[running[m]].slot].pc \in Supervises /\ go'[record[running[m]].slot].name = m
      <3>1. \A m \in Names : running[m] # None /\ record[running[m]].slot # None =>
              record[running[m]].slot \in Slots
        BY DEF Sound, Types, RecordTypes, Record
      <3> QED BY <2>6, <3>1 DEF Supervised, Supervising
    <2>9. \A a \in Agents : record[a].slot # None => \E m \in Names : running[m] = a
      BY DEF Supervised
    <2> QED BY <2>2, <2>4, <2>5, <2>7, <2>8, <2>9 DEF Supervised, Supervising, Its
  <1>12. CASE Happens
    <2>1. UNCHANGED running /\ UNCHANGED go /\ UNCHANGED record
      BY <1>12 DEF Happens
    <2> QED BY <1>1, <2>1, SupervisedFrame
  <1>13. CASE Restart
    <2>1. /\ \A t \in Goroutines : go'[t].pc = "idle"
          /\ \A a \in Agents : record'[a].slot = None
          /\ \A n \in Names : running'[n] # None => running'[n] \in Agents
      BY <1>1, <1>13, RestartEffect, Resting DEF RecordTypes
    <2> QED BY <1>1, <1>2, <2>1 DEF Supervised, Supervising, At
  <1> QED BY <1>3, <1>4, <1>5, <1>6, <1>7, <1>8, <1>9, <1>10, <1>11, <1>12, <1>13, Classes

-----------------------------------------------------------------------------
(* A process that was started is nobody else's until a record has it.      *)

LEMMA ReservingFrame ==
  ASSUME Sound, Reserving,
         \A t \in Goroutines : go'[t].pc = "commit" =>
           go[t].pc = "commit" /\ go'[t].slot = go[t].slot,
         \A s \in Slots : go[s].pc = "idle" => go'[s].pc = "idle" /\ (s \in alive => s \in alive')
  PROVE  Reserving'
  <1>1. \A t \in Goroutines : go'[t].pc = "commit" =>
          /\ go'[t].slot = go[t].slot /\ go[t].slot \in Slots
          /\ go[t].slot \in alive /\ go[go[t].slot].pc = "idle"
    BY DEF Reserving, Sound, Staged, At
  <1> QED BY <1>1 DEF Reserving, At

LEMMA ReservingStep ==
  ASSUME Sound, Numbered, Phased, Supervised, Reserving, Owed, Next
  PROVE  Reserving'
  <1>1. Slots \subseteq Goroutines /\ (\A t \in Launchers \cup Watchers : t \notin Slots)
        /\ Launchers \subseteq Goroutines /\ Obeyers \subseteq Launchers /\ Main \in Launchers
    BY Kinds
  <1>2. ASSUME NEW t \in Goroutines, Others(t), alive \subseteq alive',
               go[t].pc = "idle" /\ t \in Slots => go'[t].pc = "idle",
               go'[t].pc = "commit" => go[t].pc = "commit" /\ go'[t].slot = go[t].slot
        PROVE  Reserving'
    <2>1. \A u \in Goroutines : u # t => go'[u] = go[u]
      BY <1>2 DEF Others
    <2> QED BY <1>1, <1>2, <2>1, ReservingFrame
  <1>3. CASE \E t \in Goroutines : Launch(t)
    <2>1. PICK t \in Goroutines : Launch(t)
      BY <1>3
    <2>2. CASE go'[t].pc # "commit"
      <3>1. Others(t) /\ UNCHANGED alive /\ go[t].pc # "idle"
        BY <2>1, <2>2, LaunchEffect
      <3> QED BY <1>2, <2>2, <3>1
    <2>3. CASE go'[t].pc = "commit"
      <3> DEFINE s == go'[t].slot
      <3>1. /\ Others(t) /\ s \in Slots /\ go[s].pc = "idle" /\ s \notin alive
            /\ alive' = alive \cup {s} /\ go[t].pc # "idle" /\ s # t
        BY <2>1, <2>3, LaunchEffect, Kinds DEF At
      <3>2. \A u \in Goroutines : u # t => go'[u] = go[u]
        BY <3>1 DEF Others
      <3>3. \A u \in Goroutines : u # t /\ go'[u].pc = "commit" =>
              /\ go[u].pc = "commit" /\ go'[u].slot = go[u].slot /\ go[u].slot \in Slots
              /\ go[u].slot \in alive /\ go[go[u].slot].pc = "idle"
        BY <3>2 DEF Reserving, Sound, Staged, At
      <3>4. \A v \in Slots : go[v].pc = "idle" => go'[v].pc = "idle"
        BY <1>1, <3>1, <3>2
      <3> HIDE DEF s
      <3>5. s = go'[t].slot
        BY DEF s
      <3> QED BY <1>1, <3>1, <3>3, <3>4, <3>5 DEF Reserving, At
    <2> QED BY <2>2, <2>3
  <1>4. CASE \E t \in Goroutines : Commit(t)
    <2>1. PICK t \in Goroutines : Commit(t)
      BY <1>4
    <2> DEFINE s == go[t].slot
    <2>2. /\ go[t].pc = "commit" /\ s \in Slots /\ s # t /\ s \in Goroutines
      BY <1>1, <2>1, CommitEffect DEF Sound, Staged, At, Reserving
    <2>3. \A u \in Goroutines : u # t /\ go[u].pc = "commit" => go[u].slot # s
      BY <2>2 DEF Reserving, At
    <2>4. \A u \in Goroutines : go[u].pc = "commit" =>
            /\ go[u].slot \in Slots /\ go[u].slot \in alive /\ go[go[u].slot].pc = "idle"
      BY DEF Reserving, Sound, Staged, At
    <2>5. /\ \A u \in Goroutines : u \notin {s, t} => go'[u] = go[u]
          /\ go'[t].pc # "commit" /\ go'[s].pc # "commit"
          /\ alive' = alive \/ alive' = alive \ {s}
      <3>1. CASE CommitFails(t)
        BY <2>2, <2>4, <3>1 DEF CommitFails, Others
      <3>2. CASE CommitWorks(t)
        BY <2>2, <3>2, Resting DEF CommitWorks
      <3> QED BY <2>1, <3>1, <3>2, CommitEffect
    <2> HIDE DEF s
    <2>6. \A u \in Goroutines : go'[u].pc = "commit" =>
            /\ u \notin {s, t} /\ go'[u] = go[u] /\ go[u].slot # s /\ go[u].slot # t
      BY <2>2, <2>3, <2>4, <2>5
    <2>7. \A u \in Goroutines : go'[u].pc = "commit" =>
            /\ go'[u].slot = go[u].slot /\ go[u].pc = "commit"
            /\ go'[u].slot \in alive' /\ go'[go'[u].slot].pc = "idle"
      BY <1>1, <2>4, <2>5, <2>6
    <2> QED BY <2>7 DEF Reserving, At
  <1>5. CASE \E t \in Goroutines : Leaves(t)
    <2>1. PICK t \in Goroutines : Leaves(t)
      BY <1>5
    <2>2. Others(t) /\ UNCHANGED alive /\ go'[t].pc \in {"idle", "save"} /\ (t \in Slots => go[t].pc # "idle")
      BY <2>1, Kinds DEF Leaves, Supervising, Supervises
    <2> QED BY <1>2, <2>2
  <1>6. CASE \E t \in Goroutines : Writes(t)
    <2>1. PICK t \in Goroutines : Writes(t)
      BY <1>6
    <2>2. Others(t) /\ UNCHANGED alive /\ go'[t].pc \in {"idle"} \cup Saves
          /\ (t \in Slots => go[t].pc # "idle")
      BY <1>1, <2>1 DEF Writes
    <2> QED BY <1>2, <2>2 DEF Saves
  <1>7. CASE \E w \in Slots : Retries(w)
    <2>1. PICK w \in Slots : Retries(w)
      BY <1>7
    <2>2. Others(w) /\ UNCHANGED alive /\ go[w].pc = "waiting" /\ go'[w].pc = "delay" /\ w \in Goroutines
      BY <1>1, <2>1 DEF Retries, ExitsAgain
    <2> QED BY <1>2, <2>2
  <1>8. CASE \E o \in Obeyers, n \in Names : Start(o, n)
    <2>1. PICK o \in Obeyers, n \in Names : Start(o, n)
      BY <1>8
    <2>2. Others(o) /\ UNCHANGED alive /\ go'[o].pc = "launch" /\ o \in Goroutines /\ o \notin Slots
      BY <1>1, <2>1, StartEffect
    <2> QED BY <1>2, <2>2
  \* A process that is killed is one that its wait goroutine watches.
  <1>9. ASSUME NEW a \in Agents, alive' = alive \ {record[a].slot}, NEW t \in Launchers,
               UNCHANGED go \/ (Others(t) /\ go'[t].pc = "unlaunched")
        PROVE  Reserving'
    <2>1. record[a].slot # None => Supervising(record[a].slot)
      <3>1. record[a].slot # None => \E n \in Names : running[n] = a
        BY DEF Supervised
      <3>2. a # None
        BY Kinds
      <3> QED BY <3>1, <3>2 DEF Supervised
    <2>2. record[a].slot = None => alive' = alive
      BY <1>9, Kinds DEF Sound, Types, HostTypes
    <2>3. \A s \in Slots : go[s].pc = "idle" /\ s \in alive => s \in alive'
      BY <1>9, <2>1, <2>2 DEF Supervising, Supervises
    <2>4. \A u \in Goroutines : go'[u] = go[u] \/ (u = t /\ go'[u].pc = "unlaunched")
      BY <1>9 DEF Others
    <2> QED BY <1>1, <2>3, <2>4, ReservingFrame
  <1>10. CASE \E t \in Launchers, n \in Names : Stop(t, n)
    <2>1. PICK t \in Launchers, n \in Names : t \in Goroutines /\ Stop(t, n)
      BY <1>1, <1>10
    <2>2. PICK a \in Agents : alive' = alive \ {record[a].slot}
                              /\ (UNCHANGED go \/ (Others(t) /\ go'[t].pc = "unlaunched"))
      BY <2>1, StopEffect
    <2> QED BY <1>9, <2>2
  <1>11. CASE \E o \in Obeyers, n \in Names, fresh \in BOOLEAN : Bounce(o, n, fresh)
    <2>1. PICK a \in Agents : alive' = alive \ {record[a].slot} /\ UNCHANGED go
      BY <1>11, BounceEffect
    <2> QED BY <1>1, <1>9, <2>1
  <1>12. CASE \E n \in Names : RestoreNext(n)
    <2>1. Others(Main) /\ UNCHANGED alive /\ go'[Main].pc = "launch" /\ Main \in Goroutines /\ Main \notin Slots
      BY <1>1, <1>12, RestoreNextEffect
    <2> QED BY <1>2, <2>1
  <1>13. CASE Happens
    <2>1. UNCHANGED go /\ (UNCHANGED alive \/ \E s \in Slots : go[s].pc = "waiting" /\ alive' = alive \ {s})
      BY <1>13 DEF Happens
    <2> QED BY <2>1, ReservingFrame
  <1>14. CASE Restart
    <2>1. \A t \in Goroutines : go'[t].pc = "idle"
      BY <1>14, RestartEffect, Resting
    <2> QED BY <2>1 DEF Reserving, At
  <1> QED BY <1>3, <1>4, <1>5, <1>6, <1>7, <1>8, <1>10, <1>11, <1>12, <1>13, <1>14, Classes

-----------------------------------------------------------------------------
(* Who saves, and what is in the state file.                               *)

Saving(t) == go[t].pc \in {"records", "write"}

\* Every other step leaves the disk and whoever is writing alone; nothing but a
\* save closes a channel.
LEMMA Apart ==
  ASSUME Sound, Numbered, Supervised, Reserving, Owed, Next
  PROVE  \/ Restart \/ \E t \in Goroutines : SaveStep(t) /\ Writes(t)
         \/ /\ UNCHANGED diskVars
            /\ \A u \in Goroutines : go'[u].pc \in {"records", "write"} <=> Saving(u)
            /\ \A u \in Goroutines : Saving(u) => go'[u] = go[u]
            /\ \A a \in Agents : record'[a].done # record[a].done => record'[a].done = 0
            /\ phase = "closing" => phase' = "closing"
  <1> SUFFICES ASSUME ~Restart, ~\E t \in Goroutines : SaveStep(t)
               PROVE  /\ UNCHANGED diskVars
                      /\ \A u \in Goroutines : go'[u].pc \in {"records", "write"} <=> Saving(u)
                      /\ \A u \in Goroutines : Saving(u) => go'[u] = go[u]
                      /\ \A a \in Agents : record'[a].done # record[a].done => record'[a].done = 0
                      /\ phase = "closing" => phase' = "closing"
    BY Writing
  <1>1. UNCHANGED diskVars
    BY DiskStep DEF SaveStep
  <1>2. Launchers \subseteq Goroutines /\ Slots \subseteq Goroutines /\ Main \in Launchers
        /\ Obeyers \subseteq Launchers
    BY Kinds DEF Launchers
  <1>3. ASSUME NEW t \in Goroutines, Others(t), ~Saving(t), go'[t].pc \notin {"records", "write"}
        PROVE  \A u \in Goroutines :
                 /\ go'[u].pc \in {"records", "write"} <=> Saving(u)
                 /\ Saving(u) => go'[u] = go[u]
    BY <1>3 DEF Others, Saving
  <1>4. CASE \E t \in Goroutines : Launches(t)
    <2>1. PICK t \in Goroutines : Launches(t)
      BY <1>4
    <2>2. /\ Others(t) /\ ~Saving(t) /\ go'[t].pc \notin {"records", "write"}
          /\ UNCHANGED phase /\ \A a \in Agents : record'[a].done = record[a].done
      BY <2>1 DEF Launches, Saving, hostVars, Kept
    <2> QED BY <1>1, <1>3, <2>2
  <1>5. CASE \E t \in Goroutines : Commit(t) /\ Commits(t)
    <2>1. PICK t \in Goroutines : Commits(t)
      BY <1>5
    <2>2. PICK s \in Slots : s = go[t].slot
      BY <2>1 DEF Commits, CommitWorks
    <2>3. /\ go[t].pc = "commit" /\ go[s].pc = "idle" /\ s # t
      BY <2>1, <2>2 DEF Commits, Reserving, At
    <2>4. /\ \A u \in Goroutines : u \notin {s, t} => go'[u] = go[u]
          /\ go'[s].pc = "waiting" /\ go'[t].pc \in {"idle", "save"}
          /\ UNCHANGED phase /\ \A a \in Agents : record'[a].done = record[a].done
      BY <2>1, <2>2, <2>3, Resting DEF Commits, CommitWorks, hostVars
    <2> QED BY <1>1, <2>3, <2>4 DEF Saving
  <1>6. CASE \E t \in Goroutines : Leaves(t)
    <2>1. PICK t \in Goroutines : Leaves(t)
      BY <1>6
    <2>2. /\ Others(t) /\ ~Saving(t) /\ go'[t].pc \notin {"records", "write"}
          /\ UNCHANGED phase /\ \A a \in Agents : record'[a].done = record[a].done
      BY <2>1 DEF Leaves, Forgets, Saving, Supervising, Supervises, hostVars
    <2> QED BY <1>1, <1>3, <2>2
  <1>7. CASE \E t \in Goroutines : Writes(t) /\ Watches(t)
    <2>1. PICK t \in Goroutines : Writes(t) /\ Watches(t)
      BY <1>7
    <2>2. /\ Others(t) /\ ~Saving(t) /\ go'[t].pc \notin {"records", "write"}
          /\ UNCHANGED phase /\ \A a \in Agents : record'[a].done = record[a].done
      BY <2>1 DEF Writes, Watches, Saving, hostVars, Kept
    <2> QED BY <1>1, <1>3, <2>2
  <1>8. CASE \E w \in Slots : Retries(w)
    <2>1. PICK w \in Slots : Retries(w)
      BY <1>8
    <2>2. /\ Others(w) /\ ~Saving(w) /\ go'[w].pc \notin {"records", "write"}
          /\ UNCHANGED phase /\ \A a \in Agents : record'[a].done = record[a].done
      BY <2>1 DEF Retries, ExitsAgain, Saving, hostVars
    <2> QED BY <1>1, <1>2, <1>3, <2>2
  <1>9. CASE \E o \in Obeyers, n \in Names : Start(o, n)
    <2>1. PICK o \in Obeyers, n \in Names : Start(o, n)
      BY <1>9
    <2>2. /\ Others(o) /\ ~Saving(o) /\ go'[o].pc \notin {"records", "write"}
          /\ UNCHANGED phase
      BY <2>1, StartEffect DEF Saving
    <2>3. \A a \in Agents : record'[a].done = record[a].done \/ record'[a].done = 0
      BY <2>1, StartEffect
    <2> QED BY <1>1, <1>2, <1>3, <2>2, <2>3
  <1>10. CASE \E t \in Launchers, n \in Names : Stop(t, n)
    <2>1. PICK t \in Launchers, n \in Names : t \in Goroutines /\ Stop(t, n)
      BY <1>2, <1>10
    <2>2. UNCHANGED phase /\ go[t].pc = "idle"
          /\ (UNCHANGED go \/ (Others(t) /\ go'[t].pc = "unlaunched"))
      BY <2>1, StopEffect DEF hostVars, Obeys, At
    <2>3. \A a \in Agents : record'[a].done = record[a].done
      BY <2>1, StopEffect
    <2>4. UNCHANGED go \/ \A u \in Goroutines :
                 /\ go'[u].pc \in {"records", "write"} <=> Saving(u)
                 /\ Saving(u) => go'[u] = go[u]
      BY <1>3, <2>1, <2>2 DEF Saving
    <2> QED BY <1>1, <2>2, <2>3, <2>4 DEF Saving
  <1>11. CASE \E o \in Obeyers, n \in Names, fresh \in BOOLEAN : Bounce(o, n, fresh)
    <2>1. PICK o \in Obeyers, n \in Names, fresh \in BOOLEAN : Bounce(o, n, fresh)
      BY <1>11
    <2>2. UNCHANGED phase /\ UNCHANGED go /\ \A a \in Agents : record'[a].done = record[a].done
      BY <2>1, BounceEffect DEF hostVars
    <2> QED BY <1>1, <2>2 DEF Saving
  <1>12. CASE \E n \in Names : RestoreNext(n)
    <2>1. /\ Others(Main) /\ ~Saving(Main) /\ go'[Main].pc \notin {"records", "write"}
          /\ UNCHANGED phase /\ UNCHANGED record
      BY <1>12, RestoreNextEffect DEF Saving
    <2> QED BY <1>1, <1>2, <1>3, <2>1
  <1>13. CASE Happens
    BY <1>1, <1>13 DEF Happens, RestoreDone, Shutdown, Saving
  <1> QED BY <1>4, <1>5, <1>6, <1>7, <1>8, <1>9, <1>10, <1>11, <1>12, <1>13, Classes

LEMMA LockedStep ==
  ASSUME Sound, Numbered, Supervised, Reserving, Owed, Locked, Next
  PROVE  Locked'
  <1>1. Nobody \notin Goroutines /\ Rest.pc = "idle"
    BY Kinds, Resting
  <1>2. CASE Restart
    BY <1>1, <1>2, RestartEffect DEF Locked
  <1>3. CASE \E t \in Goroutines : SaveLock(t)
    <2>1. PICK t \in Goroutines : SaveLock(t)
      BY <1>3
    <2>2. go[t].pc = "save" /\ Others(t) /\ writer = Nobody
          /\ (\/ go'[t].pc = "idle" /\ UNCHANGED writer
              \/ go'[t].pc = "records" /\ writer' = t)
      BY <1>1, <2>1, SaveLockEffect DEF Returned
    <2> QED BY <1>1, <2>2 DEF Locked, Others
  <1>4. CASE \E t \in Goroutines : SaveRecords(t)
    <2>1. PICK t \in Goroutines : SaveRecords(t)
      BY <1>4
    <2>2. go[t].pc = "records" /\ Others(t) /\ UNCHANGED writer /\ go'[t].pc = "write"
      BY <2>1, SaveRecordsEffect
    <2> QED BY <2>2 DEF Locked, Others
  <1>5. CASE \E t \in Goroutines : SaveWrite(t)
    <2>1. PICK t \in Goroutines : SaveWrite(t)
      BY <1>5
    <2>2. go[t].pc = "write" /\ Others(t) /\ writer' = Nobody /\ go'[t].pc = "idle"
      BY <1>1, <2>1, SaveWriteEffect DEF Returned
    <2> QED BY <1>1, <2>2 DEF Locked, Others
  <1>6. CASE /\ UNCHANGED diskVars
             /\ \A u \in Goroutines : go'[u].pc \in {"records", "write"} <=> Saving(u)
    BY <1>6 DEF Locked, Saving, diskVars
  <1> QED BY <1>2, <1>3, <1>4, <1>5, <1>6, Apart DEF SaveStep

\* Whoever is stopped leaves the state file before the stop is reported.
LEMMA ErasedStep ==
  ASSUME Sound, Numbered, Supervised, Reserving, Owed, Locked, Erased, Next
  PROVE  Erased'
  <1>0. \A a \in Agents : record[a].done \in Nat /\ ~(0 > 0) /\ ~(record[a].done > 0 /\ record[a].done = 0)
    BY DEF Sound, Types, RecordTypes, Record
  <1>1. Nobody \notin Goroutines /\ Rest.pc = "idle"
    BY Kinds, Resting
  <1>2. CASE Restart
    <2>1. /\ \A t \in Goroutines : go'[t].pc # "write"
          /\ \A a \in Agents : ~(record'[a].done > 0)
      BY <1>1, <1>2, RestartEffect
    <2> QED BY <2>1 DEF Erased, Gones, At
  <1>3. CASE \E t \in Goroutines : SaveLock(t)
    <2>1. PICK t \in Goroutines : SaveLock(t)
      BY <1>3
    <2>2. CASE phase = "closing"
      BY <2>1, <2>2, SaveLockEffect DEF Erased, hostVars
    <2>3. CASE phase # "closing"
      <3>1. /\ Others(t) /\ go'[t].pc = "records" /\ UNCHANGED <<phase, record, snapshot, file, health>>
        BY <2>1, <2>3, SaveLockEffect DEF hostVars
      <3> QED BY <2>3, <3>1 DEF Erased, Gones, At, Others
    <2> QED BY <2>2, <2>3
  <1>4. CASE \E t \in Goroutines : SaveRecords(t)
    <2>1. PICK t \in Goroutines : SaveRecords(t)
      BY <1>4
    <2>2. /\ Others(t) /\ UNCHANGED <<phase, record, file, health>>
          /\ \A u \in Goroutines : u # t => snapshot'[u] = snapshot[u]
          /\ \A n \in Names : snapshot'[t][n].agent = running[n]
          /\ go'[t].agent = go[t].agent /\ go'[t].then = go[t].then /\ go[t].pc = "records"
      BY <2>1, SaveRecordsEffect DEF hostVars, Holds
    <2>3. ASSUME NEW n \in Names
          PROVE  /\ running[n] \notin Gones
                 /\ go[t].then = "done" => running[n] # go[t].agent
      <3>1. running[n] \notin Gones
        BY DEF Owed, Gones
      <3>2. ASSUME go[t].then = "done" PROVE running[n] # go[t].agent
        <4>1. go[t].agent \in Agents /\ Owes(t, go[t].agent) /\ ~At(t, "unlaunched")
          BY <2>2, <3>2 DEF Sound, Staged, Owes, At
        <4> QED BY <4>1 DEF Owed
      <3> QED BY <3>1, <3>2
    <2> QED BY <2>2, <2>3 DEF Erased, Gones, At, Others
  <1>5. CASE \E t \in Goroutines : SaveWrite(t)
    <2>1. PICK t \in Goroutines : SaveWrite(t)
      BY <1>5
    <2>2. /\ UNCHANGED phase /\ go[t].pc = "write"
          /\ \/ file' = snapshot[t]
             \/ ~health'
          /\ IF go[t].then = "done" THEN go[t].agent \in Agents /\ Closes(go[t].agent)
             ELSE UNCHANGED record
          /\ Others(t) /\ go'[t] = Rest
      BY <2>1, SaveWriteEffect DEF hostVars, Returned
    <2>3. \A u \in Goroutines : go'[u].pc # "write"
      BY <1>1, <2>2 DEF Locked, Others
    <2>4. \A a \in Gones' : a \in Gones \/ (go[t].then = "done" /\ a = go[t].agent)
      BY <2>2 DEF Gones, Closes
    <2> QED BY <2>2, <2>3, <2>4 DEF Erased, At
  <1>6. CASE /\ UNCHANGED diskVars
             /\ \A u \in Goroutines : go'[u].pc \in {"records", "write"} <=> Saving(u)
             /\ \A u \in Goroutines : Saving(u) => go'[u] = go[u]
             /\ \A a \in Agents : record'[a].done # record[a].done => record'[a].done = 0
             /\ phase = "closing" => phase' = "closing"
    <2>1. \A a \in Gones' : a \in Gones
      BY <1>0, <1>6 DEF Gones
    <2>2. \A u \in Goroutines : go'[u].pc = "write" => go[u].pc = "write" /\ go'[u] = go[u]
      BY <1>6 DEF Saving
    <2> QED BY <1>6, <2>1, <2>2 DEF Erased, diskVars, At
  <1> QED BY <1>2, <1>3, <1>4, <1>5, <1>6, Apart DEF SaveStep

-----------------------------------------------------------------------------
(* Who is to close the channel of a stopped agent.                         *)

\* Nobody who owes it is disturbed, and nobody else comes to owe it.
LEMMA OwedFrame ==
  ASSUME Sound, Owed, UNCHANGED running,
         \A a \in Agents :
           /\ record'[a].done = record[a].done
           /\ record'[a].stopping <=> record[a].stopping
           /\ record'[a].slot = record[a].slot \/ ~record[a].stopping,
         \A u \in Goroutines :
           \/ go'[u] = go[u]
           \/ go'[u].pc # "unlaunched" /\ go'[u].then = "idle"
           \/ /\ go[u].pc # "unlaunched" /\ go'[u].pc # "unlaunched"
              /\ go'[u].agent = go[u].agent /\ go'[u].then = go[u].then,
         phase = "closing" => phase' = "closing"
  PROVE  Owed'
  <1>1. \A u \in Goroutines : go'[u].pc = "unlaunched" => go'[u] = go[u]
    OBVIOUS
  <1>2. \A u \in Goroutines, a \in Agents :
          go'[u].agent = a /\ (go'[u].pc = "unlaunched" \/ go'[u].then = "done") =>
            Owes(u, a) /\ (go[u].pc = "unlaunched" => go'[u] = go[u])
    BY DEF Owes, At
  <1>3. \A a \in Agents : record[a].slot # record'[a].slot => \A u \in Goroutines : ~Owes(u, a)
    BY DEF Owed
  <1>4. \A a \in Agents : record'[a].done > 0 =>
          record'[a].done = 1 /\ record'[a].stopping /\ \A n \in Names : running'[n] # a
    BY DEF Owed
  <1>5. \A a \in Agents, u \in Goroutines :
          go'[u].agent = a /\ (go'[u].pc = "unlaunched" \/ go'[u].then = "done") =>
            /\ record'[a].done = 0 /\ record'[a].stopping /\ record'[a].slot = None
            /\ \A n \in Names : running'[n] = a => go'[u].pc = "unlaunched" /\ go'[u].name = n
    BY <1>2, <1>3 DEF Owed, At
  <1>6. \A a \in Agents, t, u \in Goroutines :
          go'[u].agent = a /\ (go'[u].pc = "unlaunched" \/ go'[u].then = "done")
          /\ go'[t].agent = a /\ (go'[t].pc = "unlaunched" \/ go'[t].then = "done") => t = u
    BY <1>2 DEF Owed
  <1>7. \A u \in Goroutines : go'[u].pc = "unlaunched" =>
          /\ running'[go'[u].name] \in {None, go'[u].agent}
          /\ phase' = "closing" \/ MaxAgents <= 1
    BY <1>1 DEF Owed, At, Its
  <1> QED BY <1>4, <1>5, <1>6, <1>7 DEF Owed, Owes, At, Its

\* The one that looked after a stopped agent's record is the one to say so.
LEMMA OwedLeaves ==
  ASSUME Sound, Numbered, Supervised, Owed, NEW t \in Goroutines, Leaves(t)
  PROVE  Owed'
  <1>1. PICK n \in Names : n = go[t].name
    BY DEF Leaves
  <1>2. /\ UNCHANGED phase /\ Others(t) /\ Its(t) = running[n]
        /\ running'[n] = None /\ \A m \in Names : m # n => running'[m] = running[m]
        /\ \A a \in Agents : a # running[n] => record'[a] = record[a]
        /\ \A a \in Agents : a = running[n] =>
             /\ record'[a].slot = None /\ record'[a].done = record[a].done
             /\ record'[a].stopping <=> record[a].stopping
    BY <1>1 DEF Leaves, Forgets, Its, hostVars
  <1>3. \A a \in Agents :
          /\ record'[a].done = record[a].done /\ record'[a].slot \in {None, record[a].slot}
          /\ record'[a].stopping <=> record[a].stopping
    BY <1>2
  <1>4. \A m \in Names : running'[m] # None => m # n /\ running'[m] = running[m]
    BY <1>2
  \* What it comes to owe, nobody owes yet.
  <1>5. ASSUME NEW b \in Agents, go'[t].agent = b, go'[t].pc = "unlaunched" \/ go'[t].then = "done"
        PROVE  /\ record[b].done = 0 /\ record[b].stopping /\ record'[b].slot = None
               /\ \A m \in Names : running'[m] # b
               /\ \A u \in Goroutines : Owes(u, b) => u = t
    <2>1. /\ record[b].stopping
          /\ \/ t \in Slots /\ Supervising(t) /\ b = Its(t)
             \/ go[t].pc = "unlaunched" /\ b = go[t].agent
      BY <1>5, Kinds DEF Leaves, Supervising, Supervises
    <2>2. record[b].done \in Nat /\ b # None
      BY Kinds DEF Sound, Types, RecordTypes, Record
    <2>3. CASE t \in Slots /\ Supervising(t) /\ b = Its(t)
      <3>1. record[b].slot = t /\ t # None
        BY <2>3, Kinds DEF Supervised
      <3>2. running[n] = b /\ \A m \in Names : m # n => running[m] # b
        BY <1>1, <1>2, <2>2, <2>3, OneName
      <3>3. record[b].done = 0
        BY <2>2, <3>2 DEF Owed
      <3>4. \A u \in Goroutines : ~Owes(u, b)
        BY <3>1 DEF Owed
      <3>5. \A m \in Names : running'[m] # b
        BY <1>4, <2>2, <3>2
      <3> QED BY <1>2, <2>1, <3>2, <3>3, <3>4, <3>5
    <2>4. CASE go[t].pc = "unlaunched" /\ b = go[t].agent
      <3>1. Owes(t, b)
        BY <2>4 DEF Owes, At
      <3>2. /\ record[b].done = 0 /\ record[b].slot = None
            /\ \A m \in Names : running[m] = b => m = n
            /\ \A u \in Goroutines : Owes(u, b) => u = t
        BY <1>1, <3>1 DEF Owed
      <3>3. \A m \in Names : running'[m] # b
        BY <1>4, <2>2, <3>2
      <3> QED BY <1>3, <2>1, <3>2, <3>3
    <2> QED BY <2>1, <2>3, <2>4
  <1>6. \A u \in Goroutines, a \in Agents : u # t
          /\ go'[u].agent = a /\ (go'[u].pc = "unlaunched" \/ go'[u].then = "done") =>
            go'[u] = go[u] /\ Owes(u, a)
    BY <1>2 DEF Others, Owes, At
  <1>7. \A a \in Agents : record'[a].done > 0 =>
          record'[a].done = 1 /\ record'[a].stopping /\ \A m \in Names : running'[m] # a
    <2>1. None \notin Agents
      BY Kinds
    <2> QED BY <1>3, <1>4, <2>1 DEF Owed
  <1>8. \A a \in Agents, u \in Goroutines :
          go'[u].agent = a /\ (go'[u].pc = "unlaunched" \/ go'[u].then = "done") =>
            /\ record'[a].done = 0 /\ record'[a].stopping /\ record'[a].slot = None
            /\ \A m \in Names : running'[m] = a => go'[u].pc = "unlaunched" /\ go'[u].name = m
    <2> SUFFICES ASSUME NEW a \in Agents, NEW u \in Goroutines, go'[u].agent = a,
                        go'[u].pc = "unlaunched" \/ go'[u].then = "done"
                 PROVE  /\ record'[a].done = 0 /\ record'[a].stopping /\ record'[a].slot = None
                        /\ \A m \in Names : running'[m] = a => go'[u].pc = "unlaunched" /\ go'[u].name = m
      OBVIOUS
    <2>1. CASE u = t
      BY <1>3, <1>5, <2>1
    <2>2. CASE u # t
      <3>1. go'[u] = go[u] /\ Owes(u, a)
        BY <1>6, <2>2
      <3>2. /\ record[a].done = 0 /\ record[a].stopping /\ record[a].slot = None
            /\ \A m \in Names : running[m] = a => go[u].pc = "unlaunched" /\ go[u].name = m
        BY <3>1 DEF Owed, At
      <3>3. a # None
        BY Kinds
      <3> QED BY <1>3, <1>4, <3>1, <3>2, <3>3
    <2> QED BY <2>1, <2>2
  <1>9. \A a \in Agents, v, u \in Goroutines :
          go'[u].agent = a /\ (go'[u].pc = "unlaunched" \/ go'[u].then = "done")
          /\ go'[v].agent = a /\ (go'[v].pc = "unlaunched" \/ go'[v].then = "done") => v = u
    <2>1. \A a \in Agents, v, u \in Goroutines : Owes(v, a) /\ Owes(u, a) => v = u
      BY DEF Owed
    <2> QED BY <1>5, <1>6, <2>1
  <1>10. \A u \in Goroutines : go'[u].pc = "unlaunched" =>
          /\ running'[go'[u].name] \in {None, go'[u].agent}
          /\ phase' = "closing" \/ MaxAgents <= 1
    <2> SUFFICES ASSUME NEW u \in Goroutines, go'[u].pc = "unlaunched"
                 PROVE  /\ running'[go'[u].name] \in {None, go'[u].agent}
                        /\ phase' = "closing" \/ MaxAgents <= 1
      OBVIOUS
    <2>1. u # t
      BY DEF Leaves
    <2>2. go'[u] = go[u] /\ go[u].pc = "unlaunched" /\ go[u].name \in Names
      BY <1>2, <2>1 DEF Others, Sound, Staged, Saves
    <2>3. running[go[u].name] \in {None, go[u].agent} /\ (phase = "closing" \/ MaxAgents <= 1)
      BY <2>2 DEF Owed, At, Its
    <2> QED BY <1>2, <2>2, <2>3
  <1> QED BY <1>7, <1>8, <1>9, <1>10 DEF Owed, Owes, At, Its

\* The channel is closed by the only one that owes it, once.
LEMMA OwedCloses ==
  ASSUME Sound, Owed, NEW t \in Goroutines, go[t].then = "done", go[t].agent \in Agents,
         go[t].pc \in Saves, Closes(go[t].agent), Others(t), go'[t] = Rest,
         UNCHANGED <<running, phase>>
  PROVE  Owed'
  <1>1. PICK a \in Agents : a = go[t].agent
    OBVIOUS
  <1>2. Owes(t, a) /\ go[t].pc # "unlaunched" /\ Rest.pc = "idle" /\ Rest.then = "idle"
    BY <1>1, Resting DEF Owes, At, Saves
  <1>3. /\ record[a].done = 0 /\ record[a].stopping /\ \A n \in Names : running[n] # a
        /\ \A u \in Goroutines : Owes(u, a) => u = t
    BY <1>2 DEF Owed, At
  <1>4. /\ record'[a].done = 1 /\ record'[a].stopping
        /\ \A b \in Agents : b # a => record'[b] = record[b]
    BY <1>1, <1>3 DEF Closes
  <1>5. \A u \in Goroutines :
          go'[u].pc = "unlaunched" \/ go'[u].then = "done" =>
            /\ go'[u] = go[u] /\ go[u].agent # a /\ Owes(u, go[u].agent)
            /\ At(u, "unlaunched") => go[u].agent \in Agents
    BY <1>2, <1>3 DEF Others, Owes, At, Sound, Staged
  <1>6. \A b \in Agents, u \in Goroutines :
          go'[u].agent = b /\ (go'[u].pc = "unlaunched" \/ go'[u].then = "done") =>
            go'[u] = go[u] /\ b # a /\ record'[b] = record[b] /\ Owes(u, b)
    BY <1>4, <1>5
  <1>7. \A b \in Agents : record'[b].done > 0 =>
          record'[b].done = 1 /\ record'[b].stopping /\ \A n \in Names : running'[n] # b
    BY <1>3, <1>4 DEF Owed
  <1>8. \A b \in Agents, u \in Goroutines :
          go'[u].agent = b /\ (go'[u].pc = "unlaunched" \/ go'[u].then = "done") =>
            /\ record'[b].done = 0 /\ record'[b].stopping /\ record'[b].slot = None
            /\ \A n \in Names : running'[n] = b => go'[u].pc = "unlaunched" /\ go'[u].name = n
    BY <1>6 DEF Owed, At
  <1>9. \A b \in Agents, v, u \in Goroutines :
          go'[u].agent = b /\ (go'[u].pc = "unlaunched" \/ go'[u].then = "done")
          /\ go'[v].agent = b /\ (go'[v].pc = "unlaunched" \/ go'[v].then = "done") => v = u
    BY <1>6 DEF Owed
  <1>10. \A u \in Goroutines : go'[u].pc = "unlaunched" =>
          /\ running'[go'[u].name] \in {None, go'[u].agent}
          /\ phase' = "closing" \/ MaxAgents <= 1
    BY <1>5 DEF Owed, At, Its
  <1> QED BY <1>7, <1>8, <1>9, <1>10 DEF Owed, Owes, At, Its

\* An agent that is asked for is one nobody has stopped.
LEMMA OwedStart ==
  ASSUME Sound, Orderly, Numbered, Phased, Owed, NEW o \in Obeyers, NEW n \in Names, Start(o, n)
  PROVE  Owed'
  <1> DEFINE a == created + 1
  <1>1. /\ phase = "serving" /\ go[o].pc = "idle" /\ a \in Agents /\ running[n] = None
        /\ running'[n] = a /\ \A m \in Names : m # n => running'[m] = running[m]
        /\ \A b \in Agents : b # a => record'[b] = record[b]
        /\ record'[a].done = 0
        /\ Others(o) /\ go'[o].pc = "launch" /\ go'[o].then = "idle"
    BY StartEffect
  <1>2. \A t \in Launchers : go[t].pc = "idle"
    <2>1. created < MaxAgents
      BY DEF Start
    <2> QED BY <1>1, <2>1, Quiet
  <1>3. \A u \in Goroutines : go[u].pc # "unlaunched" /\ go[u].agent # a
    <2>1. \A u \in Goroutines : go[u].pc # "unlaunched"
      BY <1>2, Kinds DEF Sound, Staged, Supervises, Saves
    <2>2. created \in Nat /\ \A u \in Goroutines : go[u].agent <= created
      BY Kinds DEF Sound, Types, HostTypes, Numbered
    <2> QED BY <2>1, <2>2
  <1> HIDE DEF a
  <1>4. \A u \in Goroutines, b \in Agents :
          go'[u].agent = b /\ (go'[u].pc = "unlaunched" \/ go'[u].then = "done") =>
            go'[u] = go[u] /\ b # a /\ record'[b] = record[b] /\ Owes(u, b)
    BY <1>1, <1>3 DEF Others, Owes, At
  <1>5. \A b \in Agents : record'[b].done > 0 =>
          record'[b].done = 1 /\ record'[b].stopping /\ \A m \in Names : running'[m] # b
    BY <1>1 DEF Owed
  <1>6. \A b \in Agents, u \in Goroutines :
          go'[u].agent = b /\ (go'[u].pc = "unlaunched" \/ go'[u].then = "done") =>
            /\ record'[b].done = 0 /\ record'[b].stopping /\ record'[b].slot = None
            /\ \A m \in Names : running'[m] = b => go'[u].pc = "unlaunched" /\ go'[u].name = m
    BY <1>1, <1>3, <1>4 DEF Owed, At
  <1>7. \A b \in Agents, v, u \in Goroutines :
          go'[u].agent = b /\ (go'[u].pc = "unlaunched" \/ go'[u].then = "done")
          /\ go'[v].agent = b /\ (go'[v].pc = "unlaunched" \/ go'[v].then = "done") => v = u
    BY <1>4 DEF Owed
  <1>8. \A u \in Goroutines : go'[u].pc # "unlaunched"
    BY <1>1, <1>3 DEF Others
  <1> QED BY <1>5, <1>6, <1>7, <1>8 DEF Owed, Owes, At, Its

\* A stop that nobody else will finish is owed by the one that came with it:
\* there is no launch under way that could.
LEMMA OwedStop ==
  ASSUME Sound, Orderly, Numbered, Phased, Owed, NEW t \in Launchers, NEW n \in Names, Stop(t, n)
  PROVE  Owed'
  <1>0. t \in Goroutines /\ Main \notin Obeyers /\ Launchers = Obeyers \cup {Main}
    BY Kinds DEF Launchers
  <1>1. PICK a \in Agents :
          /\ a = running[n] /\ a # None /\ ~record[a].stopping
          /\ UNCHANGED <<phase, running>>
          /\ Obeys(t) \/ (t = Main /\ phase = "closing" /\ At(t, "idle"))
          /\ \A b \in Agents : b # a => record'[b] = record[b]
          /\ record'[a].stopping /\ record'[a].slot = record[a].slot
          /\ record'[a].done = record[a].done
          /\ \/ record[a].slot # None /\ UNCHANGED go
             \/ /\ record[a].slot = None /\ Others(t)
                /\ go'[t].pc = "unlaunched" /\ go'[t].name = n /\ go'[t].agent = a
                /\ go'[t].then = "idle"
    <2>1. PICK a \in Agents : a = running[n] /\ ~record[a].stopping
      BY <1>0, StopEffect
    <2>2. a # None
      BY Kinds
    <2> QED BY <1>0, <2>1, <2>2, StopEffect DEF hostVars
  <1>2. record[a].done = 0 /\ \A u \in Goroutines : ~Owes(u, a)
    <2>1. record[a].done \in Nat
      BY DEF Sound, Types, RecordTypes, Record
    <2> QED BY <1>1, <2>1 DEF Owed
  <1>3. CASE UNCHANGED go
    <2>1. \A u \in Goroutines : go'[u] = go[u]
      BY <1>3
    <2>2. \A b \in Agents : record'[b].done > 0 =>
            record'[b].done = 1 /\ record'[b].stopping /\ \A m \in Names : running'[m] # b
      BY <1>1, <1>2 DEF Owed
    <2>3. \A b \in Agents, u \in Goroutines : Owes(u, b) =>
            /\ record'[b].done = 0 /\ record'[b].stopping /\ record'[b].slot = None
            /\ \A m \in Names : running'[m] = b => At(u, "unlaunched") /\ go[u].name = m
      BY <1>1, <1>2 DEF Owed
    <2> QED BY <1>1, <2>1, <2>2, <2>3 DEF Owed, Owes, At, Its
  <1>4. CASE /\ record[a].slot = None /\ Others(t)
             /\ go'[t].pc = "unlaunched" /\ go'[t].name = n /\ go'[t].agent = a
             /\ go'[t].then = "idle"
    <2>1. phase = "closing" \/ MaxAgents <= 1
      <3> SUFFICES ASSUME phase # "closing", ~(MaxAgents <= 1) PROVE FALSE
        OBVIOUS
      <3>1. t \in Obeyers /\ phase = "serving" /\ go[t].pc = "idle"
        BY <1>0, <1>1 DEF Obeys, At, Phased, Sound, Types, HostTypes
      <3>2. \A u \in Launchers : go[u].pc = "idle"
        BY <3>1, Quiet
      <3>3. n \in todo \/ \E u \in Launchers : go[u].pc \in Begins
        BY <1>1, <1>4, <3>1 DEF Phased
      <3> QED BY <3>1, <3>2, <3>3 DEF Phased, Begins
    <2>2. \A m \in Names : running[m] = a => m = n
      BY <1>1 DEF Numbered
    <2>3. \A u \in Goroutines : u # t => go'[u] = go[u]
      BY <1>4 DEF Others
    <2>4. \A u \in Goroutines, b \in Agents :
            go'[u].agent = b /\ (go'[u].pc = "unlaunched" \/ go'[u].then = "done") =>
              \/ u = t /\ b = a
              \/ u # t /\ b # a /\ go'[u] = go[u] /\ record'[b] = record[b] /\ Owes(u, b)
      BY <1>1, <1>2, <1>4, <2>3 DEF Owes, At
    <2>5. \A b \in Agents : record'[b].done > 0 =>
            record'[b].done = 1 /\ record'[b].stopping /\ \A m \in Names : running'[m] # b
      BY <1>1, <1>2 DEF Owed
    <2>6. \A b \in Agents, u \in Goroutines :
            go'[u].agent = b /\ (go'[u].pc = "unlaunched" \/ go'[u].then = "done") =>
              /\ record'[b].done = 0 /\ record'[b].stopping /\ record'[b].slot = None
              /\ \A m \in Names : running'[m] = b => go'[u].pc = "unlaunched" /\ go'[u].name = m
      BY <1>1, <1>2, <1>4, <2>2, <2>4 DEF Owed, At
    <2>7. \A b \in Agents, v, u \in Goroutines :
            go'[u].agent = b /\ (go'[u].pc = "unlaunched" \/ go'[u].then = "done")
            /\ go'[v].agent = b /\ (go'[v].pc = "unlaunched" \/ go'[v].then = "done") => v = u
      BY <2>4 DEF Owed
    <2>8. \A u \in Goroutines : go'[u].pc = "unlaunched" =>
            /\ running'[go'[u].name] \in {None, go'[u].agent}
            /\ phase' = "closing" \/ MaxAgents <= 1
      BY <1>1, <1>4, <2>1, <2>3 DEF Owed, At, Its
    <2> QED BY <2>5, <2>6, <2>7, <2>8 DEF Owed, Owes, At, Its
  <1> QED BY <1>1, <1>3, <1>4

LEMMA OwedStep ==
  ASSUME Sound, Orderly, Numbered, Phased, Supervised, Reserving, Owed, Next
  PROVE  Owed'
  <1>0. Launchers \subseteq Goroutines /\ Slots \subseteq Goroutines /\ Main \in Goroutines
        /\ \A t \in Slots : t \notin Launchers
    BY Kinds
  <1>1. CASE \E t \in Goroutines : Launches(t)
    <2>1. PICK t \in Goroutines : Launches(t)
      BY <1>1
    <2>2. /\ UNCHANGED running /\ UNCHANGED phase
          /\ \A a \in Agents : /\ record'[a].done = record[a].done /\ record'[a].slot = record[a].slot
                               /\ record'[a].stopping <=> record[a].stopping
          /\ Others(t) /\ go'[t].pc # "unlaunched" /\ go[t].pc \notin Saves /\ go'[t].then = go[t].then
      BY <2>1 DEF Launches, hostVars, Kept, Saves
    <2>3. go[t].then = "idle"
      BY <2>2 DEF Sound, Staged
    <2>4. \A u \in Goroutines : go'[u] = go[u] \/ (go'[u].pc # "unlaunched" /\ go'[u].then = "idle")
      BY <2>2, <2>3 DEF Others
    <2> QED BY <2>2, <2>4, OwedFrame
  <1>2. CASE \E t \in Goroutines : Commits(t)
    <2>1. PICK t \in Goroutines : Commits(t)
      BY <1>2
    <2>2. PICK s \in Slots, a \in Agents : s = go[t].slot /\ a = Its(t)
      BY <2>1 DEF Commits, CommitWorks
    <2>3. s # t
      BY <2>1, <2>2 DEF Commits, Reserving, At
    <2>4. /\ UNCHANGED running /\ UNCHANGED phase
          /\ ~record[a].stopping /\ ~record'[a].stopping /\ record'[a].done = record[a].done
          /\ \A b \in Agents : b # a => record'[b] = record[b]
          /\ \A u \in Goroutines : u \notin {s, t} => go'[u] = go[u]
          /\ go'[s].pc = "waiting" /\ go'[s].then = "idle"
          /\ go'[t].pc \in {"idle", "save"} /\ go'[t].then \in {"idle", "begun"}
      BY <2>1, <2>2, <2>3, Resting DEF Commits, CommitWorks, hostVars
    <2>5. /\ record[a].done = 0
          /\ \A u \in Goroutines : ~Owes(u, a)
      <3>1. record[a].done \in Nat
        BY DEF Sound, Types, RecordTypes, Record
      <3> QED BY <2>4, <3>1 DEF Owed
    <2>6. \A b \in Agents : record'[b].done > 0 =>
            record'[b].done = 1 /\ record'[b].stopping /\ \A m \in Names : running'[m] # b
      BY <2>4, <2>5 DEF Owed
    <2>7. \A u \in Goroutines, b \in Agents :
            go'[u].agent = b /\ (go'[u].pc = "unlaunched" \/ go'[u].then = "done") =>
              go'[u] = go[u] /\ b # a /\ record'[b] = record[b] /\ Owes(u, b)
      BY <2>4, <2>5 DEF Owes, At
    <2>8. \A b \in Agents, u \in Goroutines :
            go'[u].agent = b /\ (go'[u].pc = "unlaunched" \/ go'[u].then = "done") =>
              /\ record'[b].done = 0 /\ record'[b].stopping /\ record'[b].slot = None
              /\ \A m \in Names : running'[m] = b => go'[u].pc = "unlaunched" /\ go'[u].name = m
      BY <2>4, <2>7 DEF Owed, At
    <2>9. \A b \in Agents, v, u \in Goroutines :
            go'[u].agent = b /\ (go'[u].pc = "unlaunched" \/ go'[u].then = "done")
            /\ go'[v].agent = b /\ (go'[v].pc = "unlaunched" \/ go'[v].then = "done") => v = u
      BY <2>7 DEF Owed
    <2>10. \A u \in Goroutines : go'[u].pc = "unlaunched" =>
            /\ running'[go'[u].name] \in {None, go'[u].agent}
            /\ phase' = "closing" \/ MaxAgents <= 1
      BY <2>4 DEF Owed, At, Its
    <2> QED BY <2>6, <2>8, <2>9, <2>10 DEF Owed, Owes, At, Its
  <1>3. CASE \E t \in Goroutines : Leaves(t)
    BY <1>3, OwedLeaves
  <1>4. CASE \E t \in Goroutines : Writes(t)
    <2>1. PICK t \in Goroutines : Writes(t)
      BY <1>4
    <2>2. CASE \A b \in Agents : Kept(b)
      <3>1. /\ UNCHANGED running /\ UNCHANGED phase /\ Others(t)
            /\ \A a \in Agents : /\ record'[a].done = record[a].done /\ record'[a].slot = record[a].slot
                                 /\ record'[a].stopping <=> record[a].stopping
            /\ go[t].pc # "unlaunched" /\ go'[t].pc # "unlaunched"
            /\ go'[t].then = "idle" \/ (go'[t].agent = go[t].agent /\ go'[t].then = go[t].then)
        BY <2>1, <2>2, Resting DEF Writes, Kept, hostVars, Holds, Saves
      <3> QED BY <3>1, OwedFrame DEF Others
    <2>3. CASE go[t].then = "done" /\ go'[t] = Rest /\ go[t].agent \in Agents /\ Closes(go[t].agent)
      <3>1. go[t].pc \in Saves
        BY <2>3 DEF Sound, Staged
      <3> QED BY <2>1, <2>3, <3>1, OwedCloses DEF Writes, hostVars
    <2> QED BY <2>1, <2>2, <2>3 DEF Writes
  <1>5. CASE \E w \in Slots : Retries(w)
    <2>1. PICK w \in Slots : Retries(w)
      BY <1>5
    <2>2. /\ UNCHANGED running /\ UNCHANGED phase /\ Others(w) /\ go[w].pc = "waiting"
          /\ go'[w].pc = "delay" /\ go'[w].then = go[w].then
          /\ \A a \in Agents : /\ record'[a].done = record[a].done /\ record'[a].slot = record[a].slot
                               /\ record'[a].stopping <=> record[a].stopping
      BY <2>1 DEF Retries, ExitsAgain, hostVars
    <2>3. go[w].then = "idle"
      BY <1>0, <2>2 DEF Sound, Staged, Saves
    <2>4. \A u \in Goroutines : go'[u] = go[u] \/ (go'[u].pc # "unlaunched" /\ go'[u].then = "idle")
      BY <2>2, <2>3 DEF Others
    <2> QED BY <2>2, <2>4, OwedFrame
  <1>6. CASE \E o \in Obeyers, n \in Names : Start(o, n)
    BY <1>6, OwedStart
  <1>7. CASE \E t \in Launchers, n \in Names : Stop(t, n)
    BY <1>7, OwedStop
  <1>8. CASE \E o \in Obeyers, n \in Names, fresh \in BOOLEAN : Bounce(o, n, fresh)
    <2>1. PICK o \in Obeyers, n \in Names, fresh \in BOOLEAN : Bounce(o, n, fresh)
      BY <1>8
    <2>2. /\ UNCHANGED running /\ UNCHANGED phase /\ UNCHANGED go
          /\ \A a \in Agents : /\ record'[a].done = record[a].done /\ record'[a].slot = record[a].slot
                               /\ record'[a].stopping <=> record[a].stopping
      BY <2>1, BounceEffect DEF hostVars
    <2> QED BY <2>2, OwedFrame
  <1>9. CASE \E n \in Names : RestoreNext(n)
    <2>1. /\ UNCHANGED running /\ UNCHANGED phase /\ UNCHANGED record /\ Others(Main)
          /\ go'[Main].pc = "launch" /\ go'[Main].then = "idle"
      BY <1>9, RestoreNextEffect
    <2>2. \A u \in Goroutines : go'[u] = go[u] \/ (go'[u].pc # "unlaunched" /\ go'[u].then = "idle")
      BY <2>1 DEF Others
    <2> QED BY <2>1, <2>2, OwedFrame
  <1>10. CASE Happens
    <2>1. UNCHANGED running /\ UNCHANGED record /\ UNCHANGED go /\ (phase = "closing" => phase' = "closing")
      BY <1>10 DEF Happens, RestoreDone, Shutdown
    <2> QED BY <2>1, OwedFrame
  <1>11. CASE Restart
    <2>1. /\ \A t \in Goroutines : go'[t].pc = "idle" /\ go'[t].then = "idle"
          /\ \A a \in Agents : ~(record'[a].done > 0)
      BY <1>11, RestartEffect, Resting
    <2> QED BY <2>1 DEF Owed, Owes, At
  <1> QED BY <1>1, <1>2, <1>3, <1>4, <1>5, <1>6, <1>7, <1>8, <1>9, <1>10, <1>11, Classes

-----------------------------------------------------------------------------
(* The processes that live.                                                *)

LEMMA TrackedFrame ==
  ASSUME Supervised', Tracked,
         \A s \in Slots : s \in alive' /\ go'[s].pc = "waiting" =>
           s \in alive /\ go'[s].pc = go[s].pc /\ go'[s].name = go[s].name,
         alive' \subseteq Slots,
         \A s \in Slots : s \in alive' /\ go'[s].pc = "waiting" /\ running'[go[s].name] # None =>
           /\ running[go[s].name] = running'[go[s].name]
           /\ record'[running[go[s].name]].stopping => record[running[go[s].name]].stopping
  PROVE  Tracked'
  <1> SUFFICES ASSUME NEW s \in Slots, s \in alive', go'[s].pc = "waiting"
               PROVE  /\ running'[go'[s].name] # None
                      /\ record'[running'[go'[s].name]].slot = s
                      /\ ~record'[running'[go'[s].name]].stopping
    BY DEF Tracked, ProcessesAreTracked, At, Its
  <1>1. /\ running'[go'[s].name] # None /\ record'[running'[go'[s].name]].slot = s
    BY DEF Supervised, Supervising, Supervises, Its
  <1>2. ~record[running[go[s].name]].stopping
    BY DEF Tracked, ProcessesAreTracked, At, Its
  <1> QED BY <1>1, <1>2

LEMMA TrackedStep ==
  ASSUME Sound, Numbered, Supervised, Reserving, Owed, Tracked, Next, Supervised'
  PROVE  Tracked'
  <1>0. Launchers \subseteq Goroutines /\ Slots \subseteq Goroutines /\ Main \in Launchers
        /\ Obeyers \subseteq Launchers
        /\ (\A t \in Launchers \cup Watchers : t \notin Slots) /\ alive \subseteq Slots
        /\ (\A s \in Slots : go[s].pc = "waiting" => go[s].name \in Names /\ Its(s) \in Agents \cup {None})
    BY Kinds, Named DEF Sound, Types, HostTypes, Saves
  <1>1. CASE \E t \in Goroutines : Launch(t)
    <2>1. PICK t \in Goroutines : Launch(t)
      BY <1>1
    <2>2. /\ UNCHANGED running /\ Others(t) /\ go[t].pc # "waiting" /\ go'[t].pc # "waiting"
          /\ \A a \in Agents : record'[a].stopping <=> record[a].stopping
      BY <2>1, LaunchEffect DEF Kept
    <2>3. /\ alive' \subseteq Slots
          /\ \A s \in Slots : s \in alive' => s \in alive \/ go[s].pc = "idle"
      BY <1>0, <2>1, LaunchEffect DEF At
    <2>4. \A s \in Slots : go'[s].pc = "waiting" => go'[s] = go[s]
      BY <1>0, <2>2 DEF Others
    <2> QED BY <1>0, <2>2, <2>3, <2>4, TrackedFrame DEF Its
  <1>2. CASE \E t \in Goroutines : Commit(t)
    <2>1. PICK t \in Goroutines : Commit(t)
      BY <1>2
    <2>2. CASE CommitFails(t)
      <3>1. /\ UNCHANGED running /\ UNCHANGED record /\ Others(t) /\ go'[t].pc # "waiting"
            /\ alive' \subseteq alive
        BY <2>1, <2>2, CommitEffect DEF CommitFails
      <3>2. \A s \in Slots : go'[s].pc = "waiting" => go'[s] = go[s]
        BY <1>0, <3>1 DEF Others
      <3> QED BY <1>0, <3>1, <3>2, TrackedFrame
    <2>3. CASE CommitWorks(t)
      <3>1. PICK a \in Agents, s \in Slots : a = Its(t) /\ s = go[t].slot
        BY <2>3 DEF CommitWorks
      <3>2. /\ UNCHANGED running /\ UNCHANGED alive /\ ~record'[a].stopping
            /\ \A b \in Agents : b # a => record'[b] = record[b]
            /\ \A u \in Goroutines : u \notin {s, t} => go'[u] = go[u]
            /\ go'[t].pc # "waiting" \/ s = t
            /\ go[t].pc = "commit"
        BY <2>1, <2>3, <3>1, CommitEffect, Resting DEF CommitWorks
      <3>3. s # t
        BY <3>1, <3>2 DEF Reserving, At
      <3>4. go'[s].name = go[t].name /\ Its(t) = running[go[t].name]
        BY <2>3, <3>1, <3>3 DEF CommitWorks, Its
      <3> SUFFICES ASSUME NEW w \in Slots, w \in alive', go'[w].pc = "waiting"
                   PROVE  /\ running'[go'[w].name] # None
                          /\ record'[running'[go'[w].name]].slot = w
                          /\ ~record'[running'[go'[w].name]].stopping
        BY <1>0, <3>2 DEF Tracked, ProcessesAreTracked, At, Its
      <3>5. /\ running'[go'[w].name] # None /\ record'[running'[go'[w].name]].slot = w
        BY DEF Supervised, Supervising, Supervises, Its
      <3>6. CASE w = s
        BY <3>1, <3>2, <3>4, <3>5, <3>6
      <3>7. CASE w # s
        <4>1. go'[w] = go[w]
          BY <1>0, <3>2, <3>3, <3>7
        <4>2. ~record[running[go[w].name]].stopping /\ running[go[w].name] \in Agents
          BY <1>0, <3>2, <3>5, <4>1 DEF Tracked, ProcessesAreTracked, At, Its
        <4> QED BY <3>2, <3>5, <4>1, <4>2
      <3> QED BY <3>6, <3>7
    <2> QED BY <2>1, <2>2, <2>3, CommitEffect
  <1>3. CASE \E t \in Goroutines : Leaves(t)
    <2>1. PICK t \in Goroutines, n \in Names : Leaves(t) /\ n = go[t].name
      BY <1>3 DEF Leaves
    <2>2. /\ UNCHANGED alive /\ Others(t) /\ go'[t].pc # "waiting"
          /\ running'[n] = None /\ \A m \in Names : m # n => running'[m] = running[m]
          /\ \A a \in Agents : record'[a].stopping <=> record[a].stopping
      BY <2>1 DEF Leaves, Forgets
    <2>3. \A s \in Slots : go'[s].pc = "waiting" => go'[s] = go[s]
      BY <1>0, <2>2 DEF Others
    <2> QED BY <1>0, <2>2, <2>3, TrackedFrame DEF Its
  <1>4. CASE \E t \in Goroutines : Writes(t)
    <2>1. PICK t \in Goroutines : Writes(t)
      BY <1>4
    <2>2. /\ UNCHANGED alive /\ UNCHANGED running /\ Others(t) /\ go'[t].pc # "waiting"
          /\ \A a \in Agents : record'[a].stopping <=> record[a].stopping
      BY <2>1 DEF Writes, Kept, Closes, Saves
    <2>3. \A s \in Slots : go'[s].pc = "waiting" => go'[s] = go[s]
      BY <1>0, <2>2 DEF Others
    <2> QED BY <1>0, <2>2, <2>3, TrackedFrame DEF Its
  <1>5. CASE \E w \in Slots : Retries(w)
    <2>1. PICK w \in Slots : Retries(w)
      BY <1>5
    <2>2. /\ UNCHANGED alive /\ UNCHANGED running /\ Others(w) /\ go'[w].pc # "waiting"
          /\ \A a \in Agents : record'[a].stopping <=> record[a].stopping
      BY <2>1 DEF Retries, ExitsAgain
    <2>3. \A s \in Slots : go'[s].pc = "waiting" => go'[s] = go[s]
      BY <1>0, <2>2 DEF Others
    <2> QED BY <1>0, <2>2, <2>3, TrackedFrame DEF Its
  <1>6. CASE \E o \in Obeyers, n \in Names : Start(o, n)
    <2>1. PICK o \in Obeyers, n \in Names : Start(o, n)
      BY <1>6
    <2>2. /\ UNCHANGED alive /\ Others(o) /\ go'[o].pc # "waiting" /\ running[n] = None
          /\ \A m \in Names : m # n => running'[m] = running[m]
          /\ \A a \in Agents : record'[a].stopping => record[a].stopping
      BY <2>1, StartEffect
    <2>3. \A s \in Slots : go'[s].pc = "waiting" => go'[s] = go[s]
      BY <1>0, <2>2 DEF Others
    <2>4. \A s \in Slots : s \in alive' /\ go'[s].pc = "waiting" => go[s].name # n /\ Its(s) # None
      BY <2>2, <2>3 DEF Tracked, ProcessesAreTracked, At, Its
    <2> QED BY <1>0, <2>2, <2>3, <2>4, TrackedFrame DEF Its
  \* A process that is stopped is killed.
  <1>7. CASE \E t \in Launchers, n \in Names : Stop(t, n)
    <2>1. PICK t \in Launchers, n \in Names : t \in Goroutines /\ Stop(t, n)
      BY <1>0, <1>7
    <2>2. PICK a \in Agents : a = running[n]
      BY <2>1, StopEffect
    <2>3. /\ UNCHANGED running /\ alive' = alive \ {record[a].slot}
          /\ UNCHANGED go \/ (Others(t) /\ go'[t].pc = "unlaunched")
          /\ \A b \in Agents : b # a => record'[b] = record[b]
      BY <2>1, <2>2, StopEffect
    <2>4. \A s \in Slots : go'[s].pc = "waiting" => go'[s] = go[s]
      BY <1>0, <2>3 DEF Others
    <2>5. \A s \in Slots : s \in alive' /\ go'[s].pc = "waiting" => Its(s) # a
      BY <2>3, <2>4 DEF Supervised, Supervising, Supervises
    <2> QED BY <1>0, <2>3, <2>4, <2>5, TrackedFrame DEF Its
  <1>8. CASE \E o \in Obeyers, n \in Names, fresh \in BOOLEAN : Bounce(o, n, fresh)
    <2>1. PICK o \in Obeyers, n \in Names, fresh \in BOOLEAN : Bounce(o, n, fresh)
      BY <1>8
    <2>2. /\ UNCHANGED running /\ alive' \subseteq alive /\ UNCHANGED go
          /\ \A a \in Agents : record'[a].stopping => record[a].stopping
      BY <2>1, BounceEffect
    <2> QED BY <1>0, <2>2, TrackedFrame DEF Its
  <1>9. CASE \E n \in Names : RestoreNext(n)
    <2>1. /\ UNCHANGED running /\ UNCHANGED alive /\ UNCHANGED record /\ Others(Main)
          /\ go'[Main].pc = "launch"
      BY <1>9, RestoreNextEffect
    <2>2. \A s \in Slots : go'[s].pc = "waiting" => go'[s] = go[s]
      BY <1>0, <2>1 DEF Others
    <2> QED BY <1>0, <2>1, <2>2, TrackedFrame
  <1>10. CASE Happens
    <2>1. UNCHANGED running /\ UNCHANGED record /\ UNCHANGED go /\ alive' \subseteq alive
      BY <1>10 DEF Happens
    <2> QED BY <1>0, <2>1, TrackedFrame
  <1>11. CASE Restart
    <2>1. alive' = {}
      BY <1>11, RestartEffect
    <2> QED BY <2>1 DEF Tracked, ProcessesAreTracked
  <1> QED BY <1>1, <1>2, <1>3, <1>4, <1>5, <1>6, <1>7, <1>8, <1>9, <1>10, <1>11, Classes

-----------------------------------------------------------------------------
(* The state file has everybody who is wanted.                             *)

\* Who is wanted is found here, and nobody has stopped it.
Here == \A a \in wanted : ~record[a].stopping /\ \E n \in Names : running[n] = a

\* Of every step that does not write: who is still wanted is still here, and a
\* name has what it had, or nobody, or somebody new.
LEMMA HereStep ==
  ASSUME Sound, Numbered, Phased, Supervised, Owed, Here, ~ShutsDown, Next,
         ~\E t \in Goroutines : SaveStep(t), ~Restart
  PROVE  /\ Here' /\ wanted' \subseteq wanted
         /\ \A n \in Names : running'[n] \in {None, running[n]} \/ running'[n] = created + 1
  <1>0. wanted \subseteq Agents /\ None \notin Agents /\ phase # "closing"
        /\ (\A a \in wanted : a <= created) /\ created \in Nat
        /\ Launchers = Obeyers \cup {Main} /\ Launchers \subseteq Goroutines
    BY Kinds DEF Sound, Types, HostTypes, Phased, Numbered, Launchers
  <1>1. ASSUME UNCHANGED running, wanted' \subseteq wanted,
               \A a \in wanted' : record'[a].stopping => record[a].stopping
        PROVE  /\ Here' /\ wanted' \subseteq wanted
               /\ \A n \in Names : running'[n] \in {None, running[n]} \/ running'[n] = created + 1
    BY <1>1 DEF Here
  <1>2. CASE \E t \in Goroutines : Launches(t) \/ (Watches(t) /\ Writes(t))
    <2>1. UNCHANGED running /\ UNCHANGED wanted
          /\ \A a \in Agents : record'[a].stopping <=> record[a].stopping
      BY <1>2 DEF Launches, Watches, Writes, Kept
    <2> QED BY <1>0, <1>1, <2>1
  <1>3. CASE \E t \in Goroutines : Commits(t)
    <2>1. UNCHANGED running /\ UNCHANGED wanted
          /\ \A a \in Agents : record'[a].stopping => record[a].stopping
      BY <1>3 DEF Commits, CommitWorks
    <2> QED BY <1>0, <1>1, <2>1
  <1>4. CASE \E t \in Goroutines : Leaves(t)
    <2>1. PICK t \in Goroutines, n \in Names : Leaves(t) /\ n = go[t].name
      BY <1>4 DEF Leaves
    <2>2. /\ wanted' \subseteq wanted /\ (Its(t) \in wanted' => record[Its(t)].stopping)
          /\ Its(t) = running[n] /\ running'[n] = None
          /\ \A m \in Names : m # n => running'[m] = running[m]
          /\ \A a \in Agents : record'[a].stopping <=> record[a].stopping
      BY <2>1 DEF Leaves, Forgets, Its
    <2>3. \A a \in wanted' : a # running[n]
      BY <2>2 DEF Here
    <2>4. \A a \in wanted' : ~record'[a].stopping /\ \E m \in Names : running'[m] = a
      BY <1>0, <2>2, <2>3 DEF Here
    <2> QED BY <2>2, <2>4 DEF Here
  <1>5. CASE \E w \in Slots : Retries(w)
    <2>1. UNCHANGED running /\ UNCHANGED wanted
          /\ \A a \in Agents : record'[a].stopping => record[a].stopping
      BY <1>5 DEF Retries, ExitsAgain
    <2> QED BY <1>0, <1>1, <2>1
  <1>6. CASE \E o \in Obeyers, n \in Names : Start(o, n)
    <2>1. PICK o \in Obeyers, n \in Names : Start(o, n)
      BY <1>6
    <2>2. /\ UNCHANGED wanted /\ running[n] = None /\ running'[n] = created + 1
          /\ \A m \in Names : m # n => running'[m] = running[m]
          /\ \A b \in Agents : b # created + 1 => record'[b] = record[b]
      BY <2>1, StartEffect
    <2>3. \A a \in wanted : a # created + 1
      BY <1>0, Kinds
    <2>4. \A a \in wanted' : ~record'[a].stopping /\ \E m \in Names : running'[m] = a
      BY <1>0, <2>2, <2>3 DEF Here
    <2> QED BY <2>2, <2>4 DEF Here
  <1>7. CASE \E t \in Launchers, n \in Names : Stop(t, n)
    <2>1. PICK t \in Launchers, n \in Names : t \in Goroutines /\ Stop(t, n)
      BY <1>0, <1>7
    <2>2. PICK a \in Agents : a = running[n]
      BY <2>1, StopEffect
    <2>3. t # Main
      <3>1. Obeys(t)
        BY <1>0, <2>1, StopEffect
      <3> QED BY <3>1, Kinds DEF Obeys, Sound, Types, HostTypes
    <2>4. /\ UNCHANGED running /\ wanted' \subseteq wanted /\ a \notin wanted'
          /\ \A b \in Agents : b # a => record'[b] = record[b]
      BY <2>1, <2>2, <2>3, StopEffect
    <2>5. \A b \in wanted' : b \in Agents /\ b # a
      BY <1>0, <2>4
    <2> QED BY <1>1, <2>4, <2>5
  <1>8. CASE \E o \in Obeyers, n \in Names, fresh \in BOOLEAN : Bounce(o, n, fresh)
    <2>1. PICK o \in Obeyers, n \in Names, fresh \in BOOLEAN : Bounce(o, n, fresh)
      BY <1>8
    <2>2. UNCHANGED running /\ UNCHANGED wanted
          /\ \A a \in Agents : record'[a].stopping => record[a].stopping
      BY <2>1, BounceEffect
    <2> QED BY <1>0, <1>1, <2>2
  <1>9. CASE (\E n \in Names : RestoreNext(n)) \/ Happens
    <2>1. UNCHANGED running /\ UNCHANGED wanted /\ UNCHANGED record
      <3>1. CASE \E n \in Names : RestoreNext(n)
        BY <3>1, RestoreNextEffect
      <3>2. CASE Happens
        BY <3>2 DEF Happens
      <3> QED BY <1>9, <3>1, <3>2
    <2> QED BY <1>1, <2>1
  <1> QED BY <1>2, <1>3, <1>4, <1>5, <1>6, <1>7, <1>8, <1>9, Classes

LEMMA RememberedStep ==
  ASSUME Sound, Numbered, Phased, Supervised, Reserving, Owed, Locked, Remembered, Next
  PROVE  Remembered'
  <1> SUFFICES ASSUME ~ShutsDown
               PROVE  /\ Here'
                      /\ \A t \in Goroutines : go'[t].pc = "write" =>
                           /\ \A a \in wanted' : Has(snapshot'[t], a)
                           /\ go'[t].then = "begun" /\ running'[go'[t].name] = go'[t].agent =>
                                Has(snapshot'[t], go'[t].agent)
                      /\ health' => \A a \in wanted' : Has(file', a)
    BY DEF Remembered, Here, At, Its, WantedIsSaved, Saved, Has
  <1>1. /\ Here
        /\ \A t \in Goroutines : go[t].pc = "write" =>
             /\ \A a \in wanted : Has(snapshot[t], a)
             /\ go[t].then = "begun" /\ running[go[t].name] = go[t].agent =>
                  Has(snapshot[t], go[t].agent)
        /\ health => \A a \in wanted : Has(file, a)
    BY DEF Remembered, Here, At, Its, WantedIsSaved, Saved, Has
  <1>2. phase # "closing" /\ Nobody \notin Goroutines /\ Rest.pc = "idle" /\ wanted \subseteq Agents
    BY Kinds, Resting DEF Phased, Sound, Types, HostTypes
  <1>3. CASE Restart
    <2>1. /\ \A t \in Goroutines : go'[t].pc = "idle"
          /\ \A n \in Names : running'[n] = file[n].agent
          /\ \A a \in Agents : ~record'[a].stopping
          /\ UNCHANGED file /\ wanted' \subseteq wanted /\ (~health => \A a \in wanted' : Saved(a))
      BY <1>2, <1>3, RestartEffect
    <2>2. \A a \in wanted' : a \in Agents /\ Has(file, a)
      BY <1>1, <1>2, <2>1 DEF Saved, Has
    <2>3. Here'
      BY <2>1, <2>2 DEF Here, Has
    <2> QED BY <2>1, <2>2, <2>3 DEF Has
  <1>4. CASE \E t \in Goroutines : SaveLock(t)
    <2>1. PICK t \in Goroutines : SaveLock(t)
      BY <1>4
    <2>2. /\ Others(t) /\ go'[t].pc = "records" /\ UNCHANGED <<record, wanted, running, snapshot, file, health>>
      BY <1>2, <2>1, SaveLockEffect
    <2>3. \A u \in Goroutines : go'[u].pc = "write" => go'[u] = go[u]
      BY <2>2 DEF Others
    <2> QED BY <1>1, <2>2, <2>3 DEF Here, Has
  <1>5. CASE \E t \in Goroutines : SaveRecords(t)
    <2>1. PICK t \in Goroutines : SaveRecords(t)
      BY <1>5
    <2>2. /\ Others(t) /\ UNCHANGED <<record, wanted, running, file, health>>
          /\ \A u \in Goroutines : u # t => snapshot'[u] = snapshot[u]
          /\ \A n \in Names : snapshot'[t][n].agent = running[n]
          /\ go'[t].agent = go[t].agent /\ go'[t].then = go[t].then /\ go'[t].name = go[t].name
      BY <2>1, SaveRecordsEffect DEF Holds
    <2>3. \A u \in Goroutines : u # t => go'[u] = go[u]
      BY <2>2 DEF Others
    <2>4. \A a \in wanted' : Has(snapshot'[t], a)
      BY <1>1, <2>2 DEF Here, Has
    <2>5. go'[t].then = "begun" /\ running'[go'[t].name] = go'[t].agent =>
            Has(snapshot'[t], go'[t].agent)
      BY <2>2 DEF Has, Sound, Staged
    <2> QED BY <1>1, <2>2, <2>3, <2>4, <2>5 DEF Here, Has
  \* Whoever is begun now is in what was just written.
  <1>6. CASE \E t \in Goroutines : SaveWrite(t)
    <2>1. PICK t \in Goroutines : SaveWrite(t)
      BY <1>6
    <2>2. /\ UNCHANGED running /\ go[t].pc = "write" /\ Others(t) /\ go'[t] = Rest
          /\ file' = snapshot[t] \/ ~health'
          /\ IF go[t].then = "done" THEN go[t].agent \in Agents /\ Closes(go[t].agent)
             ELSE UNCHANGED record
          /\ \/ UNCHANGED wanted
             \/ /\ go[t].then = "begun" /\ go[t].agent = Its(t) /\ go[t].agent \in Agents
                /\ ~record[go[t].agent].stopping /\ wanted' = wanted \cup {go[t].agent}
      BY <2>1, SaveWriteEffect DEF Returned
    <2>3. \A u \in Goroutines : go'[u].pc # "write"
      BY <1>2, <2>2 DEF Locked, Others
    <2>4. \A a \in Agents : record'[a].stopping <=> record[a].stopping
      BY <2>2 DEF Closes
    <2>5. \A a \in wanted' :
            \/ a \in wanted
            \/ a \in Agents /\ go[t].then = "begun" /\ running[go[t].name] = a /\ a = go[t].agent
                 /\ ~record[a].stopping
      BY <2>2 DEF Its
    <2>6. go[t].then = "begun" => go[t].name \in Names
      BY DEF Sound, Staged
    <2>7. Here'
      BY <1>1, <1>2, <2>2, <2>4, <2>5, <2>6 DEF Here
    <2>8. health' => \A a \in wanted' : Has(file', a)
      BY <1>1, <2>2, <2>5
    <2> QED BY <2>3, <2>7, <2>8
  <1>7. CASE ~Restart /\ ~\E t \in Goroutines : SaveStep(t)
    <2>1. /\ UNCHANGED diskVars
          /\ \A u \in Goroutines : go'[u].pc \in {"records", "write"} <=> Saving(u)
          /\ \A u \in Goroutines : Saving(u) => go'[u] = go[u]
      BY <1>7, Apart
    <2>2. /\ Here' /\ wanted' \subseteq wanted
          /\ \A n \in Names : running'[n] \in {None, running[n]} \/ running'[n] = created + 1
      BY <1>1, <1>7, HereStep
    <2>3. \A u \in Goroutines : go'[u].pc = "write" => go[u].pc = "write" /\ go'[u] = go[u]
      BY <2>1 DEF Saving
    <2>4. ASSUME NEW u \in Goroutines, go'[u].pc = "write", go'[u].then = "begun",
                 running'[go'[u].name] = go'[u].agent
          PROVE  Has(snapshot'[u], go'[u].agent)
      <3>1. go'[u] = go[u] /\ go[u].pc = "write" /\ go[u].then = "begun" /\ go[u].name \in Names
            /\ u \in Launchers
        BY <2>3, <2>4 DEF Sound, Staged
      <3>2. go[u].agent \in Agents /\ go[u].agent <= created /\ go[u].agent # None
            /\ go[u].agent \in Nat /\ created \in Nat
        <4>1. go[u].agent \in Agents /\ go[u].agent <= created
          BY <3>1 DEF Numbered, At
        <4>2. created \in Nat
          BY Kinds DEF Sound, Types, HostTypes
        <4> QED BY <4>1, <4>2, Kinds
      <3>3. running[go[u].name] = go[u].agent
        BY <2>2, <2>4, <3>1, <3>2
      <3> QED BY <1>1, <2>1, <3>1, <3>3 DEF diskVars
    <2> QED BY <1>1, <2>1, <2>2, <2>3, <2>4 DEF diskVars
  <1> QED BY <1>3, <1>4, <1>5, <1>6, <1>7 DEF SaveStep

-----------------------------------------------------------------------------
(* How often an agent that does not stay up is launched.                   *)

\* What the count of a record is, where its wait goroutine is at pc and has a
\* process with this conversation.
CountsAt(r, pc, talk) ==
  /\ r.shorts <= 2 * r.fails + 1
  /\ r.shorts > 2 * r.fails =>
       /\ pc = "waiting" => ~r.resumed \/ r.bounced
       /\ pc = "delay" \/ pc = "launch" => r.fresh
       /\ pc = "commit" => talk = NoConversation

\* What of a record may change in a step that counts nothing.
Steady(a) ==
  /\ record'[a].shorts = record[a].shorts /\ record'[a].fails = record[a].fails
  /\ record'[a].resumed => record[a].resumed \/ record'[a].bounced
  /\ record[a].bounced => record'[a].bounced
  /\ record[a].fresh => record'[a].fresh

LEMMA CountedIs ==
  /\ Counted <=>
       /\ \A a \in Agents : record[a].slot = None => record[a].shorts = 0
       /\ \A w \in Slots : go[w].pc \in Supervises =>
            CountsAt(record[running[go[w].name]], go[w].pc, go[w].talk)
  /\ Counted' <=>
       /\ \A a \in Agents : record'[a].slot = None => record'[a].shorts = 0
       /\ \A w \in Slots : go'[w].pc \in Supervises =>
            CountsAt(record'[running'[go'[w].name]], go'[w].pc, go'[w].talk)
  BY DEF Counted, CountsAt, Supervising, At, Its

LEMMA CountedFrame ==
  ASSUME Sound, Counted, Supervised',
         \A a \in Agents : record'[a].slot = None => record'[a].shorts = 0,
         \A w \in Slots : go'[w].pc \in Supervises /\ running'[go'[w].name] # None =>
           \/ /\ go'[w] = go[w] /\ running[go[w].name] = running'[go[w].name]
              /\ Steady(running[go[w].name])
           \/ CountsAt(record'[running'[go'[w].name]], go'[w].pc, go'[w].talk)
  PROVE  Counted'
  <1> SUFFICES ASSUME NEW w \in Slots, go'[w].pc \in Supervises
               PROVE  CountsAt(record'[running'[go'[w].name]], go'[w].pc, go'[w].talk)
    BY CountedIs
  <1>1. running'[go'[w].name] # None
    BY DEF Supervised, Supervising, Its
  <1>2. CASE /\ go'[w] = go[w] /\ running[go[w].name] = running'[go[w].name]
             /\ Steady(running[go[w].name])
    <2>1. CountsAt(record[running[go[w].name]], go[w].pc, go[w].talk)
      BY <1>2, CountedIs
    <2> QED BY <1>2, <2>1 DEF CountsAt, Steady
  <1> QED BY <1>1, <1>2

\* A launch of one that stopped short after it was resumed resumes nothing, so
\* the next exit counts.
LEMMA CountedCommits ==
  ASSUME Sound, Numbered, Supervised, Reserving, Counted, NEW t \in Goroutines, Commits(t), Supervised'
  PROVE  Counted'
  <1>1. PICK a \in Agents, s \in Slots : a = Its(t) /\ a = running[go[t].name] /\ s = go[t].slot
    BY DEF Commits, CommitWorks, Its
  <1>2. s # t
    BY <1>1 DEF Commits, Reserving, At
  <1>3. /\ UNCHANGED running /\ t \in Launchers \cup Slots /\ go[t].pc = "commit"
        /\ \A b \in Agents : b # a => record'[b] = record[b]
        /\ record'[a].slot = s /\ record'[a].shorts = record[a].shorts
        /\ record'[a].fails = record[a].fails
        /\ go[t].talk = NoConversation => ~record'[a].resumed
        /\ \A u \in Goroutines : u \notin {s, t} => go'[u] = go[u]
        /\ go'[s].pc = "waiting" /\ go'[s].name = go[t].name
        /\ go'[t].pc \in {"idle", "save"}
    BY <1>1, <1>2, Resting DEF Commits, CommitWorks
  <1>4. /\ record[a].shorts \in Nat /\ record[a].fails \in Nat
        /\ s # None /\ Slots \subseteq Goroutines /\ None \notin Agents
    BY Kinds DEF Sound, Types, RecordTypes, Record
  <1>5. /\ record[a].shorts <= 2 * record[a].fails + 1
        /\ record[a].shorts > 2 * record[a].fails => go[t].talk = NoConversation
    <2>1. CASE t \in Slots
      <3>1. CountsAt(record[a], "commit", go[t].talk)
        BY <1>1, <1>3, <2>1, CountedIs DEF Supervises
      <3> QED BY <3>1 DEF CountsAt
    <2>2. CASE t \in Launchers
      <3>1. record[a].slot = None
        <4>1. go[t].pc \in Begins /\ Its(t) # None
          BY <1>1, <1>3, <1>4 DEF Begins
        <4>2. \A u \in Launchers : go[u].pc \in Begins /\ Its(u) # None => record[Its(u)].slot = None
          BY DEF Supervised
        <4> QED BY <1>1, <2>2, <4>1, <4>2
      <3>2. record[a].shorts = 0
        BY <3>1 DEF Counted
      <3> QED BY <1>4, <3>2
    <2> QED BY <1>3, <2>1, <2>2
  <1>6. CountsAt(record'[a], "waiting", go'[s].talk)
    BY <1>3, <1>5 DEF CountsAt
  <1>7. \A b \in Agents : record'[b].slot = None => record'[b].shorts = 0
    BY <1>3, <1>4 DEF Counted
  <1>8. ASSUME NEW w \in Slots, go'[w].pc \in Supervises, w # s
        PROVE  /\ go'[w] = go[w] /\ running[go[w].name] = running'[go[w].name]
               /\ Steady(running[go[w].name])
    <2>1. w # t /\ go'[w] = go[w]
      BY <1>3, <1>4, <1>8 DEF Supervises
    <2>2. record'[running'[go'[w].name]].slot = w
      BY <1>8 DEF Supervised, Supervising, Its
    <2>3. running[go[w].name] # a
      BY <1>3, <1>8, <2>1, <2>2
    <2>4. go[w].name \in Names /\ running[go[w].name] \in Agents
      BY <1>4, <1>8, <2>1 DEF Sound, Staged, Saves, Supervises, Types, RecordTypes,
                              Supervised, Supervising, Its
    <2> QED BY <1>3, <2>1, <2>3, <2>4 DEF Steady
  <1> QED BY <1>1, <1>3, <1>6, <1>7, <1>8, CountedFrame

LEMMA CountedStep ==
  ASSUME Sound, Numbered, Supervised, Reserving, Owed, Counted, Next, Supervised'
  PROVE  Counted'
  <1>0. /\ Launchers \subseteq Goroutines /\ Slots \subseteq Goroutines /\ Main \in Launchers
        /\ Obeyers \subseteq Launchers /\ \A t \in Launchers \cup Watchers : t \notin Slots
    BY Kinds
  <1>1. \A w \in Slots : go[w].pc \in Supervises =>
          /\ go[w].name \in Names /\ running[go[w].name] \in Agents
          /\ CountsAt(record[running[go[w].name]], go[w].pc, go[w].talk)
    BY <1>0, CountedIs DEF Sound, Staged, Saves, Supervises, Types, RecordTypes,
                           Supervised, Supervising, Its
  \* Nothing is counted, and at most one goroutine moves.
  <1>2. ASSUME UNCHANGED running, \A a \in Agents : Steady(a) /\ record'[a].slot = record[a].slot,
               NEW t \in Goroutines, UNCHANGED go \/ Others(t),
               t \in Slots /\ go'[t].pc \in Supervises =>
                 \/ go'[t] = go[t]
                 \/ CountsAt(record'[running'[go'[t].name]], go'[t].pc, go'[t].talk)
        PROVE  Counted'
    <2>1. \A a \in Agents : record'[a].slot = None => record'[a].shorts = 0
      BY <1>2 DEF Counted, Steady
    <2>2. \A w \in Slots : go'[w] = go[w] \/ (w = t /\ t \in Slots)
      BY <1>0, <1>2 DEF Others
    <2>3. \A w \in Slots : go'[w].pc \in Supervises /\ go'[w] = go[w] => Steady(running[go[w].name])
      BY <1>1, <1>2
    <2> QED BY <1>2, <2>1, <2>2, <2>3, CountedFrame
  <1>3. CASE \E t \in Goroutines : Launch(t)
    <2>1. PICK t \in Goroutines : Launch(t)
      BY <1>3
    <2>2. /\ UNCHANGED running /\ Others(t) /\ go'[t].name = go[t].name
          /\ \A a \in Agents : Steady(a) /\ record'[a].slot = record[a].slot
          /\ go[t].pc \in {"launch", "delay"} /\ go'[t].pc \in {"commit", "clean", "forget"}
          /\ go'[t].pc = "commit" /\ record[Its(t)].fresh => go'[t].talk = NoConversation
      BY <2>1, LaunchEffect DEF Kept, Steady, Holds
    <2>3. ASSUME t \in Slots
          PROVE  CountsAt(record'[running'[go'[t].name]], go'[t].pc, go'[t].talk)
      <3>1. PICK a \in Agents : a = running[go[t].name] /\ a = Its(t)
        BY <1>1, <2>2, <2>3 DEF Supervises, Its
      <3>2. CountsAt(record[a], go[t].pc, go[t].talk)
        BY <1>1, <2>2, <2>3, <3>1 DEF Supervises
      <3>3. record[a].shorts > 2 * record[a].fails => record[a].fresh
        BY <2>2, <3>2 DEF CountsAt
      <3> QED BY <2>2, <3>1, <3>2, <3>3 DEF CountsAt, Steady
    <2> QED BY <1>2, <2>2, <2>3
  <1>4. CASE \E t \in Goroutines : Commit(t) /\ Launches(t)
    <2>1. PICK t \in Goroutines : Commit(t) /\ Launches(t)
      BY <1>4
    <2>2. go[t].pc = "commit"
      BY <2>1 DEF Commit, At
    <2>3. CASE CommitFails(t)
      <3>1. /\ UNCHANGED running /\ Others(t) /\ go'[t].name = go[t].name
            /\ \A a \in Agents : Steady(a) /\ record'[a].slot = record[a].slot
            /\ go'[t].pc \in {"clean", "forget"}
        BY <2>1, <2>3, CommitEffect DEF Launches, Kept, Steady, CommitFails, Holds
      <3>2. ASSUME t \in Slots
            PROVE  CountsAt(record'[running'[go'[t].name]], go'[t].pc, go'[t].talk)
        <4>1. PICK a \in Agents : a = running[go[t].name]
          BY <1>1, <2>2, <3>2 DEF Supervises
        <4>2. CountsAt(record[a], go[t].pc, go[t].talk)
          BY <1>1, <2>2, <3>2, <4>1 DEF Supervises
        <4> QED BY <3>1, <4>1, <4>2 DEF CountsAt, Steady
      <3> QED BY <1>2, <3>1, <3>2
    <2>4. CASE CommitWorks(t)
      <3>1. Commits(t)
        BY <2>1, <2>2, <2>4, CommitEffect, Named DEF Commits, Saves
      <3> QED BY <3>1, CountedCommits
    <2> QED BY <2>1, <2>3, <2>4, CommitEffect
  <1>5. CASE \E t \in Goroutines : Commits(t)
    BY <1>5, CountedCommits
  <1>6. CASE \E t \in Goroutines : Leaves(t)
    <2>1. PICK t \in Goroutines, n \in Names : Leaves(t) /\ n = go[t].name
      BY <1>6 DEF Leaves
    <2>2. /\ Others(t) /\ go'[t].pc \in {"idle", "save"}
          /\ running'[n] = None /\ \A m \in Names : m # n => running'[m] = running[m]
          /\ \A a \in Agents : a # running[n] => record'[a] = record[a]
          /\ \A a \in Agents : a = running[n] => record'[a].shorts = 0
      BY <2>1 DEF Leaves, Forgets
    <2>3. \A a \in Agents : record'[a].slot = None => record'[a].shorts = 0
      BY <2>2 DEF Counted
    <2>4. ASSUME NEW w \in Slots, go'[w].pc \in Supervises, running'[go'[w].name] # None
          PROVE  /\ go'[w] = go[w] /\ running[go[w].name] = running'[go[w].name]
                 /\ Steady(running[go[w].name])
      <3>1. w # t /\ go'[w] = go[w]
        BY <1>0, <2>2, <2>4 DEF Others, Supervises
      <3>2. go[w].name \in Names /\ running[go[w].name] \in Agents /\ go[w].name # n
        BY <1>1, <2>2, <2>4, <3>1
      <3>3. running[go[w].name] # running[n]
        BY <3>2, Kinds DEF Numbered
      <3> QED BY <2>2, <3>1, <3>2, <3>3 DEF Steady
    <2> QED BY <2>3, <2>4, CountedFrame
  <1>7. CASE \E t \in Goroutines : Writes(t)
    <2>1. PICK t \in Goroutines : Writes(t)
      BY <1>7
    <2>2. /\ UNCHANGED running /\ Others(t) /\ go'[t].pc \notin Supervises
      BY <2>1 DEF Writes, Saves, Supervises
    <2>3. \A a \in Agents : Steady(a) /\ record'[a].slot = record[a].slot
      BY <2>1 DEF Writes, Kept, Closes, Steady
    <2> QED BY <1>2, <2>2, <2>3
  \* A resumed launch that ended early counts the next time, a fresh one now.
  <1>8. CASE \E w \in Slots : Retries(w)
    <2>1. PICK w \in Slots : Retries(w)
      BY <1>8
    <2>2. PICK a \in Agents : a = Its(w) /\ a = running[go[w].name]
      BY <2>1 DEF Retries, ExitsAgain, Its
    <2>3. /\ UNCHANGED running /\ Others(w) /\ go[w].pc = "waiting"
          /\ \A b \in Agents : b # a => record'[b] = record[b]
          /\ record'[a].slot = record[a].slot
          /\ \/ record'[a].shorts = 0
             \/ ~record[a].bounced /\ record[a].resumed /\ record'[a].fresh
                  /\ record'[a].fails = record[a].fails
                  /\ record'[a].shorts = record[a].shorts + 1
             \/ ~record[a].bounced /\ ~record[a].resumed
                  /\ record'[a].fails = record[a].fails + 1
                  /\ record'[a].shorts = record[a].shorts + 1
          /\ go'[w].pc = "delay" /\ go'[w].name = go[w].name
      BY <2>1, <2>2 DEF Retries, ExitsAgain
    <2>4. record[a].slot = w /\ w # None
      <3>1. Supervising(w)
        BY <2>3 DEF Supervising, Supervises
      <3> QED BY <2>2, <3>1, Kinds DEF Supervised
    <2>5. CountsAt(record[a], "waiting", go[w].talk)
      BY <1>1, <2>2, <2>3 DEF Supervises
    <2>6. /\ record[a].shorts \in Nat /\ record[a].fails \in Nat
          /\ record'[a].shorts \in Nat /\ record'[a].fails \in Nat
      <3>1. record[a] \in Record /\ record'[a] \in Record
        BY TypesStep DEF Sound, Types, RecordTypes
      <3> QED BY <3>1, Kinds DEF Record
    <2>7. CountsAt(record'[a], "delay", go'[w].talk)
      <3> DEFINE k == record[a].shorts
                 f == record[a].fails
                 l == record'[a].shorts
                 e == record'[a].fails
      <3>1. k <= 2 * f + 1 /\ (k > 2 * f => ~record[a].resumed \/ record[a].bounced)
        BY <2>5 DEF CountsAt
      <3>2. k \in Nat /\ f \in Nat /\ l \in Nat /\ e \in Nat
        BY <2>6
      <3>3. \/ l = 0
            \/ ~(k > 2 * f) /\ record'[a].fresh /\ e = f /\ l = k + 1
            \/ e = f + 1 /\ l = k + 1
        BY <2>3, <3>1
      <3>4. l <= 2 * e + 1 /\ (l > 2 * e => record'[a].fresh)
        <4> HIDE DEF k, f, l, e
        <4> QED BY <3>1, <3>2, <3>3
      <3> QED BY <3>4 DEF CountsAt
    <2>8. \A b \in Agents : record'[b].slot = None => record'[b].shorts = 0
      BY <2>3, <2>4 DEF Counted
    <2>9. ASSUME NEW v \in Slots, go'[v].pc \in Supervises, v # w
          PROVE  /\ go'[v] = go[v] /\ running[go[v].name] = running'[go[v].name]
                 /\ Steady(running[go[v].name])
      <3>1. go'[v] = go[v]
        BY <1>0, <2>3, <2>9 DEF Others
      <3>2. running[go[v].name] \in Agents /\ record[running[go[v].name]].slot = v
        BY <1>1, <2>9, <3>1 DEF Supervised, Supervising, Its
      <3> QED BY <2>3, <2>4, <2>9, <3>1, <3>2 DEF Steady
    <2> QED BY <2>2, <2>3, <2>7, <2>8, <2>9, CountedFrame
  <1>9. CASE \E o \in Obeyers, n \in Names : Start(o, n)
    <2>1. PICK o \in Obeyers, n \in Names : Start(o, n)
      BY <1>9
    <2>2. /\ Others(o) /\ running[n] = None /\ o \notin Slots
          /\ \A m \in Names : m # n => running'[m] = running[m]
          /\ \A b \in Agents : b # created + 1 => record'[b] = record[b]
          /\ record'[created + 1].shorts = 0
      BY <1>0, <2>1, StartEffect
    <2>3. \A m \in Names : running[m] # created + 1
      <3>1. created \in Nat /\ \A m \in Names : running[m] <= created
        BY Kinds DEF Sound, Types, HostTypes, Numbered
      <3> QED BY <3>1
    <2>4. \A a \in Agents : record'[a].slot = None => record'[a].shorts = 0
      BY <2>2 DEF Counted
    <2>5. ASSUME NEW w \in Slots, go'[w].pc \in Supervises
          PROVE  /\ go'[w] = go[w] /\ running[go[w].name] = running'[go[w].name]
                 /\ Steady(running[go[w].name])
      <3>1. go'[w] = go[w]
        BY <1>0, <2>2 DEF Others
      <3>2. go[w].name \in Names /\ running[go[w].name] \in Agents
        BY <1>1, <2>5, <3>1
      <3> QED BY <2>2, <2>3, <3>1, <3>2, Kinds DEF Steady
    <2> QED BY <2>4, <2>5, CountedFrame
  <1>10. CASE \E t \in Launchers, n \in Names : Stop(t, n)
    <2>1. PICK t \in Launchers, n \in Names : t \in Goroutines /\ t \notin Slots /\ Stop(t, n)
      BY <1>0, <1>10
    <2>2. /\ UNCHANGED running /\ (UNCHANGED go \/ Others(t))
          /\ \A a \in Agents : Steady(a) /\ record'[a].slot = record[a].slot
      BY <2>1, StopEffect DEF Steady
    <2> QED BY <1>2, <2>1, <2>2
  <1>11. CASE \E o \in Obeyers, n \in Names, fresh \in BOOLEAN : Bounce(o, n, fresh)
    <2>1. PICK o \in Obeyers, n \in Names, fresh \in BOOLEAN : Bounce(o, n, fresh)
      BY <1>11
    <2>2. /\ UNCHANGED running /\ UNCHANGED go
          /\ \A a \in Agents : Steady(a) /\ record'[a].slot = record[a].slot
      BY <2>1, BounceEffect DEF Steady
    <2> QED BY <1>0, <1>2, <2>2
  <1>12. CASE \E n \in Names : RestoreNext(n)
    <2>1. /\ UNCHANGED running /\ Others(Main)
          /\ \A a \in Agents : Steady(a) /\ record'[a].slot = record[a].slot
      BY <1>12, RestoreNextEffect DEF Steady
    <2> QED BY <1>0, <1>2, <2>1
  <1>13. CASE Happens
    <2>1. /\ UNCHANGED running /\ UNCHANGED go
          /\ \A a \in Agents : Steady(a) /\ record'[a].slot = record[a].slot
      BY <1>13 DEF Steady, Happens
    <2> QED BY <1>0, <1>2, <2>1
  <1>14. CASE Restart
    <2>1. /\ \A t \in Goroutines : go'[t].pc = "idle"
          /\ \A a \in Agents : record'[a].shorts = 0
      BY <1>14, RestartEffect, Resting
    <2> QED BY <1>0, <2>1, CountedIs DEF Supervises
  <1> QED BY <1>3, <1>4, <1>5, <1>6, <1>7, <1>8, <1>9, <1>10, <1>11, <1>12, <1>13, <1>14, Classes

-----------------------------------------------------------------------------
(* The inductive invariant, and what follows from it.                      *)

LEMMA Stutter ==
  ASSUME IInv, UNCHANGED vars
  PROVE  IInv'
  <1>1. Types'
    BY DEF IInv, Types, RecordTypes, GoTypes, DiskTypes, HostTypes, vars
  <1>2. Staged'
    BY StagedIs, StagedIsNext DEF IInv, vars
  <1>3. Numbered' /\ Phased'
    BY DEF IInv, Numbered, Phased, At, Once, vars
  <1>4. Supervised' /\ Reserving'
    BY DEF IInv, Supervised, Supervising, Its, Reserving, At, vars
  <1>5. Owed' /\ Locked'
    BY DEF IInv, Owed, Owes, Locked, Its, At, vars
  <1>6. Erased' /\ Remembered'
    BY DEF IInv, Erased, Gones, Remembered, Has, WantedIsSaved, Saved, Its, At, vars
  <1>7. Tracked' /\ Counted'
    <2>1. Tracked'
      BY DEF IInv, Tracked, ProcessesAreTracked, Its, At, vars
    <2>2. Counted'
      BY CountedIs DEF IInv, vars
    <2> QED BY <2>1, <2>2
  <1> QED BY <1>1, <1>2, <1>3, <1>4, <1>5, <1>6, <1>7 DEF IInv

LEMMA Invariant ==
  ASSUME Orderly
  PROVE  Spec => []IInv
  <1>1. Init => IInv
    BY TypesInit, StagedInit, OrderedInit DEF IInv
  <1>2. ASSUME IInv, Next
        PROVE  IInv'
    <2>1. Sound
      BY <1>2 DEF IInv, Sound
    <2>2. Types' /\ Staged'
      BY <1>2, <2>1, TypesStep, StagedStep
    <2>3. Numbered' /\ Phased' /\ Reserving'
      BY <1>2, <2>1, NumberedStep, PhasedStep, ReservingStep DEF IInv
    <2>4. Supervised' /\ Owed'
      BY <1>2, <2>1, SupervisedStep, OwedStep DEF IInv
    <2>5. Locked' /\ Erased' /\ Remembered'
      BY <1>2, <2>1, LockedStep, ErasedStep, RememberedStep DEF IInv
    <2>6. Tracked' /\ Counted'
      BY <1>2, <2>1, <2>4, TrackedStep, CountedStep DEF IInv
    <2> QED BY <2>2, <2>3, <2>4, <2>5, <2>6 DEF IInv
  <1>3. IInv /\ [Next]_vars => IInv'
    BY <1>2, Stutter
  <1> QED BY <1>1, <1>3, PTL DEF Spec

\* A stop is reported once: whoever closes the channel of a stopped agent is the
\* only one of wait, its relaunch and Stop that came to owe it.
THEOREM ClosedOnce ==
  ASSUME Orderly
  PROVE  Spec => []DoneOnce
  <1>1. IInv => DoneOnce
    <2> SUFFICES ASSUME IInv, NEW a \in Agents
                 PROVE  record[a].done <= 1
      BY DEF DoneOnce
    <2>1. record[a].done \in Nat
      BY DEF IInv, Types, RecordTypes, Record
    <2>2. record[a].done > 0 => record[a].done = 1
      BY DEF IInv, Owed
    <2> QED BY <2>1, <2>2
  <1> QED BY <1>1, Invariant, PTL

\* When a stop is reported, neither Agents.running nor the state file leads back
\* to the agent: the save before it was of records that no longer had it, and
\* later saves are of later ones.
THEOREM StoppedForGood ==
  ASSUME Orderly
  PROVE  Spec => []StoppedIsGone
  <1>1. IInv => StoppedIsGone
    BY DEF IInv, Owed, Erased, Gones, StoppedIsGone
  <1> QED BY <1>1, Invariant, PTL

\* A process that lives and has its wait goroutine is the one its record names,
\* where Stop and StopAll find it.
THEOREM NoneLeftBehind ==
  ASSUME Orderly
  PROVE  Spec => []ProcessesAreTracked
  <1>1. IInv => ProcessesAreTracked
    BY DEF IInv, Tracked
  <1> QED BY <1>1, Invariant, PTL

\* restartLimit bounds the launches of an agent that does not stay up, though a
\* launch that resumed its conversation is not counted: the next one is fresh.
THEOREM RestartsEnd ==
  ASSUME Orderly
  PROVE  Spec => []RestartsAreBounded
  <1>1. IInv => RestartsAreBounded
    <2> SUFFICES ASSUME IInv, NEW a \in Agents
                 PROVE  record[a].shorts <= 2 * RestartLimit
      BY DEF RestartsAreBounded
    <2>1. /\ record[a].shorts \in Nat /\ record[a].fails \in 0..(RestartLimit - 1)
          /\ record[a].slot \in Slots \cup {None}
      BY DEF IInv, Types, RecordTypes, Record
    <2>2. CASE record[a].slot = None
      BY <2>1, <2>2, Kinds DEF IInv, Counted
    <2>3. CASE record[a].slot # None
      <3>1. PICK n \in Names : running[n] = a /\ a # None
        BY <2>3, Kinds DEF IInv, Supervised
      <3>2. PICK w \in Slots : w = record[a].slot
        BY <2>1, <2>3
      <3>3. go[w].pc \in Supervises /\ go[w].name = n
        BY <2>3, <3>1, <3>2 DEF IInv, Supervised, Supervising
      <3>4. CountsAt(record[a], go[w].pc, go[w].talk)
        BY <3>1, <3>3, CountedIs DEF IInv
      <3>5. record[a].shorts <= 2 * record[a].fails + 1
        BY <3>4 DEF CountsAt
      <3> QED BY <2>1, <3>5, Kinds
    <2> QED BY <2>2, <2>3
  <1> QED BY <1>1, Invariant, PTL

\* Where the host is not told to stop, a crash loses no agent that was begun: the
\* state file has it before Start is answered, and every later write has it too.
THEOREM WantedAreSaved ==
  ASSUME Orderly, ~ShutsDown
  PROVE  Spec => []WantedIsSaved
  <1>1. IInv => WantedIsSaved
    BY DEF IInv, Remembered
  <1> QED BY <1>1, Invariant, PTL

=============================================================================
