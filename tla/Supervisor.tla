----------------------------- MODULE Supervisor -----------------------------
(***************************************************************************)
(* What keeps the agents of one machine running: Agents of                 *)
(* internal/host/agents.go, as the host's connections (obey, host.go), the *)
(* goroutine that waits for each process, the screen watchers and the main *)
(* goroutine (Restore, StopAll) use it at the same time.                   *)
(*                                                                         *)
(* Every critical section of Agents.mu is an action; between two of them a *)
(* goroutine holds nothing but saveMu.  A record (type process) is found   *)
(* by its agent's name each time, so a goroutine may meet another agent's  *)
(* record under the name it knows.                                         *)
(*                                                                         *)
(* A conversation is abstracted to how many Fresh restarts its agent had   *)
(* been given when it began: what Fresh is for is that nothing below the   *)
(* agent's own count is resumed again.  Commands, directories and screens  *)
(* are left out, and so are the refusals over them, which change nothing.  *)
(***************************************************************************)
EXTENDS Naturals, FiniteSets

CONSTANTS
  Names,        \* names of agents
  Obeyers,      \* obey goroutines, one to a connection: two where one is
                \* still in Agents.Start when the next connection is up
  Watchers,     \* watch goroutines that are doing something
  Main,         \* the goroutine of kolo host: Restore, and StopAll at the end
  Nobody,       \* no goroutine
  MaxAgents,    \* bound: agents the hub asks for
  Slots,        \* bound: processes, each with its wait goroutine, at one time
  RestartLimit, \* restartLimit, 3 in the code
  MaxFresh,     \* bound: Fresh restarts
  MaxCrashes,   \* bound: times the host's process ends and is started again
  MaxFailures,  \* bound: writes of the state file that fail
  Pins,         \* the kind of agent is told its conversation's id (Pin)
  Reads,        \* the kind shows the id of its conversation on its screen
  ShutsDown     \* the host may be told to stop (StopAll)

None == 0
Agents == 1..MaxAgents
NoConversation == MaxFresh + 1
Conversations == 0..NoConversation
Goroutines == Obeyers \cup Watchers \cup {Main} \cup Slots

ASSUME BoundsAssumption ==
  /\ MaxAgents \in Nat /\ MaxFresh \in Nat /\ MaxCrashes \in Nat /\ MaxFailures \in Nat
  /\ RestartLimit \in Nat \ {0} /\ Slots \subseteq Nat \ {0}
  /\ Pins \in BOOLEAN /\ Reads \in BOOLEAN /\ ShutsDown \in BOOLEAN
ASSUME NamesAssumption == None \notin Names
ASSUME GoroutinesAssumption ==
  /\ Nobody \notin Goroutines
  /\ Main \notin Obeyers \cup Watchers \cup Slots
  /\ Obeyers \cap Watchers = {} /\ (Obeyers \cup Watchers) \cap Slots = {}

VARIABLES
  phase,     \* restoring, serving, or closing (Agents.closing)
  running,   \* Agents.running: the record under each name
  record,    \* the records, by agent
  go,        \* the goroutines: stage, what it holds, the conversation of its process,
             \* and what it does after a save
  obeyer,    \* the obey goroutine of the connection that is up
  past,      \* those of the connections before it
  alive,     \* the processes that live
  writer,    \* who holds saveMu
  snapshot,  \* what each goroutine that saves is going to write
  file,      \* the state file
  health,    \* FALSE when the last write failed (Agents.health)
  todo,      \* names Restore has reserved and not begun
  created,   \* how many agents were asked for
  crashes, failures, \* how many there were
  wanted     \* history: agents that were begun, and neither stopped nor given up

vars == <<phase, running, record, go, alive, writer, snapshot, file, health,
          obeyer, past, todo, created, crashes, failures, wanted>>
diskVars == <<writer, snapshot, file, health, failures>>
hostVars == <<phase, obeyer, past, todo, created, crashes>>

Rest == [pc |-> "idle", name |-> None, agent |-> None, slot |-> None,
         talk |-> NoConversation, then |-> "idle"]
Unused == [slot |-> None, stopping |-> FALSE, done |-> 0, fails |-> 0, fresh |-> FALSE,
           resumed |-> FALSE, bounced |-> FALSE, session |-> NoConversation,
           cleared |-> 0, shorts |-> 0]
NoEntry == [agent |-> None, session |-> NoConversation]
NoEntries == [n \in Names |-> NoEntry]

Init ==
  /\ phase = "serving"
  /\ running = [n \in Names |-> None]
  /\ record = [a \in Agents |-> Unused]
  /\ go = [t \in Goroutines |-> Rest]
  /\ alive = {}
  /\ writer = Nobody
  /\ snapshot = [t \in Goroutines |-> NoEntries]
  /\ file = NoEntries
  /\ health = TRUE
  /\ obeyer \in Obeyers /\ past = {}
  /\ todo = {} /\ created = 0 /\ crashes = 0 /\ failures = 0
  /\ wanted = {}

-----------------------------------------------------------------------------
At(t, pc) == go[t].pc = pc
Its(t) == running[go[t].name]          \* the record under the name t knows
Goto(t, pc) == go' = [go EXCEPT ![t].pc = pc]
Ends(t) == go' = [go EXCEPT ![t] = Rest]
SaveThen(t, pc) == go' = [go EXCEPT ![t].pc = "save", ![t].then = pc]

\* delete(a.running, name): of a record nobody finds any more, its stopped and
\* done channels are all that is still used.
Forget(n) ==
  /\ running' = [running EXCEPT ![n] = None]
  /\ record' = [a \in Agents |-> IF a # running[n] THEN record[a]
                                ELSE [Unused EXCEPT !.stopping = record[a].stopping,
                                                    !.done = record[a].done]]

Free(s) == At(s, "idle") /\ s \notin alive

\* Whether the record a goroutine finds under its name is "no longer wanted".
\* Mutant: a record that is being stopped still is.
GoneIfMissing(a) == a = None
Gone(a) == a \notin {b \in Agents : ~record[b].stopping}

\* The next launch resumes the conversation of the record, if it has an id.
Resumes(a) == ~record[a].fresh /\ record[a].session # NoConversation
Resume(a) == IF Resumes(a) THEN record[a].session ELSE NoConversation

\* What save's caller does next: wait and Stop close the channel of a stopped
\* agent, and begin reports its agent.
Return(t) ==
  LET a == go[t].agent IN
  /\ Ends(t)
  /\ record' = IF go[t].then = "done"
               THEN [record EXCEPT ![a].done = @ + 1] ELSE record
  /\ wanted' = IF go[t].then = "begun" /\ a = Its(t) /\ ~Gone(a) /\ phase # "closing"
               THEN wanted \cup {a} ELSE wanted

-----------------------------------------------------------------------------
(* Start, Restore and launch. *)

\* Only the connection that is up brings commands, one at a time.
Obeys(o) == o = obeyer /\ phase = "serving" /\ At(o, "idle")

\* The connection broke and the next one is up.  What the old one was doing goes
\* on: a goroutine in Agents.Start is not told.
Reconnect(o) ==
  /\ phase = "serving" /\ o \notin past \cup {obeyer}
  /\ past' = past \cup {obeyer}
  /\ obeyer' = o
  /\ UNCHANGED <<phase, todo, created, crashes, running, record, go, alive, diskVars, wanted>>

\* reserve: a new agent starts fresh, under a name nothing has here.
Start(o, n) ==
  /\ Obeys(o)
  /\ running[n] = None
  /\ created < MaxAgents
  /\ created' = created + 1
  /\ running' = [running EXCEPT ![n] = created + 1]
  /\ record' = [record EXCEPT ![created + 1] = [Unused EXCEPT !.fresh = TRUE]]
  /\ go' = [go EXCEPT ![o] = [Rest EXCEPT !.pc = "launch", !.name = n, !.agent = created + 1]]
  /\ UNCHANGED <<phase, obeyer, past, todo, crashes, alive, diskVars, wanted>>

\* Restore, which has reserved every name already, begins the oldest that is left.
RestoreNext(n) ==
  /\ phase = "restoring" /\ At(Main, "idle")
  /\ n \in todo /\ \A m \in todo : running[n] <= running[m]
  /\ todo' = todo \ {n}
  /\ go' = [go EXCEPT ![Main] = [Rest EXCEPT !.pc = "launch", !.name = n, !.agent = running[n]]]
  /\ UNCHANGED <<phase, obeyer, past, created, crashes, running, record, alive, diskVars, wanted>>

RestoreDone ==
  /\ phase = "restoring" /\ At(Main, "idle") /\ todo = {}
  /\ phase' = "serving"
  /\ UNCHANGED <<obeyer, past, todo, created, crashes, running, record, go, alive, diskVars, wanted>>

\* begin forgets the name when launch fails, and so does wait; wait also saves.
LaunchFailed(t) == Goto(t, IF t \in Slots THEN "clean" ELSE "forget")

\* launch up to its second critical section.  How the agent is started is decided
\* first; agent.Start, which shares nothing, then gives a process or an error.
Launch(t) ==
  /\ At(t, "launch") \/ At(t, "delay")     \* restartDelay is over
  /\ LET a == Its(t) IN
       \/ /\ Gone(a)
          /\ LaunchFailed(t)
          /\ UNCHANGED <<record, alive>>
       \/ /\ ~Gone(a)
          /\ record' = IF record[a].fresh /\ Pins
                       THEN [record EXCEPT ![a].session = record[a].cleared] ELSE record
          /\ \/ /\ LaunchFailed(t)
                /\ UNCHANGED alive
             \/ \E s \in Slots :
                  /\ Free(s) /\ \A r \in Slots : r < s => ~Free(r)
                  /\ alive' = alive \cup {s}
                  /\ go' = [go EXCEPT ![t].pc = "commit", ![t].slot = s, ![t].talk = Resume(a)]
  /\ UNCHANGED <<hostVars, running, diskVars, wanted>>

\* The rest of launch: whoever has the name by now gets the process, and its
\* wait goroutine starts.  A stop that came meanwhile has it killed.
Commit(t) ==
  /\ At(t, "commit")
  /\ LET a == Its(t)
         s == go[t].slot
         resumed == go[t].talk # NoConversation
     IN
       \/ /\ Gone(a)
          /\ alive' = alive \ {s}
          /\ go' = [go EXCEPT ![t].slot = None, ![t].talk = NoConversation,
                              ![t].pc = IF t \in Slots THEN "clean" ELSE "forget"]
          /\ UNCHANGED record
       \/ /\ ~Gone(a)
          /\ record' = [record EXCEPT ![a].slot = s, ![a].resumed = resumed,
                                      ![a].fresh = FALSE, ![a].bounced = FALSE]
          /\ go' = [go EXCEPT
               ![s] = [Rest EXCEPT !.pc = "waiting", !.name = go[t].name,
                                   !.talk = IF resumed THEN go[t].talk ELSE record[a].cleared],
               ![t] = IF t \in Slots THEN Rest
                      ELSE [@ EXCEPT !.pc = "save", !.then = "begun",
                                     !.slot = None, !.talk = NoConversation]]
          /\ UNCHANGED alive
  /\ UNCHANGED <<hostVars, running, diskVars, wanted>>

\* Agents.forget, of whatever has the name, after a launch that failed...
ForgetFailed(t) ==
  /\ At(t, "forget")
  /\ Forget(go[t].name)
  /\ wanted' = wanted \ {Its(t)}
  /\ Ends(t)
  /\ UNCHANGED <<hostVars, alive, diskVars>>

\* Mutant: the stop that made the relaunch fail is forgotten.
NoneWaits(a) == "idle"
AfterCleanUp(a) == IF a # None /\ record[a].stopping THEN "done" ELSE "idle"

\* ...and the same by a wait goroutine, which keeps a Stop's promise as well.
CleanUp(w) ==
  /\ At(w, "clean")
  /\ LET a == Its(w) IN
       /\ go' = [go EXCEPT ![w].pc = "save", ![w].agent = a,
                           ![w].then = AfterCleanUp(a)]
       /\ wanted' = wanted \ {a}
  /\ Forget(go[w].name)
  /\ UNCHANGED <<hostVars, alive, diskVars>>

-----------------------------------------------------------------------------
(* wait: the end of a process. *)

\* A process ends by itself.
Dies(s) ==
  /\ s \in alive /\ At(s, "waiting")
  /\ alive' = alive \ {s}
  /\ UNCHANGED <<hostVars, running, record, go, diskVars, wanted>>

\* Mutant: a conversation that cannot be resumed is tried again.
AfterExitResumes(r, long) ==
  IF r.bounced THEN [r EXCEPT !.bounced = FALSE, !.shorts = 0]
  ELSE IF long THEN [r EXCEPT !.fails = 0, !.shorts = 0]
  ELSE IF r.resumed THEN [r EXCEPT !.shorts = @ + 1]
  ELSE [r EXCEPT !.fails = @ + 1, !.shorts = @ + 1]

\* What an exit says about the agent; long is whether it ran past shortRun.
AfterExit(r, long) ==
  IF r.bounced THEN [r EXCEPT !.bounced = FALSE, !.shorts = 0]
  ELSE IF long THEN [r EXCEPT !.fails = 0, !.shorts = 0]
  ELSE IF r.resumed THEN [r EXCEPT !.fresh = TRUE, !.session = NoConversation,
                                   !.shorts = @ + 1]
  ELSE [r EXCEPT !.fails = @ + 1, !.shorts = @ + 1]

\* Mutant: the limit is one off.
GivesUpLate(r) == r.fails > RestartLimit
GivesUp(r) == r.fails >= RestartLimit

Exit(w) ==
  /\ At(w, "waiting") /\ w \notin alive
  /\ LET a == Its(w) IN
       \/ /\ a = None
          /\ Ends(w)
          /\ UNCHANGED <<running, record, wanted>>
       \/ /\ a # None /\ record[a].stopping
          /\ Forget(go[w].name)
          /\ go' = [go EXCEPT ![w].pc = "save", ![w].then = "done", ![w].agent = a]
          /\ UNCHANGED wanted
       \/ \E long \in BOOLEAN :
            LET r == AfterExit(record[a], long) IN
            /\ ~Gone(a)
            /\ \/ /\ GivesUp(r)
                  /\ Forget(go[w].name)
                  /\ SaveThen(w, "idle")
                  /\ wanted' = wanted \ {a}
               \/ /\ ~GivesUp(r)
                  /\ record' = [record EXCEPT ![a] = r]
                  /\ go' = [go EXCEPT ![w].pc = "delay", ![w].agent = a]
                  /\ UNCHANGED <<running, wanted>>
  /\ UNCHANGED <<hostVars, alive, diskVars>>

\* The agent is stopped in restartDelay.
DelayStopped(w) ==
  /\ At(w, "delay")
  /\ record[go[w].agent].stopping
  /\ IF Its(w) = go[w].agent THEN Forget(go[w].name) ELSE UNCHANGED <<running, record>>
  /\ SaveThen(w, "done")
  /\ UNCHANGED <<hostVars, alive, diskVars, wanted>>

-----------------------------------------------------------------------------
(* Stop, StopAll, and Restart and Fresh. *)

\* Mutant: a dead process counts as none, though its wait goroutine is there.
DeadOrUnlaunched(a) == record[a].slot \notin alive
Unlaunched(a) == record[a].slot = None

\* Stop marks the record and kills its process (Close, of a process no other
\* goroutine than its own wait sees); without one there is nothing to wait for.
\* A stop of nothing, or a second one, changes nothing.
Stop(t, n) ==
  /\ Obeys(t) \/ (t = Main /\ phase = "closing" /\ At(t, "idle"))
  /\ ~Gone(running[n])
  /\ LET a == running[n] IN
       /\ record' = [record EXCEPT ![a].stopping = TRUE]
       /\ alive' = alive \ {record[a].slot}
       /\ go' = IF Unlaunched(a)
                THEN [go EXCEPT ![t] = [Rest EXCEPT !.pc = "unlaunched", !.name = n, !.agent = a]]
                ELSE go
       /\ wanted' = IF t = Main THEN wanted ELSE wanted \ {a}
  /\ UNCHANGED <<hostVars, running, diskVars>>

StopUnlaunched(t) ==
  /\ At(t, "unlaunched")
  /\ Forget(go[t].name)
  /\ SaveThen(t, "done")
  /\ UNCHANGED <<hostVars, alive, diskVars, wanted>>

\* bounce: only of an agent that has had a process, which is killed.
Bounce(o, n, fresh) ==
  /\ Obeys(o)
  /\ ~Gone(running[n])
  /\ LET a == running[n]
         r == [record[a] EXCEPT !.bounced = TRUE]
     IN
       /\ r.slot # None
       /\ fresh => r.cleared < MaxFresh
       /\ record' = [record EXCEPT ![a] =
                       IF fresh THEN [r EXCEPT !.fresh = TRUE, !.session = NoConversation,
                                               !.cleared = @ + 1]
                       ELSE r]
       /\ alive' = alive \ {r.slot}
  /\ UNCHANGED <<hostVars, running, go, diskVars, wanted>>

-----------------------------------------------------------------------------
(* watch, and save. *)

\* remember: the record gets the conversation that was on the screen of w.
Remember(k, w) ==
  /\ Reads
  /\ At(k, "idle") /\ go[w].pc \in {"waiting", "delay"}
  /\ LET a == Its(w) IN
       /\ a # None /\ record[a].session # go[w].talk
       /\ record' = [record EXCEPT ![a].session = go[w].talk]
       /\ go' = [go EXCEPT ![k].pc = "save"]
  /\ UNCHANGED <<hostVars, running, alive, diskVars, wanted>>

\* reading: the agent became idle or busy, which is saved.
Reading(k, w) ==
  /\ At(k, "idle") /\ At(w, "waiting") /\ Its(w) # None
  /\ Goto(k, "save")
  /\ UNCHANGED <<hostVars, running, record, alive, diskVars, wanted>>

\* Mutant: saves do not wait for each other.
AlwaysUnlocked == TRUE
Unlocked == writer = Nobody     \* saveMu

\* save: nothing is written any more once the host is closing.
SaveLock(t) ==
  /\ At(t, "save") /\ Unlocked
  /\ \/ /\ phase = "closing"
        /\ Return(t)
        /\ UNCHANGED writer
     \/ /\ phase # "closing"
        /\ writer' = t
        /\ Goto(t, "records")
        /\ UNCHANGED <<record, wanted>>
  /\ UNCHANGED <<hostVars, running, alive, snapshot, file, health, failures>>

\* records(): every name, also of agents that are starting or stopping.
Records ==
  [n \in Names |-> IF running[n] = None THEN NoEntry
                   ELSE [agent |-> running[n], session |-> record[running[n]].session]]

SaveRecords(t) ==
  /\ At(t, "records")
  /\ snapshot' = [snapshot EXCEPT ![t] = Records]
  /\ Goto(t, "write")
  /\ UNCHANGED <<hostVars, running, record, alive, writer, file, health, failures, wanted>>

SaveWrite(t) ==
  /\ At(t, "write")
  /\ \/ /\ file' = snapshot[t]
        /\ health' = TRUE
        /\ UNCHANGED failures
     \/ /\ failures < MaxFailures
        /\ failures' = failures + 1
        /\ health' = FALSE
        /\ UNCHANGED file
  /\ writer' = Nobody
  /\ snapshot' = [snapshot EXCEPT ![t] = NoEntries]
  /\ Return(t)
  /\ UNCHANGED <<hostVars, running, alive>>

-----------------------------------------------------------------------------
(* The host's own process. *)

Saved(a) == \E n \in Names : file[n].agent = a
SavedSession(a) == file[CHOOSE n \in Names : file[n].agent = a].session

\* StopAll begins: from here on nothing is saved.
Shutdown ==
  /\ ShutsDown /\ phase = "serving"
  /\ phase' = "closing"
  /\ UNCHANGED <<obeyer, past, todo, created, crashes, running, record, go, alive, diskVars, wanted>>

\* Mutant: Restore reserves only the name it begins with.
ReservedFirst ==
  [n \in Names |-> IF n = CHOOSE m \in Names : TRUE THEN file[n].agent ELSE None]
Reserved == [n \in Names |-> file[n].agent]

\* The process ends, killed or because it has shut down, and the next one reads
\* the state file: every agent in it is reserved before the first is begun.
Restart ==
  /\ crashes < MaxCrashes
  /\ crashes' = crashes + 1
  /\ phase' = "restoring"
  /\ running' = Reserved
  /\ record' = [a \in Agents |->
                  [Unused EXCEPT !.session = IF Saved(a)
                                             THEN SavedSession(a)
                                             ELSE NoConversation,
                                 !.cleared = record[a].cleared]]
  /\ todo' = {n \in Names : file[n].agent # None}
  /\ go' = [t \in Goroutines |-> Rest]
  /\ alive' = {}
  /\ writer' = Nobody
  /\ snapshot' = [t \in Goroutines |-> NoEntries]
  /\ health' = TRUE
  /\ wanted' = IF health THEN wanted ELSE {a \in wanted : Saved(a)}
  /\ UNCHANGED <<obeyer, past, created, file, failures>>

-----------------------------------------------------------------------------
LaunchStep(t) == Launch(t) \/ Commit(t) \/ ForgetFailed(t)
WaitStep(w) == Exit(w) \/ DelayStopped(w) \/ CleanUp(w)
SaveStep(t) == SaveLock(t) \/ SaveRecords(t) \/ SaveWrite(t)
Step(t) ==
  LaunchStep(t) \/ StopUnlaunched(t) \/ SaveStep(t) \/ (t \in Slots /\ WaitStep(t))

Next ==
  \/ \E t \in Goroutines : Step(t)
  \/ \E o \in Obeyers, n \in Names :
       Start(o, n) \/ Stop(o, n) \/ \E fresh \in BOOLEAN : Bounce(o, n, fresh)
  \/ \E o \in Obeyers : Reconnect(o)
  \/ \E n \in Names : Stop(Main, n) \/ RestoreNext(n)
  \/ RestoreDone \/ Shutdown \/ Restart
  \/ \E s \in Slots : Dies(s) \/ \E k \in Watchers : Remember(k, s) \/ Reading(k, s)

Spec == Init /\ [][Next]_vars

(* Goroutines are scheduled, and the one that waits longest for saveMu gets it *)
(* (sync.Mutex is starvation free).  A process need not end unless it is       *)
(* killed, and nobody has to ask for anything.                                 *)
FairSpec ==
  /\ Spec
  /\ \A t \in Goroutines : WF_vars(Step(t))
  /\ \A t \in Obeyers \cup Slots : SF_vars(SaveLock(t))
  /\ \A n \in Names : WF_vars(RestoreNext(n))
  /\ WF_vars(RestoreDone)

-----------------------------------------------------------------------------
(* What supervision promises. *)

Stages == {"idle", "launch", "commit", "begun", "forget", "clean", "waiting", "delay",
           "unlaunched", "done", "save", "records", "write"}
Record == [slot : Slots \cup {None}, stopping : BOOLEAN, done : Nat, fails : 0..(RestartLimit - 1),
           fresh : BOOLEAN, resumed : BOOLEAN, bounced : BOOLEAN, session : Conversations,
           cleared : 0..MaxFresh, shorts : Nat]
Entry == [agent : Agents \cup {None}, session : Conversations]

TypeOK ==
  /\ phase \in {"restoring", "serving", "closing"}
  /\ running \in [Names -> Agents \cup {None}]
  /\ record \in [Agents -> Record]
  /\ go \in [Goroutines -> [pc : Stages, name : Names \cup {None}, agent : Agents \cup {None},
                            slot : Slots \cup {None}, talk : Conversations, then : Stages]]
  /\ alive \subseteq Slots
  /\ writer \in Goroutines \cup {Nobody}
  /\ snapshot \in [Goroutines -> [Names -> Entry]] /\ file \in [Names -> Entry]
  /\ health \in BOOLEAN
  /\ obeyer \in Obeyers /\ past \subseteq Obeyers /\ todo \subseteq Names
  /\ created \in 0..MaxAgents /\ crashes \in 0..MaxCrashes /\ failures \in 0..MaxFailures
  /\ wanted \subseteq Agents

\* The channel a stop waits on is closed by one of four goroutines, and by one
\* only: closing it again panics, and takes every agent of the machine along
\* (Stop, and three ends of wait).
DoneOnce == \A a \in Agents : record[a].done <= 1

\* When a stop is reported, the agent's record is gone for good, and the state
\* file has no entry that would bring it back, unless the host is known not to
\* be saving (Stop, Agents.health).
StoppedIsGone ==
  \A a \in Agents, n \in Names : record[a].done > 0 =>
    /\ running[n] # a
    /\ file[n].agent = a => ~health \/ phase = "closing"

\* "Stop may have arrived mid-start; kill rather than leave it untracked"
\* (agents.go:232): a process that lives and is supervised is the process of the
\* record under its name, where a member can reach it, and nobody has stopped it.
ProcessesAreTracked ==
  \A s \in alive : At(s, "waiting") =>
    /\ Its(s) # None
    /\ record[Its(s)].slot = s /\ ~record[Its(s)].stopping

\* An agent that cannot stay up is not restarted for ever, whichever launches
\* resumed its conversation: the short runs in a row are bounded, though a
\* resumed one is not counted (restartLimit).
RestartsAreBounded == \A a \in Agents : record[a].shorts <= 2 * RestartLimit

\* An agent that was begun, and neither stopped nor given up, is in the state
\* file whenever the host may crash, also when it crashes while it restores
\* (Restore reserves every name before it begins one), unless the host is known
\* not to be saving.
WantedIsSaved == health => \A a \in wanted : Saved(a)

\* Every stop is reported in the end: whichever goroutine finds the agent
\* stopping closes its channel (wait, launch, Stop).
StopsComplete ==
  \A a \in Agents : record[a].stopping ~> (record[a].done > 0 \/ ~record[a].stopping)

=============================================================================
