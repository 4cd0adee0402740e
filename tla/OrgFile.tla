------------------------------- MODULE OrgFile --------------------------------
(***************************************************************************)
(* How the org file is rewritten and reread: update, Init and replace of   *)
(* internal/hub/org.go, lock.go, the join handler of server.go, the watch  *)
(* of reload.go, and the order `kolo serve` starts in.                     *)
(*                                                                         *)
(* Commands are kolo processes that change the file and end.  Servers are  *)
(* hubs, started one after the other; each writes its address into the     *)
(* file before it serves.  Joins are requests to the hub that serves.  All *)
(* of them rewrite the file under one flock, into a temporary that is      *)
(* renamed into place.  The joins and the reload of one hub also exclude   *)
(* each other (Server.orgFile), and replace the org it answers from        *)
(* (Server.org).  Any process may be killed at any moment.                 *)
(***************************************************************************)
EXTENDS Org

CONSTANTS
    Commands, Joins, Servers,
    NoOne

ASSUME WritersAssumption ==
    /\ Writers = Commands \cup Joins \cup Servers
    /\ Commands \cap Joins = {} /\ Joins \cap Servers = {} /\ Commands \cap Servers = {}
    /\ NoOne \notin Writers /\ "reload" \notin Writers \cup {NoOne}

VARIABLES
    file,        \* what the file holds
    version,     \* how many times it was written: history
    lock,        \* who has the flock
    job,         \* [Writers -> how far each is]
    hub,         \* the hub that is up
    mutex,       \* who has its orgFile: NoOne, a join or "reload"
    reading,     \* its reload: what it read, and what it loaded
    edit,        \* the operator's edit by hand
    claims       \* [Tokens -> members an invite has made]: history

fileVars == <<file, version, claims>>
vars == <<fileVars, lock, job, hub, mutex, reading, edit>>

NoJob == [at |-> "new", change |-> [kind |-> "none"], org |-> NoFile, version |-> 0]
\* began is history: what the watch read first.
NoHub == [at |-> "down", by |-> NoOne, org |-> NoFile, version |-> 0,
          last |-> NoFile, began |-> NoFile]
NoReading == [at |-> "idle", raw |-> NoFile, org |-> NoFile, version |-> 0]

Init ==
    /\ file \in {NoFile, Settled}
    /\ version = 0
    /\ lock = NoOne
    /\ job = [w \in Writers |-> NoJob]
    /\ hub = NoHub
    /\ mutex = NoOne
    /\ reading = NoReading
    /\ edit = [at |-> "none", org |-> NoFile]
    /\ claims = [t \in Tokens |-> 0]

-----------------------------------------------------------------------------
(* Beginnings: what each writer does before it asks for the lock.          *)

Asks(w, c) == job' = [job EXCEPT ![w].at = "asking", ![w].change = c]
EndsAs(w, how) == job' = [job EXCEPT ![w].at = how]

CommandChanges == {c \in Changes : c.kind \in {"add", "invite", "remove", "withdraw"}}

CommandBegins(w) ==
    /\ job[w].at = "new"
    /\ \E c \in CommandChanges : Asks(w, c)
    /\ UNCHANGED <<fileVars, lock, hub, mutex, reading, edit>>

\* Init looks for the file before it asks for the lock, and again after.
InitBegins(w) ==
    /\ job[w].at = "new"
    /\ IF file = NoFile THEN Asks(w, [kind |-> "init"]) ELSE EndsAs(w, "refused")
    /\ UNCHANGED <<fileVars, lock, hub, mutex, reading, edit>>

JoinBegins(w) ==
    /\ job[w].at = "new"
    /\ hub.at \in {"serving", "watching"}
    /\ mutex = NoOne
    /\ mutex' = w
    /\ \E t \in Commands \cup {Standing} : Asks(w, [kind |-> "claim", token |-> t])
    /\ UNCHANGED <<fileVars, lock, hub, reading, edit>>

\* serve loads the file, listens, and then writes where it is.
ServerBegins(w) ==
    /\ job[w].at = "new"
    /\ hub.at = "down"
    /\ Loads(file)
    /\ hub' = [NoHub EXCEPT !.at = "starting", !.by = w, !.org = file, !.version = version]
    /\ Asks(w, [kind |-> "url"])
    /\ UNCHANGED <<fileVars, lock, mutex, reading, edit>>

-----------------------------------------------------------------------------
(* update.                                                                 *)

\* Mutant: the lock is not waited for.
Take_Unlocked(w) ==
    /\ job[w].at = "asking"
    /\ IF Allowed(file, job[w].change)
       THEN /\ job' = [job EXCEPT ![w].at = "writing",
                                  ![w].org = Changed(file, job[w].change, w)]
            /\ lock' = w
       ELSE EndsAs(w, "refused") /\ UNCHANGED lock
    /\ UNCHANGED <<fileVars, hub, mutex, reading, edit>>

\* Lock, load, change and validate.  What is refused unlocks.
Take(w) ==
    /\ job[w].at = "asking"
    /\ lock = NoOne
    /\ IF Allowed(file, job[w].change)
       THEN /\ job' = [job EXCEPT ![w].at = "writing",
                                  ![w].org = Changed(file, job[w].change, w)]
            /\ lock' = w
       ELSE EndsAs(w, "refused") /\ UNCHANGED lock
    /\ UNCHANGED <<fileVars, hub, mutex, reading, edit>>

Unlocked(w) == IF lock = w THEN NoOne ELSE lock

\* Mutant: the file itself is written.
Write_InPlace(w) ==
    /\ job[w].at = "writing"
    /\ EndsAs(w, "renaming")
    /\ file' = Torn
    /\ version' = version + 1
    /\ UNCHANGED <<claims, lock, hub, mutex, reading, edit>>

\* replace: the temporary is written, and renamed.
Write(w) ==
    /\ job[w].at = "writing"
    /\ EndsAs(w, "renaming")
    /\ UNCHANGED <<fileVars, lock, hub, mutex, reading, edit>>

Rename(w) ==
    /\ job[w].at = "renaming"
    /\ file' = job[w].org
    /\ version' = version + 1
    /\ claims' = IF job[w].change.kind = "claim"
                 THEN [claims EXCEPT ![job[w].change.token] = @ + 1] ELSE claims
    /\ lock' = Unlocked(w)
    /\ job' = [job EXCEPT ![w].at = IF w \in Joins THEN "renamed" ELSE "done",
                          ![w].version = version']
    /\ UNCHANGED <<hub, mutex, reading, edit>>

\* CreateTemp, Write, Sync, Close or Rename fails.
ReplaceFails(w) ==
    /\ job[w].at \in {"writing", "renaming"}
    /\ EndsAs(w, "failed")
    /\ lock' = Unlocked(w)
    /\ UNCHANGED <<fileVars, hub, mutex, reading, edit>>

\* The process is killed: its flock goes, a temporary stays that nobody reads.
Killed(w) ==
    /\ job[w].at \in {"asking", "writing", "renaming"}
    /\ EndsAs(w, "killed")
    /\ lock' = Unlocked(w)
    /\ UNCHANGED <<fileVars, hub, mutex, reading, edit>>

-----------------------------------------------------------------------------
(* The hub.                                                                *)

\* Mutant: the hub goes on with the org it had.
JoinEnds_Untold(w) ==
    /\ mutex = w
    /\ \/ job[w].at = "renamed" /\ EndsAs(w, "done")
       \/ job[w].at \in {"refused", "failed"} /\ UNCHANGED job
    /\ mutex' = NoOne
    /\ UNCHANGED <<fileVars, lock, hub, reading, edit>>

\* handleJoin has its org from Claim, or its error.
JoinEnds(w) ==
    /\ mutex = w
    /\ \/ /\ job[w].at = "renamed"
          /\ EndsAs(w, "done")
          /\ hub' = [hub EXCEPT !.org = job[w].org, !.version = job[w].version]
       \/ job[w].at \in {"refused", "failed"} /\ UNCHANGED <<job, hub>>
    /\ mutex' = NoOne
    /\ UNCHANGED <<fileVars, lock, reading, edit>>

\* The address is written.  What update returned, the whole org, is dropped.
ServerServes(w) ==
    /\ hub.by = w
    /\ hub.at = "starting"
    /\ job[w].at = "done"
    /\ hub' = [hub EXCEPT !.at = "serving"]
    /\ UNCHANGED <<fileVars, lock, job, mutex, reading, edit>>

\* watchOrg, which Serve starts beside the listener.
WatchBegins ==
    /\ hub.at = "serving"
    /\ hub' = [hub EXCEPT !.at = "watching", !.last = file, !.began = file]
    /\ UNCHANGED <<fileVars, lock, job, mutex, reading, edit>>

\* Mutant: joins are not excluded.
ReloadReads_Unlocked ==
    /\ hub.at = "watching"
    /\ reading.at = "idle"
    /\ file # hub.last
    /\ reading' = [NoReading EXCEPT !.at = "loading", !.raw = file]
    /\ UNCHANGED <<fileVars, lock, job, hub, mutex, edit>>

\* reload: the file is not what was last read.
ReloadReads ==
    /\ hub.at = "watching"
    /\ mutex = NoOne
    /\ file # hub.last
    /\ mutex' = "reload"
    /\ reading' = [NoReading EXCEPT !.at = "loading", !.raw = file]
    /\ UNCHANGED <<fileVars, lock, job, hub, edit>>

\* Load reads the file a second time.
ReloadLoads ==
    /\ reading.at = "loading"
    /\ Loads(file)
    /\ reading' = [reading EXCEPT !.at = "loaded", !.org = file, !.version = version]
    /\ UNCHANGED <<fileVars, lock, job, hub, mutex, edit>>

\* Mutant: what does not load is applied.
ReloadRefuses_Applies ==
    /\ reading.at = "loading"
    /\ ~Loads(file)
    /\ hub' = [hub EXCEPT !.last = reading.raw, !.org = file]
    /\ reading' = NoReading
    /\ mutex' = NoOne
    /\ UNCHANGED <<fileVars, lock, job, edit>>

\* What does not load is remembered and not applied.
ReloadRefuses ==
    /\ reading.at = "loading"
    /\ ~Loads(file)
    /\ hub' = [hub EXCEPT !.last = reading.raw]
    /\ reading' = NoReading
    /\ mutex' = NoOne
    /\ UNCHANGED <<fileVars, lock, job, edit>>

\* Mutant: the file is remembered as it is now.
ReloadEnds_Forgets ==
    /\ reading.at = "loaded"
    /\ hub' = [hub EXCEPT !.last = file, !.org = reading.org, !.version = reading.version]
    /\ reading' = NoReading
    /\ mutex' = NoOne
    /\ UNCHANGED <<fileVars, lock, job, edit>>

ReloadEnds ==
    /\ reading.at = "loaded"
    /\ hub' = [hub EXCEPT !.last = reading.raw, !.org = reading.org, !.version = reading.version]
    /\ reading' = NoReading
    /\ mutex' = NoOne
    /\ UNCHANGED <<fileVars, lock, job, edit>>

\* The hub ends, or is killed, and its joins with it.
OfTheHub(w) ==
    /\ w \in Joins \cup {hub.by}
    /\ job[w].at \in {"asking", "writing", "renaming", "renamed"}

HubEnds ==
    /\ hub.at # "down"
    /\ hub' = NoHub
    /\ reading' = NoReading
    /\ mutex' = NoOne
    /\ job' = [w \in Writers |-> IF OfTheHub(w) THEN [job[w] EXCEPT !.at = "killed"] ELSE job[w]]
    /\ lock' = IF lock \in Joins \cup {hub.by} THEN NoOne ELSE lock
    /\ UNCHANGED <<fileVars, edit>>

-----------------------------------------------------------------------------
(* An operator edits the file by hand, once, in place, and not while a     *)
(* kolo process is about to replace it: a hand does not take the lock.     *)

ByHand(o) == [o EXCEPT !.members = @ \cup {[id |-> FreeId(o), token |-> Editor]}]

EditBreaks ==
    /\ edit.at = "none"
    /\ lock = NoOne
    /\ Loads(file)
    /\ edit' = [at |-> "typing", org |-> ByHand(file)]
    /\ file' = Torn
    /\ version' = version + 1
    /\ UNCHANGED <<claims, lock, job, hub, mutex, reading>>

EditEnds ==
    /\ edit.at = "typing"
    /\ edit' = [edit EXCEPT !.at = "saved"]
    /\ file' = edit.org
    /\ version' = version + 1
    /\ UNCHANGED <<claims, lock, job, hub, mutex, reading>>

-----------------------------------------------------------------------------

Begin(w) ==
    \/ w \in Commands /\ (CommandBegins(w) \/ InitBegins(w))
    \/ w \in Joins /\ JoinBegins(w)
    \/ w \in Servers /\ ServerBegins(w)

\* What a writer does of itself once it has begun.
Proceed(w) == Take(w) \/ Write(w) \/ Rename(w) \/ JoinEnds(w) \/ ServerServes(w)

Reload == ReloadReads \/ ReloadLoads \/ ReloadRefuses \/ ReloadEnds

Next ==
    \/ \E w \in Writers : Begin(w) \/ Proceed(w) \/ ReplaceFails(w)
    \/ \E w \in Commands : Killed(w)
    \/ WatchBegins \/ Reload \/ HubEnds
    \/ EditBreaks \/ EditEnds

Spec == Init /\ [][Next]_vars

\* Processes go on, and the clock ticks.
FairSpec ==
    /\ Spec
    /\ \A w \in Writers : WF_vars(Proceed(w))
    /\ WF_vars(WatchBegins)
    /\ WF_vars(Reload)

-----------------------------------------------------------------------------
(* Properties.                                                             *)

Orgs == {o \in Content : Sound(o)}

\* The types.  The hub answers from an org that loaded, whatever the file
\* has become since (org.go Load, reload.go:57).
TypeOK ==
    /\ file \in {NoFile, Torn} \cup Orgs
    /\ version \in Nat
    /\ lock \in Writers \cup {NoOne}
    /\ mutex \in Joins \cup {NoOne, "reload"}
    /\ hub.by \in Servers \cup {NoOne}
    /\ hub.last \in {NoFile, Torn} \cup Orgs
    /\ hub.org \in IF hub.at = "down" THEN {NoFile} ELSE Orgs
    /\ \A w \in Writers : job[w].org \in {NoFile} \cup Orgs
    /\ claims \in [Tokens -> Nat]

\* An interrupted kolo never leaves a file that does not parse: only an edit
\* by hand does (replace, org.go:164).
OnlyAnEditTears == file = Torn => edit.at = "typing"

\* However many open one link at once, it makes no more members than it was
\* minted for (Claim, org.go:416): its count ends at the 0 that elsewhere
\* means any number.
ClaimsWithinUses == Uses > 0 => \A t \in Tokens : claims[t] <= Uses

\* A member whose join was answered is let in: the org the hub answers from
\* has everybody it welcomed that the file has (handleJoin, server.go:277-288,
\* against reload and the other joins).
JoinersAreAdmitted ==
    hub.at # "down" /\ Loads(file) =>
        \A w \in Joins :
            job[w].at = "done" /\ w \in TokensOf(file.members) =>
                w \in TokensOf(hub.org.members)

\* The org a hub answers from never gives way to an older one (reload.go:40
\* and server.go:274 take the same lock).
HubNeverGoesBack ==
    [][hub'.by = hub.by => hub'.version >= hub.version]_vars

Outcome(w) ==
    CASE job[w].version > 0 -> "made"
      [] job[w].version = 0 /\ job[w].at \in {"refused", "failed", "killed"} -> "not"
      [] OTHER -> "open"

Register == INSTANCE OrgRegister WITH
    org <- file, outcome <- [w \in Writers |-> Outcome(w)]

\* No writer undoes another's change, and none is half made: the file is the
\* register of OrgRegister (update, org.go:193: "two writers that each loaded
\* it before either wrote leave only the later one's work").
RegisterSpec == Register!Spec

\* The hub answers from what the file says of members and invites.
Answered ==
    \/ hub.at # "watching" \/ ~Loads(file)
    \/ hub.org.members = file.members /\ hub.org.invites = file.invites

\* A change made while the hub watches is answered from in the end, whatever
\* was read between two writes, or half-written (watchOrg and reload).
WatchedEditsLand ==
    hub.at = "watching" /\ file # hub.began ~> Answered \/ file = hub.began

\* Every change is: "a running hub picks up edits as they land" (org.go:22).
EditsLand == hub.at = "watching" ~> Answered

=============================================================================
