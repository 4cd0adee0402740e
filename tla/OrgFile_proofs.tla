--------------------------- MODULE OrgFile_proofs ---------------------------
(***************************************************************************)
(* The safety properties of OrgFile, and that it implements OrgRegister,   *)
(* for any writers, tokens and uses.                                       *)
(***************************************************************************)
EXTENDS OrgFile, Org_proofs

-----------------------------------------------------------------------------
(* The inductive invariant.                                                *)

Raws == {NoFile, Torn} \cup Good
Loaded == {NoFile} \cup Good

Stages == {"new", "asking", "writing", "renaming", "renamed", "done", "refused", "failed",
           "killed"}
NotMade == {"new", "asking", "writing", "renaming", "refused", "failed"}
Holding == {"writing", "renaming"}
Begun == {"asking"} \cup Holding
Job == [at : Stages, change : Changes \cup {NoJob.change}, org : Loaded, version : Nat]
Hub == [at : {"down", "starting", "serving", "watching"}, by : Servers \cup {NoOne},
        org : Loaded, version : Nat, last : Raws, began : Raws]
Reading == [at : {"idle", "loading", "loaded"}, raw : Raws, org : Loaded, version : Nat]
Edit == [at : {"none", "typing", "saved"}, org : Loaded]

FileTypes ==
  /\ file \in Raws /\ version \in Nat /\ claims \in [Tokens -> Nat]
  /\ lock \in Writers \cup {NoOne}
  /\ edit \in Edit
JobTypes == job \in [Writers -> Job]
HubTypes ==
  /\ hub \in Hub
  /\ mutex \in Joins \cup {NoOne, "reload"}
  /\ reading \in Reading
Types == FileTypes /\ JobTypes /\ HubTypes

\* Who has taken the lock has it, and is about to write its change of the very
\* file that is there.
HeldByWriter ==
  \A w \in Writers : job[w].at \in Holding =>
    /\ lock = w
    /\ Allowed(file, job[w].change)
    /\ job[w].org = Changed(file, job[w].change, w)

\* A file is torn while it is edited, and only then.
TornByEdit ==
  /\ edit.at = "typing" <=> file = Torn
  /\ edit.at = "typing" => edit.org \in Good

\* What a writer has got to says whether it has written, and when.
MadeOnce ==
  \A w \in Writers :
    /\ job[w].at \in Begun => job[w].change \in Changes
    /\ job[w].at \in NotMade => job[w].version = 0
    /\ job[w].at \in {"renamed", "done"} => job[w].version > 0
    /\ job[w].version <= version

\* A join under way has orgFile, the reload has it while it reads, and the
\* server whose address is not written yet is the hub.
UnderWay ==
  /\ \A w \in Joins : job[w].at \in Begun \cup {"renamed"} =>
       mutex = w /\ hub.at \in {"serving", "watching"}
  /\ \A w \in Writers : job[w].at = "renamed" => w \in Joins
  /\ \A w \in Servers : job[w].at \in Begun => hub.by = w /\ hub.at = "starting"
  /\ reading.at # "idle" => mutex = "reload" /\ hub.at = "watching"
  /\ IF hub.at = "down" THEN hub = NoHub ELSE hub.by \in Servers /\ hub.org \in Good
  /\ reading.at = "loaded" => reading.org \in Good
  /\ \A w \in Writers : job[w].at = "renamed" => job[w].org \in Good

\* What the hub answers from, and is about to, is never older than it was.
Ordered ==
  /\ hub.version <= version
  /\ reading.at = "loaded" => hub.version <= reading.version /\ reading.version <= version
  /\ \A w \in Joins :
       /\ job[w].at = "renamed" => hub.version <= job[w].version
       /\ hub.at # "down" /\ job[w].at = "done" => job[w].version <= hub.version

Control == HeldByWriter /\ TornByEdit /\ MadeOnce /\ UnderWay

\* The org as it is, also while a hand is at it.
Present == IF file = Torn THEN edit.org ELSE file

\* Whoever joined and is still a member is in every copy that was made since.
In(w, o) == w \in TokensOf(o.members)
Made(w, v) == job[w].version > 0 /\ job[w].version <= v
KeptInCopies ==
  \A w \in Joins : Present # NoFile /\ In(w, Present) =>
    /\ hub.at # "down" /\ Made(w, hub.version) => In(w, hub.org)
    /\ reading.at = "loaded" /\ Made(w, reading.version) => In(w, reading.org)
    /\ \A u \in Joins :
         job[u].at = "renamed" /\ Made(w, job[u].version) => In(w, job[u].org)

\* Members and invites are made by whoever their tokens name.
Minted ==
  \A w \in Writers : job[w].version = 0 =>
    claims[w] = 0 /\ (Present # NoFile => w \notin TokensOf(Present.invites))

\* An invite has the uses its members have left, and is spent when none is.
Counted ==
  /\ Uses > 0 => \A t \in Tokens : claims[t] <= Uses
  /\ Present # NoFile =>
       /\ \A v, u \in Present.invites : v.token = u.token => v = u
       /\ Uses > 0 => \A v \in Present.invites :
            v.uses + claims[v.token] = Uses /\ v.spent = (v.uses = 0)

IInv == Types /\ Control /\ Ordered /\ KeptInCopies /\ Minted /\ Counted

-----------------------------------------------------------------------------
(* Steps of one writer's job.                                              *)

LEMMA Nulls ==
  /\ NoFile # Torn /\ NoFile \notin Good /\ Torn \notin Good
  /\ Good \subseteq Orgs
  /\ NoOne \notin Writers /\ NoOne \notin Servers
  BY NoContentAssumption, WritersAssumption DEF Good, Orgs

\* What loads is good, of what the file may hold.
LEMMA LoadsIsGood ==
  ASSUME NEW o \in Raws
  PROVE  Loads(o) <=> o \in Good
  BY Nulls DEF Raws, Loads, Good

LEMMA EndsAsStep ==
  ASSUME JobTypes, NEW w \in Writers, NEW how \in Stages, EndsAs(w, how)
  PROVE  /\ JobTypes'
         /\ job'[w].at = how /\ job'[w].change = job[w].change /\ job'[w].org = job[w].org
         /\ job'[w].version = job[w].version
         /\ \A u \in Writers \ {w} : job'[u] = job[u]
  BY DEF JobTypes, Job, EndsAs

LEMMA AsksStep ==
  ASSUME JobTypes, NEW w \in Writers, NEW c \in Changes, Asks(w, c)
  PROVE  /\ JobTypes'
         /\ job'[w].at = "asking" /\ job'[w].change = c /\ job'[w].org = job[w].org
         /\ job'[w].version = job[w].version
         /\ \A u \in Writers \ {w} : job'[u] = job[u]
  BY DEF JobTypes, Job, Asks, Stages, Begun

\* The changes a beginning may ask for are changes.
LEMMA BeginningsAreChanges ==
  /\ CommandChanges \subseteq Changes
  /\ [kind |-> "init"] \in Changes /\ [kind |-> "url"] \in Changes
  /\ \A t \in Commands \cup {Standing} : [kind |-> "claim", token |-> t] \in Changes
<1>1. CommandChanges \subseteq Changes
  BY DEF CommandChanges
<1>2. [kind |-> "init"] \in Changes /\ [kind |-> "url"] \in Changes
  BY DEF Changes
<1>3. ASSUME NEW t \in Commands \cup {Standing}
      PROVE  [kind |-> "claim", token |-> t] \in Changes
  <2>1. t \in Tokens
    BY WritersAssumption DEF Tokens
  <2> QED
    BY <2>1 DEF Changes
<1> QED
  BY <1>1, <1>2, <1>3

\* What a beginning does to the job of its writer, and what it leaves alone.
LEMMA BeginStep ==
  ASSUME JobTypes, NEW w \in Writers, Begin(w)
  PROVE  /\ JobTypes'
         /\ job[w].at = "new"
         /\ job'[w].at \in {"asking", "refused"}
         /\ job'[w].at = "asking" => job'[w].change \in Changes
         /\ job'[w].version = job[w].version
         /\ \A u \in Writers \ {w} : job'[u] = job[u]
         /\ UNCHANGED <<fileVars, lock, reading, edit>>
<1>1. ASSUME NEW c \in Changes, Asks(w, c), job[w].at = "new",
             UNCHANGED <<fileVars, lock, reading, edit>>
      PROVE  /\ JobTypes'
             /\ job'[w].at = "asking" /\ job'[w].change \in Changes
             /\ job'[w].version = job[w].version
             /\ \A u \in Writers \ {w} : job'[u] = job[u]
  BY <1>1, AsksStep
<1>2. CASE CommandBegins(w)
  BY <1>1, <1>2, BeginningsAreChanges DEF CommandBegins
<1>3. CASE InitBegins(w)
  <2>1. CASE file = NoFile
    BY <1>1, <1>3, <2>1, BeginningsAreChanges DEF InitBegins
  <2>2. CASE file # NoFile
    BY <1>3, <2>2, EndsAsStep DEF InitBegins, Stages
  <2> QED
    BY <2>1, <2>2
<1>4. CASE JoinBegins(w)
  BY <1>1, <1>4, BeginningsAreChanges DEF JoinBegins
<1>5. CASE ServerBegins(w)
  BY <1>1, <1>5, BeginningsAreChanges DEF ServerBegins
<1> QED
  BY <1>2, <1>3, <1>4, <1>5 DEF Begin

\* Take either writes down the change of the file that is there, or nothing.
LEMMA TakeStep ==
  ASSUME FileTypes, JobTypes, MadeOnce, NEW w \in Writers, Take(w)
  PROVE  /\ JobTypes'
         /\ job[w].at = "asking" /\ lock = NoOne
         /\ job'[w].version = job[w].version /\ job'[w].change = job[w].change
         /\ \/ /\ job'[w].at = "writing" /\ lock' = w
               /\ Allowed(file, job[w].change)
               /\ job'[w].org = Changed(file, job[w].change, w)
            \/ job'[w].at = "refused" /\ lock' = lock
         /\ \A u \in Writers \ {w} : job'[u] = job[u]
         /\ UNCHANGED <<fileVars, hub, mutex, reading, edit>>
<1>1. CASE Allowed(file, job[w].change)
  <2> DEFINE o == Changed(file, job[w].change, w)
  <2>1. job[w].change \in Changes
    BY DEF Take, MadeOnce, Begun
  <2>2. o \in Good
    BY <1>1, <2>1, ChangedIsGood DEF FileTypes, Raws
  <2>3. lock' = w /\ job' = [job EXCEPT ![w].at = "writing", ![w].org = o]
    BY <1>1 DEF Take
  <2> HIDE DEF o
  <2>4. JobTypes'
    BY <2>2, <2>3 DEF JobTypes, Job, Stages, Loaded
  <2>5. /\ job'[w].at = "writing" /\ job'[w].org = o
        /\ job'[w].version = job[w].version /\ job'[w].change = job[w].change
        /\ \A u \in Writers \ {w} : job'[u] = job[u]
    BY <2>3 DEF JobTypes, Job
  <2> QED
    BY <1>1, <2>3, <2>4, <2>5 DEF Take, o
<1>2. CASE ~Allowed(file, job[w].change)
  BY <1>2, EndsAsStep DEF Take, Stages
<1> QED
  BY <1>1, <1>2

\* Rename puts what was written down in the file, and the version with it.
LEMMA RenameStep ==
  ASSUME FileTypes, JobTypes, HeldByWriter, MadeOnce, NEW w \in Writers, Rename(w)
  PROVE  /\ JobTypes'
         /\ job[w].at = "renaming" /\ lock = w /\ lock' = NoOne
         /\ job[w].change \in Changes /\ Allowed(file, job[w].change)
         /\ file' = Changed(file, job[w].change, w) /\ file' \in Good
         /\ version' = version + 1
         /\ job'[w].at = IF w \in Joins THEN "renamed" ELSE "done"
         /\ job'[w].version = version' /\ job'[w].org = file'
         /\ job'[w].change = job[w].change
         /\ \A u \in Writers \ {w} : job'[u] = job[u]
         /\ UNCHANGED <<hub, mutex, reading, edit>>
<1>1. job[w].at = "renaming" /\ file' = job[w].org /\ version' = version + 1
      /\ UNCHANGED <<hub, mutex, reading, edit>>
  BY DEF Rename
<1>2. /\ lock = w /\ Allowed(file, job[w].change) /\ job[w].change \in Changes
      /\ job[w].org = Changed(file, job[w].change, w)
  BY <1>1 DEF HeldByWriter, MadeOnce, Begun, Holding
<1>3. Changed(file, job[w].change, w) \in Good
  BY <1>2, ChangedIsGood DEF FileTypes, Raws
<1>4. lock' = NoOne
  BY <1>2 DEF Rename, Unlocked
<1>5. version' \in Nat
  BY <1>1 DEF FileTypes
<1>6. job' = [job EXCEPT ![w].at = IF w \in Joins THEN "renamed" ELSE "done",
                         ![w].version = version']
  BY DEF Rename
<1>7. /\ JobTypes'
      /\ job'[w].at = IF w \in Joins THEN "renamed" ELSE "done"
      /\ job'[w].version = version' /\ job'[w].org = job[w].org
      /\ job'[w].change = job[w].change
      /\ \A u \in Writers \ {w} : job'[u] = job[u]
  BY <1>5, <1>6 DEF JobTypes, Job, Stages
<1> QED
  BY <1>1, <1>2, <1>3, <1>4, <1>7

LEMMA FailStep ==
  ASSUME JobTypes, NEW w \in Writers, ReplaceFails(w) \/ Killed(w)
  PROVE  /\ JobTypes'
         /\ job[w].at \in Begun
         /\ job'[w].at \in {"failed", "killed"}
         /\ job'[w].at = "failed" => job[w].at \in Holding
         /\ job'[w].version = job[w].version
         /\ \A u \in Writers \ {w} : job'[u] = job[u]
         /\ lock' = Unlocked(w)
         /\ UNCHANGED <<fileVars, hub, mutex, reading, edit>>
<1>1. CASE ReplaceFails(w)
  BY <1>1, EndsAsStep DEF ReplaceFails, Stages, Begun, Holding
<1>2. CASE Killed(w)
  BY <1>2, EndsAsStep DEF Killed, Stages, Begun, Holding
<1> QED
  BY <1>1, <1>2

\* A join whose org is in the file ends with the hub answering from it.
LEMMA JoinEndsStep ==
  ASSUME JobTypes, NEW w \in Writers, JoinEnds(w)
  PROVE  /\ JobTypes'
         /\ mutex = w /\ mutex' = NoOne
         /\ \/ /\ job[w].at = "renamed" /\ job'[w].at = "done"
               /\ job'[w].version = job[w].version /\ job'[w].org = job[w].org
               /\ \A u \in Writers \ {w} : job'[u] = job[u]
               /\ hub' = [hub EXCEPT !.org = job[w].org, !.version = job[w].version]
            \/ job[w].at \in {"refused", "failed"} /\ UNCHANGED <<job, hub>>
         /\ UNCHANGED <<fileVars, lock, reading, edit>>
<1>1. CASE EndsAs(w, "done") /\ job[w].at = "renamed"
  BY <1>1, EndsAsStep DEF JoinEnds, Stages
<1>2. CASE job[w].at \in {"refused", "failed"} /\ UNCHANGED <<job, hub>>
  BY <1>2 DEF JoinEnds, JobTypes
<1> QED
  BY <1>1, <1>2 DEF JoinEnds

\* What is left of the jobs when the hub ends.
LEMMA HubEndsStep ==
  ASSUME JobTypes, HubEnds
  PROVE  /\ JobTypes'
         /\ \A w \in Writers :
              /\ job'[w].version = job[w].version /\ job'[w].change = job[w].change
              /\ job'[w].org = job[w].org
              /\ job'[w].at = IF OfTheHub(w) THEN "killed" ELSE job[w].at
              /\ ~OfTheHub(w) => job'[w] = job[w]
<1>1. ASSUME NEW w \in Writers
      PROVE  /\ job'[w] = IF OfTheHub(w) THEN [job[w] EXCEPT !.at = "killed"] ELSE job[w]
             /\ job'[w] \in Job
  BY DEF HubEnds, JobTypes, Job, Stages
<1>2. JobTypes'
  BY <1>1 DEF HubEnds, JobTypes
<1>3. ASSUME NEW w \in Writers
      PROVE  /\ job'[w].version = job[w].version /\ job'[w].change = job[w].change
             /\ job'[w].org = job[w].org
             /\ job'[w].at = IF OfTheHub(w) THEN "killed" ELSE job[w].at
             /\ ~OfTheHub(w) => job'[w] = job[w]
  BY <1>1 DEF JobTypes, Job
<1> QED
  BY <1>2, <1>3

-----------------------------------------------------------------------------
(* Types.                                                                  *)

LEMMA InitTypes == Init => Types
<1> SUFFICES ASSUME Init PROVE Types
  OBVIOUS
<1>1. FileTypes
  BY FirstOrgsAreGood DEF Init, FileTypes, Raws, Edit, Loaded
<1>2. NoJob \in Job
  BY DEF NoJob, Job, Stages, Loaded
<1>3. JobTypes
  BY <1>2 DEF Init, JobTypes
<1>4. HubTypes
  BY DEF Init, HubTypes, NoHub, Hub, NoReading, Reading, Raws, Loaded
<1> QED
  BY <1>1, <1>3, <1>4 DEF Types

\* A hand adds a member whose id is free.
LEMMA ByHandIsGood ==
  ASSUME NEW o \in Good
  PROVE  ByHand(o) \in Good
  BY FreeIdIsFree, OneMoreIsGood DEF ByHand, Tokens

LEMMA FileTypesStep ==
  ASSUME Types, HeldByWriter, MadeOnce, TornByEdit, Next
  PROVE  FileTypes'
<1> USE DEF Types
<1>1. ASSUME NEW w \in Writers, Begin(w) PROVE FileTypes'
  BY <1>1, BeginStep DEF FileTypes, fileVars
<1>2. ASSUME NEW w \in Writers, Take(w) PROVE FileTypes'
  BY <1>2, TakeStep DEF FileTypes, fileVars
<1>3. ASSUME NEW w \in Writers, Rename(w) PROVE FileTypes'
  <2>1. file' \in Good /\ version' = version + 1 /\ lock' = NoOne /\ edit' = edit
        /\ job[w].change \in Changes
    BY <1>3, RenameStep
  <2>2. claims' \in [Tokens -> Nat]
    <3>1. CASE job[w].change.kind = "claim"
      BY <1>3, <2>1, <3>1, ChangeParts DEF Rename, FileTypes
    <3>2. CASE job[w].change.kind # "claim"
      BY <1>3, <3>2 DEF Rename, FileTypes
    <3> QED
      BY <3>1, <3>2
  <2> QED
    BY <2>1, <2>2 DEF FileTypes, Raws
<1>4. ASSUME NEW w \in Writers, ReplaceFails(w) \/ Killed(w) PROVE FileTypes'
  BY <1>4, FailStep DEF FileTypes, fileVars, Unlocked
<1>5. CASE HubEnds
  BY <1>5 DEF HubEnds, FileTypes, fileVars
<1>6. CASE EditBreaks
  <2>1. file \in Good
    BY <1>6, LoadsIsGood DEF EditBreaks, FileTypes
  <2>2. edit' \in Edit
    BY <1>6, <2>1, ByHandIsGood DEF EditBreaks, Edit, Loaded
  <2> QED
    BY <1>6, <2>2 DEF EditBreaks, FileTypes, Raws
<1>7. CASE EditEnds
  <2>1. file' \in Good /\ version' = version + 1 /\ UNCHANGED <<claims, lock>>
    BY <1>7 DEF EditEnds, TornByEdit
  <2>2. edit' \in Edit
    BY <1>7 DEF EditEnds, FileTypes, Edit
  <2> QED
    BY <2>1, <2>2 DEF FileTypes, Raws
<1>8. ASSUME NEW w \in Writers, Write(w) \/ JoinEnds(w) \/ ServerServes(w) PROVE FileTypes'
  BY <1>8 DEF Write, JoinEnds, ServerServes, FileTypes, fileVars
<1>9. CASE WatchBegins \/ Reload
  BY <1>9 DEF WatchBegins, Reload, ReloadReads, ReloadLoads, ReloadRefuses, ReloadEnds,
              FileTypes, fileVars
<1> QED
  BY <1>1, <1>2, <1>3, <1>4, <1>5, <1>6, <1>7, <1>8, <1>9, WritersAssumption
  DEF Next, Proceed

LEMMA JobTypesStep ==
  ASSUME Types, HeldByWriter, MadeOnce, Next
  PROVE  JobTypes'
<1> USE DEF Types
<1>1. ASSUME NEW w \in Writers, Begin(w) PROVE JobTypes'
  BY <1>1, BeginStep
<1>2. ASSUME NEW w \in Writers, Take(w) PROVE JobTypes'
  BY <1>2, TakeStep
<1>3. ASSUME NEW w \in Writers, Rename(w) PROVE JobTypes'
  BY <1>3, RenameStep
<1>4. ASSUME NEW w \in Writers, ReplaceFails(w) \/ Killed(w) PROVE JobTypes'
  BY <1>4, FailStep
<1>5. CASE HubEnds
  BY <1>5, HubEndsStep
<1>6. ASSUME NEW w \in Writers, Write(w) PROVE JobTypes'
  BY <1>6, EndsAsStep DEF Write, Stages
<1>7. ASSUME NEW w \in Writers, JoinEnds(w) PROVE JobTypes'
  BY <1>7, JoinEndsStep
<1>8. ASSUME NEW w \in Writers, ServerServes(w) PROVE JobTypes'
  BY <1>8 DEF ServerServes, JobTypes
<1>9. CASE WatchBegins \/ Reload \/ EditBreaks \/ EditEnds
  BY <1>9 DEF WatchBegins, Reload, ReloadReads, ReloadLoads, ReloadRefuses, ReloadEnds,
              EditBreaks, EditEnds, JobTypes
<1> QED
  BY <1>1, <1>2, <1>3, <1>4, <1>5, <1>6, <1>7, <1>8, <1>9, WritersAssumption
  DEF Next, Proceed

LEMMA HubTypesStep ==
  ASSUME Types, UnderWay, Next
  PROVE  HubTypes'
<1> USE DEF Types
<1> DEFINE Same == UNCHANGED <<hub, mutex, reading>>
<1>1. ASSUME Same PROVE HubTypes'
  BY <1>1 DEF HubTypes
<1>2. ASSUME NEW w \in Writers, Begin(w) PROVE HubTypes'
  <2>1. CASE CommandBegins(w) \/ InitBegins(w)
    BY <1>1, <2>1 DEF CommandBegins, InitBegins
  <2>2. CASE w \in Joins /\ JoinBegins(w)
    BY <2>2 DEF JoinBegins, HubTypes
  <2>3. CASE w \in Servers /\ ServerBegins(w)
    <3>1. file \in Good
      BY <2>3, LoadsIsGood DEF ServerBegins, FileTypes
    <3>2. hub' = [at |-> "starting", by |-> w, org |-> file, version |-> version,
                  last |-> NoFile, began |-> NoFile]
      BY <2>3 DEF ServerBegins, NoHub
    <3>3. hub' \in Hub
      BY <2>3, <3>1, <3>2 DEF Hub, FileTypes, Raws, Loaded
    <3> QED
      BY <2>3, <3>3 DEF ServerBegins, HubTypes
  <2> QED
    BY <1>2, <2>1, <2>2, <2>3 DEF Begin
<1>3. ASSUME NEW w \in Writers, Take(w) \/ Write(w) \/ Rename(w) \/ ReplaceFails(w) \/ Killed(w)
      PROVE  HubTypes'
  BY <1>1, <1>3 DEF Take, Write, Rename, ReplaceFails, Killed
<1>4. ASSUME NEW w \in Writers, JoinEnds(w) PROVE HubTypes'
  <2>1. job[w].org \in Loaded /\ job[w].version \in Nat
    BY DEF JobTypes, Job
  <2>2. hub' \in Hub
    BY <1>4, <2>1, JoinEndsStep DEF HubTypes, Hub
  <2> QED
    BY <1>4, <2>2 DEF JoinEnds, HubTypes
<1>5. ASSUME NEW w \in Writers, ServerServes(w) PROVE HubTypes'
  BY <1>5 DEF ServerServes, HubTypes, Hub
<1>6. CASE WatchBegins
  BY <1>6 DEF WatchBegins, HubTypes, Hub, FileTypes
<1>7. CASE ReloadReads
  BY <1>7 DEF ReloadReads, HubTypes, NoReading, Reading, FileTypes, Loaded
<1>8. CASE ReloadLoads
  <2>1. file \in Good
    BY <1>8, LoadsIsGood DEF ReloadLoads, FileTypes
  <2> QED
    BY <1>8, <2>1 DEF ReloadLoads, HubTypes, Reading, FileTypes, Loaded
<1>9. CASE ReloadRefuses
  BY <1>9 DEF ReloadRefuses, HubTypes, Hub, NoReading, Reading, Raws, Loaded
<1>10. CASE ReloadEnds
  BY <1>10 DEF ReloadEnds, HubTypes, Hub, NoReading, Reading, Raws, Loaded
<1>11. CASE HubEnds
  BY <1>11 DEF HubEnds, HubTypes, NoHub, Hub, NoReading, Reading, Raws, Loaded
<1>12. CASE EditBreaks \/ EditEnds
  BY <1>1, <1>12 DEF EditBreaks, EditEnds
<1> QED
  BY <1>2, <1>3, <1>4, <1>5, <1>6, <1>7, <1>8, <1>9, <1>10, <1>11, <1>12, WritersAssumption
  DEF Next, Proceed, Reload

-----------------------------------------------------------------------------
(* The lock, and the file.                                                 *)

LEMMA HeldByWriterStep ==
  ASSUME Types, Control, Next
  PROVE  HeldByWriter'
<1> USE DEF Types, Control
<1>1. ASSUME NEW w \in Writers, job'[w].at \notin Holding, file' = file,
             lock' \in {lock, Unlocked(w)}, \A u \in Writers \ {w} : job'[u] = job[u]
      PROVE  HeldByWriter'
  BY <1>1, Nulls DEF HeldByWriter, Unlocked
<1>2. ASSUME NEW w \in Writers, Begin(w) PROVE HeldByWriter'
  BY <1>1, <1>2, BeginStep DEF Holding, fileVars
<1>3. ASSUME NEW w \in Writers, Take(w) PROVE HeldByWriter'
  <2>1. \A u \in Writers : job[u].at \notin Holding
    BY <1>3, TakeStep, Nulls DEF HeldByWriter
  <2>2. file' = file /\ \A u \in Writers \ {w} : job'[u] = job[u]
    BY <1>3, TakeStep DEF fileVars
  <2>3. job'[w].at \in Holding =>
          lock' = w /\ Allowed(file, job[w].change)
          /\ job'[w].org = Changed(file, job[w].change, w) /\ job'[w].change = job[w].change
    BY <1>3, TakeStep DEF Holding
  <2> QED
    BY <2>1, <2>2, <2>3 DEF HeldByWriter
<1>4. ASSUME NEW w \in Writers, Write(w) PROVE HeldByWriter'
  <2>1. /\ job[w].at \in Holding /\ lock' = lock /\ file' = file
        /\ job'[w].change = job[w].change /\ job'[w].org = job[w].org
        /\ \A u \in Writers \ {w} : job'[u] = job[u]
    BY <1>4, EndsAsStep DEF Write, Holding, Stages, fileVars
  <2> QED
    BY <2>1 DEF HeldByWriter
<1>5. ASSUME NEW w \in Writers, Rename(w) PROVE HeldByWriter'
  <2>1. \A u \in Writers : job'[u].at \notin Holding
    BY <1>5, RenameStep DEF HeldByWriter, Holding
  <2> QED
    BY <2>1 DEF HeldByWriter
<1>6. ASSUME NEW w \in Writers, JoinEnds(w) PROVE HeldByWriter'
  BY <1>1, <1>6, JoinEndsStep DEF Holding, fileVars
<1>7. ASSUME NEW w \in Writers, ReplaceFails(w) \/ Killed(w) PROVE HeldByWriter'
  BY <1>1, <1>7, FailStep DEF Holding, fileVars
<1>8. ASSUME NEW w \in Writers, ServerServes(w) PROVE HeldByWriter'
  BY <1>8 DEF ServerServes, HeldByWriter, fileVars
<1>9. CASE WatchBegins \/ Reload
  BY <1>9 DEF WatchBegins, Reload, ReloadReads, ReloadLoads, ReloadRefuses, ReloadEnds,
              HeldByWriter, fileVars
<1>10. CASE HubEnds
  <2>1. file' = file /\ lock' = IF lock \in Joins \cup {hub.by} THEN NoOne ELSE lock
    BY <1>10 DEF HubEnds, fileVars
  <2>2. ASSUME NEW w \in Writers, job'[w].at \in Holding
        PROVE  w \notin Joins \cup {hub.by} /\ job'[w] = job[w]
    BY <1>10, <2>2, HubEndsStep DEF OfTheHub, Holding
  <2> QED
    BY <2>1, <2>2 DEF HeldByWriter
<1>11. CASE EditBreaks
  BY <1>11, Nulls DEF EditBreaks, HeldByWriter
<1>12. CASE EditEnds
  <2>1. \A w \in Writers : job[w].at \notin Holding
    <3> SUFFICES ASSUME NEW w \in Writers, job[w].at \in Holding PROVE FALSE
      OBVIOUS
    <3>1. Allowed(Torn, job[w].change) /\ job[w].change \in Changes
      BY <1>12 DEF EditEnds, TornByEdit, HeldByWriter, MadeOnce, Begun
    <3> QED
      BY <3>1, AllowedByKind, Nulls DEF Loads
  <2> QED
    BY <1>12, <2>1 DEF EditEnds, HeldByWriter
<1> QED
  BY <1>2, <1>3, <1>4, <1>5, <1>6, <1>7, <1>8, <1>9, <1>10, <1>11, <1>12, WritersAssumption
  DEF Next, Proceed

LEMMA TornByEditStep ==
  ASSUME Types, Control, Next
  PROVE  TornByEdit'
<1> USE DEF Types, Control
<1>1. ASSUME UNCHANGED <<file, edit>> PROVE TornByEdit'
  BY <1>1 DEF TornByEdit
<1>2. ASSUME NEW w \in Writers, Rename(w) PROVE TornByEdit'
  <2>1. file # Torn
    <3>1. Allowed(file, job[w].change)
      BY <1>2, RenameStep
    <3> QED
      BY <3>1, AllowedByKind, Nulls DEF Loads
  <2>2. file' # Torn /\ edit' = edit
    BY <1>2, RenameStep, Nulls
  <2> QED
    BY <2>1, <2>2 DEF TornByEdit
<1>3. CASE EditBreaks
  <2>1. file \in Good
    BY <1>3, LoadsIsGood DEF EditBreaks, FileTypes
  <2> QED
    BY <1>3, <2>1, ByHandIsGood DEF EditBreaks, TornByEdit
<1>4. CASE EditEnds
  <2>1. file' # Torn /\ edit'.at = "saved"
    BY <1>4, Nulls DEF EditEnds, TornByEdit, FileTypes, Edit
  <2> QED
    BY <2>1 DEF TornByEdit
<1>5. ASSUME NEW w \in Writers,
             Begin(w) \/ Take(w) \/ Write(w) \/ JoinEnds(w) \/ ServerServes(w)
               \/ ReplaceFails(w) \/ Killed(w)
      PROVE  TornByEdit'
  BY <1>1, <1>5, BeginStep DEF Take, Write, JoinEnds, ServerServes, ReplaceFails, Killed, fileVars
<1>6. CASE WatchBegins \/ Reload \/ HubEnds
  BY <1>1, <1>6 DEF WatchBegins, Reload, ReloadReads, ReloadLoads, ReloadRefuses, ReloadEnds,
                    HubEnds, fileVars
<1> QED
  BY <1>2, <1>3, <1>4, <1>5, <1>6, WritersAssumption DEF Next, Proceed

LEMMA MadeOnceStep ==
  ASSUME Types, Control, Next
  PROVE  MadeOnce'
<1> USE DEF Types, Control
\* A writer keeps its version, and has begun nothing or what it had begun.
<1>1. ASSUME version' = version,
             \A w \in Writers :
               \/ job'[w] = job[w]
               \/ /\ job'[w].version = job[w].version
                  /\ \/ job'[w].at = "killed"
                     \/ job[w].at = "renamed" /\ job'[w].at = "done"
                     \/ /\ job[w].at \in NotMade /\ job'[w].at \in NotMade
                        /\ job'[w].at \in Begun => job'[w].change \in Changes
      PROVE  MadeOnce'
  BY <1>1 DEF MadeOnce, NotMade, Begun, Holding
<1>2. ASSUME NEW w \in Writers, Begin(w) PROVE MadeOnce'
  BY <1>1, <1>2, BeginStep DEF NotMade, Begun, Holding, fileVars
<1>3. ASSUME NEW w \in Writers, Take(w) PROVE MadeOnce'
  <2>1. job[w].change \in Changes
    BY <1>3, TakeStep DEF MadeOnce, Begun
  <2> QED
    BY <1>1, <1>3, <2>1, TakeStep DEF NotMade, fileVars
<1>4. ASSUME NEW w \in Writers, Write(w) PROVE MadeOnce'
  <2>1. job[w].change \in Changes
    BY <1>4 DEF Write, MadeOnce, Begun, Holding
  <2> QED
    BY <1>1, <1>4, <2>1, EndsAsStep DEF Write, Stages, NotMade, fileVars
<1>5. ASSUME NEW w \in Writers, Rename(w) PROVE MadeOnce'
  <2>1. /\ version' = version + 1 /\ job'[w].version = version'
        /\ job'[w].at \in {"renamed", "done"}
        /\ \A u \in Writers \ {w} : job'[u] = job[u]
    BY <1>5, RenameStep
  <2>2. version \in Nat /\ \A u \in Writers : job[u].version \in Nat
    BY DEF FileTypes, JobTypes, Job
  <2> QED
    BY <2>1, <2>2 DEF MadeOnce, NotMade, Begun, Holding
<1>6. ASSUME NEW w \in Writers, JoinEnds(w) PROVE MadeOnce'
  BY <1>1, <1>6, JoinEndsStep DEF fileVars
<1>7. ASSUME NEW w \in Writers, ReplaceFails(w) \/ Killed(w) PROVE MadeOnce'
  BY <1>1, <1>7, FailStep DEF NotMade, Begun, Holding, fileVars
<1>8. CASE HubEnds
  BY <1>1, <1>8, HubEndsStep DEF HubEnds, fileVars
<1>9. ASSUME UNCHANGED job, version' \in {version, version + 1} PROVE MadeOnce'
  BY <1>9 DEF MadeOnce, FileTypes, JobTypes, Job
<1>10. ASSUME NEW w \in Writers, ServerServes(w) PROVE MadeOnce'
  BY <1>9, <1>10 DEF ServerServes, fileVars
<1>11. CASE WatchBegins \/ Reload \/ EditBreaks \/ EditEnds
  BY <1>9, <1>11 DEF WatchBegins, Reload, ReloadReads, ReloadLoads, ReloadRefuses, ReloadEnds,
                     EditBreaks, EditEnds, fileVars
<1> QED
  BY <1>2, <1>3, <1>4, <1>5, <1>6, <1>7, <1>8, <1>10, <1>11, WritersAssumption
  DEF Next, Proceed

LEMMA UnderWayStep ==
  ASSUME Types, Control, Next
  PROVE  UnderWay'
<1> USE DEF Types, Control
<1>0. \A w \in Writers : w \in Joins => w \notin Servers /\ w # NoOne /\ w # "reload"
  BY WritersAssumption
<1>1. ASSUME NEW w \in Writers, Begin(w) PROVE UnderWay'
  <2>0. /\ job[w].at = "new" /\ job'[w].at \in {"asking", "refused"}
        /\ reading' = reading
        /\ \A u \in Writers \ {w} : job'[u] = job[u]
    BY <1>1, BeginStep
  <2>1. CASE w \in Commands /\ (CommandBegins(w) \/ InitBegins(w))
    <3>1. UNCHANGED <<hub, mutex>>
      BY <2>1 DEF CommandBegins, InitBegins
    <3> QED
      BY <2>0, <2>1, <3>1, WritersAssumption DEF UnderWay, Begun, Holding
  <2>2. CASE w \in Joins /\ JoinBegins(w)
    <3>1. /\ hub' = hub /\ hub.at \in {"serving", "watching"} /\ mutex = NoOne /\ mutex' = w
      BY <2>2 DEF JoinBegins
    <3>2. \A u \in Joins : job[u].at \notin Begun \cup {"renamed"}
      BY <1>0, <3>1, WritersAssumption DEF UnderWay
    <3>3. reading.at = "idle"
      BY <3>1, WritersAssumption DEF UnderWay
    <3> QED
      BY <1>0, <2>0, <2>2, <3>1, <3>2, <3>3, WritersAssumption DEF UnderWay, Begun, Holding
  <2>3. CASE w \in Servers /\ ServerBegins(w)
    <3>1. /\ hub.at = "down" /\ hub'.at = "starting" /\ hub'.by = w /\ hub'.org = file
          /\ mutex' = mutex /\ Loads(file)
      BY <2>3 DEF ServerBegins, NoHub
    <3>2. file \in Good
      BY <3>1, LoadsIsGood DEF FileTypes
    <3>3. /\ \A u \in Joins : job[u].at \notin Begun \cup {"renamed"}
          /\ \A u \in Servers : job[u].at \notin Begun
          /\ reading.at = "idle"
      BY <3>1 DEF UnderWay
    <3> QED
      BY <1>0, <2>0, <2>3, <3>1, <3>2, <3>3, WritersAssumption DEF UnderWay, Begun, Holding
  <2> QED
    BY <1>1, <2>1, <2>2, <2>3 DEF Begin
\* A writer goes on, or stops, and the hub knows nothing of it yet.
<1>2. ASSUME NEW w \in Writers, UNCHANGED <<hub, mutex, reading>>,
             \A u \in Writers \ {w} : job'[u] = job[u],
             job'[w].at \in Begun => job[w].at \in Begun,
             job'[w].at = "renamed" =>
               w \in Joins /\ job[w].at \in Begun /\ job'[w].org \in Good
      PROVE  UnderWay'
  BY <1>2, WritersAssumption DEF UnderWay
<1>3. ASSUME NEW w \in Writers, Take(w) PROVE UnderWay'
  BY <1>2, <1>3, TakeStep DEF Begun, Holding
<1>4. ASSUME NEW w \in Writers, Write(w) PROVE UnderWay'
  BY <1>2, <1>4, EndsAsStep DEF Write, Stages, Begun, Holding
<1>5. ASSUME NEW w \in Writers, Rename(w) PROVE UnderWay'
  BY <1>2, <1>5, RenameStep DEF Begun, Holding
<1>6. ASSUME NEW w \in Writers, ReplaceFails(w) \/ Killed(w) PROVE UnderWay'
  BY <1>2, <1>6, FailStep DEF Begun, Holding
<1>7. ASSUME NEW w \in Writers, JoinEnds(w) PROVE UnderWay'
  <2>1. mutex = w /\ mutex' = NoOne /\ reading' = reading
    BY <1>7, JoinEndsStep
  <2>2. w \in Joins
    BY <2>1, WritersAssumption DEF HubTypes
  <2>3. \A u \in Joins \ {w} : job[u].at \notin Begun \cup {"renamed"}
    BY <2>1 DEF UnderWay
  <2>4. CASE job[w].at = "renamed"
    <3>1. /\ w \in Joins /\ job'[w].at = "done" /\ job[w].org \in Good
          /\ \A u \in Writers \ {w} : job'[u] = job[u]
          /\ hub' = [hub EXCEPT !.org = job[w].org, !.version = job[w].version]
      BY <1>7, <2>4, JoinEndsStep DEF UnderWay
    <3>2. hub'.at = hub.at /\ hub'.by = hub.by /\ hub'.org \in Good
      BY <3>1 DEF HubTypes, Hub
    <3>3. hub.at \in {"serving", "watching"} /\ reading.at = "idle"
      BY <2>1, <2>4, <3>1, <1>0 DEF UnderWay
    <3> QED
      BY <1>0, <2>1, <2>3, <3>1, <3>2, <3>3, WritersAssumption DEF UnderWay, Begun, Holding
  <2>5. CASE job[w].at \in {"refused", "failed"} /\ UNCHANGED <<job, hub>>
    <3>1. \A u \in Joins : job[u].at \notin Begun \cup {"renamed"}
      BY <2>3, <2>5 DEF Begun, Holding
    <3>2. reading.at = "idle"
      BY <1>0, <2>1, <2>2, WritersAssumption DEF UnderWay
    <3> QED
      BY <2>1, <2>5, <3>1, <3>2 DEF UnderWay
  <2> QED
    BY <1>7, <2>4, <2>5, JoinEndsStep
<1>8. ASSUME NEW w \in Writers, ServerServes(w) PROVE UnderWay'
  <2>1. /\ hub.by = w /\ hub.at = "starting" /\ job[w].at = "done"
        /\ hub'.at = "serving" /\ hub'.by = hub.by /\ hub'.org = hub.org
        /\ UNCHANGED <<job, mutex, reading>>
    BY <1>8 DEF ServerServes, HubTypes, Hub
  <2>2. \A u \in Servers : job[u].at \notin Begun
    BY <2>1 DEF UnderWay, Begun, Holding
  <2> QED
    BY <2>1, <2>2 DEF UnderWay
<1>9. CASE WatchBegins
  <2>1. /\ hub.at = "serving" /\ hub'.at = "watching" /\ hub'.by = hub.by /\ hub'.org = hub.org
        /\ UNCHANGED <<job, mutex, reading>>
    BY <1>9 DEF WatchBegins, HubTypes, Hub
  <2> QED
    BY <2>1 DEF UnderWay
<1>10. CASE ReloadReads
  <2>1. /\ hub.at = "watching" /\ mutex = NoOne /\ mutex' = "reload"
        /\ reading'.at = "loading" /\ UNCHANGED <<job, hub>>
    BY <1>10 DEF ReloadReads, NoReading
  <2>2. \A u \in Joins : job[u].at \notin Begun \cup {"renamed"}
    BY <2>1, WritersAssumption DEF UnderWay
  <2> QED
    BY <2>1, <2>2 DEF UnderWay
<1>11. CASE ReloadLoads
  <2>1. /\ reading.at = "loading" /\ reading'.at = "loaded" /\ reading'.org = file
        /\ Loads(file) /\ UNCHANGED <<job, hub, mutex>>
    BY <1>11 DEF ReloadLoads, HubTypes, Reading
  <2>2. file \in Good
    BY <2>1, LoadsIsGood DEF FileTypes
  <2> QED
    BY <2>1, <2>2 DEF UnderWay
<1>12. CASE ReloadRefuses \/ ReloadEnds
  <2>1. reading.at # "idle" /\ reading'.at = "idle" /\ mutex' = NoOne /\ job' = job
    BY <1>12 DEF ReloadRefuses, ReloadEnds, NoReading
  <2>2. mutex = "reload" /\ hub.at = "watching"
    BY <2>1 DEF UnderWay
  <2>3. hub'.at = hub.at /\ hub'.by = hub.by /\ hub'.org \in {hub.org, reading.org}
        /\ (hub'.org = hub.org \/ reading.at = "loaded")
    BY <1>12 DEF ReloadRefuses, ReloadEnds, HubTypes, Hub
  <2>4. \A u \in Joins : job[u].at \notin Begun \cup {"renamed"}
    BY <1>0, <2>2, WritersAssumption DEF UnderWay
  <2> QED
    BY <2>1, <2>2, <2>3, <2>4 DEF UnderWay
<1>13. CASE HubEnds
  <2>1. hub' = NoHub /\ hub'.at = "down" /\ reading'.at = "idle"
    BY <1>13 DEF HubEnds, NoHub, NoReading
  <2>2. ASSUME NEW u \in Joins PROVE job'[u].at \notin Begun \cup {"renamed"}
    BY <1>13, HubEndsStep, WritersAssumption DEF OfTheHub, Begun, Holding
  <2>3. ASSUME NEW u \in Servers PROVE job'[u].at \notin Begun
    <3>1. u \in Writers
      BY WritersAssumption
    <3>2. CASE job[u].at \in Begun
      <4>1. OfTheHub(u)
        BY <3>1, <3>2 DEF UnderWay, OfTheHub, Begun, Holding
      <4> QED
        BY <1>13, <3>1, <4>1, HubEndsStep DEF Begun, Holding
    <3>3. CASE job[u].at \notin Begun
      BY <1>13, <3>1, <3>3, HubEndsStep DEF Begun, Holding
    <3> QED
      BY <3>2, <3>3
  <2>4. \A u \in Writers : job'[u].at = "renamed" => job[u].at = "renamed" /\ job'[u] = job[u]
    BY <1>13, HubEndsStep
  <2>5. \A u \in Writers : job'[u].at # "renamed"
    BY <2>2, <2>4 DEF UnderWay
  <2> QED
    BY <2>1, <2>2, <2>3, <2>5, WritersAssumption DEF UnderWay
<1>14. CASE EditBreaks \/ EditEnds
  BY <1>14 DEF EditBreaks, EditEnds, UnderWay
<1> QED
  BY <1>1, <1>3, <1>4, <1>5, <1>6, <1>7, <1>8, <1>9, <1>10, <1>11, <1>12, <1>13, <1>14,
     WritersAssumption
  DEF Next, Proceed, Reload

LEMMA OrderedStep ==
  ASSUME Types, Control, Ordered, Next
  PROVE  Ordered'
<1> USE DEF Types, Control
<1>0. /\ version \in Nat /\ hub.version \in Nat /\ reading.version \in Nat
      /\ \A w \in Writers : job[w].version \in Nat
  BY DEF FileTypes, HubTypes, JobTypes, Hub, Reading, Job
<1>j. \A w \in Joins : w \in Writers
  BY WritersAssumption
\* Nobody has an answer to give that had none.
<1>1. ASSUME version' \in {version, version + 1},
             UNCHANGED <<hub, reading>>,
             \A w \in Joins : \/ job'[w] = job[w]
                              \/ job'[w].at \notin {"renamed", "done"}
      PROVE  Ordered'
  BY <1>0, <1>1, <1>j DEF Ordered
<1>2. ASSUME NEW w \in Writers, Begin(w) PROVE Ordered'
  <2>0. /\ job'[w].at \in {"asking", "refused"}
        /\ UNCHANGED <<version, reading>>
        /\ \A u \in Writers \ {w} : job'[u] = job[u]
    BY <1>2, BeginStep DEF fileVars
  <2>1. CASE UNCHANGED hub
    BY <1>1, <1>j, <2>0, <2>1
  <2>2. CASE ServerBegins(w)
    <3>1. hub.at = "down" /\ hub'.version = version
      BY <2>2 DEF ServerBegins, NoHub
    <3>2. reading.at = "idle" /\ \A u \in Joins : job[u].at # "renamed"
      BY <3>1 DEF UnderWay
    <3>3. \A u \in Joins : job[u].version <= version
      BY <1>j DEF MadeOnce
    <3> QED
      BY <1>0, <1>j, <2>0, <3>1, <3>2, <3>3 DEF Ordered
  <2> QED
    BY <1>2, <2>1, <2>2 DEF Begin, CommandBegins, InitBegins, JoinBegins
<1>3. ASSUME NEW w \in Writers, Take(w) PROVE Ordered'
  BY <1>1, <1>3, <1>j, TakeStep DEF fileVars
<1>4. ASSUME NEW w \in Writers, Write(w) PROVE Ordered'
  BY <1>1, <1>4, <1>j, EndsAsStep DEF Write, Stages, fileVars
<1>5. ASSUME NEW w \in Writers, Rename(w) PROVE Ordered'
  <2>1. /\ version' = version + 1 /\ UNCHANGED <<hub, reading>>
        /\ job'[w].version = version'
        /\ job'[w].at = IF w \in Joins THEN "renamed" ELSE "done"
        /\ \A u \in Writers \ {w} : job'[u] = job[u]
    BY <1>5, RenameStep
  <2> QED
    BY <1>0, <1>j, <2>1 DEF Ordered
<1>6. ASSUME NEW w \in Writers, JoinEnds(w) PROVE Ordered'
  <2>1. CASE job[w].at = "renamed"
    <3>1. /\ mutex = w /\ job'[w].at = "done" /\ job'[w].version = job[w].version
          /\ \A u \in Writers \ {w} : job'[u] = job[u]
          /\ hub' = [hub EXCEPT !.org = job[w].org, !.version = job[w].version]
          /\ UNCHANGED <<version, reading>>
      BY <1>6, <2>1, JoinEndsStep DEF fileVars
    <3>2. hub'.version = job[w].version /\ hub'.at = hub.at
      BY <3>1 DEF HubTypes, Hub
    <3>3. /\ w \in Joins /\ reading.at = "idle"
          /\ \A u \in Joins \ {w} : job[u].at # "renamed"
      BY <2>1, <3>1, WritersAssumption DEF UnderWay
    <3>4. hub.version <= job[w].version /\ job[w].version <= version
      BY <2>1, <3>3 DEF Ordered, MadeOnce
    <3>5. hub.at # "down"
      BY <2>1, <3>3 DEF UnderWay
    <3> QED
      BY <1>0, <1>j, <3>1, <3>2, <3>3, <3>4, <3>5 DEF Ordered
  <2>2. CASE job[w].at \in {"refused", "failed"} /\ UNCHANGED <<job, hub>>
    BY <1>1, <1>6, <2>2, JoinEndsStep DEF fileVars
  <2> QED
    BY <1>6, <2>1, <2>2, JoinEndsStep
<1>7. ASSUME NEW w \in Writers, ReplaceFails(w) \/ Killed(w) PROVE Ordered'
  BY <1>1, <1>7, <1>j, FailStep DEF fileVars
<1>8. ASSUME NEW w \in Writers, ServerServes(w) PROVE Ordered'
  <2>1. hub'.version = hub.version /\ hub.at # "down" /\ UNCHANGED <<version, job, reading>>
    BY <1>8 DEF ServerServes, HubTypes, Hub, fileVars
  <2> QED
    BY <2>1 DEF Ordered
<1>9. CASE WatchBegins \/ ReloadRefuses
  <2>1. hub'.version = hub.version /\ hub.at # "down"
    <3>1. CASE WatchBegins
      BY <3>1 DEF WatchBegins, HubTypes, Hub
    <3>2. CASE ReloadRefuses
      BY <3>2 DEF ReloadRefuses, HubTypes, Hub, UnderWay
    <3> QED
      BY <1>9, <3>1, <3>2
  <2>2. UNCHANGED <<version, job>> /\ (reading'.at = "idle" \/ reading' = reading)
    BY <1>9 DEF WatchBegins, ReloadRefuses, fileVars, NoReading
  <2> QED
    BY <2>1, <2>2 DEF Ordered
<1>10. CASE ReloadReads
  <2>1. UNCHANGED <<version, job, hub>> /\ reading'.at = "loading"
    BY <1>10 DEF ReloadReads, fileVars, NoReading
  <2> QED
    BY <2>1 DEF Ordered
<1>11. CASE ReloadLoads
  <2>1. UNCHANGED <<version, job, hub>> /\ reading'.version = version
    BY <1>11 DEF ReloadLoads, fileVars, HubTypes, Reading
  <2> QED
    BY <1>0, <2>1 DEF Ordered
<1>12. CASE ReloadEnds
  <2>1. /\ UNCHANGED <<version, job>> /\ hub'.version = reading.version /\ hub'.at = hub.at
        /\ reading.at = "loaded" /\ reading'.at = "idle"
    BY <1>12 DEF ReloadEnds, fileVars, HubTypes, Hub, NoReading
  <2>2. hub.version <= reading.version /\ reading.version <= version
    BY <2>1 DEF Ordered
  <2>3. \A u \in Joins : job[u].at # "renamed"
    BY <2>1, <1>j, WritersAssumption DEF UnderWay
  <2> QED
    BY <1>0, <1>j, <2>1, <2>2, <2>3 DEF Ordered
<1>13. CASE HubEnds
  <2>1. /\ hub'.version = 0 /\ hub'.at = "down" /\ reading'.at = "idle" /\ version' = version
    BY <1>13 DEF HubEnds, NoHub, NoReading, fileVars
  <2>2. ASSUME NEW w \in Joins PROVE job'[w].at # "renamed"
    BY <1>13, <1>j, HubEndsStep DEF OfTheHub
  <2> QED
    BY <1>0, <2>1, <2>2 DEF Ordered
<1>14. CASE EditBreaks \/ EditEnds
  BY <1>1, <1>14 DEF EditBreaks, EditEnds
<1> QED
  BY <1>2, <1>3, <1>4, <1>5, <1>6, <1>7, <1>8, <1>9, <1>10, <1>11, <1>12, <1>13, <1>14,
     WritersAssumption
  DEF Next, Proceed, Reload

-----------------------------------------------------------------------------
(* The org as it is.                                                       *)

LEMMA PresentIsGood ==
  ASSUME Types, Control
  PROVE  Present \in Loaded
  BY DEF Types, Control, FileTypes, TornByEdit, Present, Raws, Loaded

LEMMA RenamePresent ==
  ASSUME Types, Control, NEW w \in Writers, Rename(w)
  PROVE  Present = file /\ Present' = Changed(file, job[w].change, w)
<1>1. /\ Allowed(file, job[w].change) /\ file' = Changed(file, job[w].change, w)
      /\ file' \in Good
  BY RenameStep DEF Types, Control
<1>2. file # Torn
  BY <1>1, AllowedByKind, Nulls DEF Loads
<1> QED
  BY <1>1, <1>2, Nulls DEF Present

\* Nothing but a rename changes who has which invite, and nothing but that or a
\* hand who is a member.
LEMMA PresentStep ==
  ASSUME Types, Control, Next, \A w \in Writers : ~Rename(w)
  PROVE  /\ \A w \in Writers : job'[w].version = job[w].version
         /\ claims' = claims
         /\ \/ Present' = Present
            \/ /\ Present \in Good /\ Present'.invites = Present.invites
               /\ \A t \in TokensOf(Present'.members) :
                    t \in TokensOf(Present.members) \/ t = Editor
<1> USE DEF Types, Control
<1> DEFINE Same == UNCHANGED <<fileVars, edit>>
<1>1. ASSUME Same, UNCHANGED job
      PROVE  (\A w \in Writers : job'[w].version = job[w].version)
             /\ claims' = claims /\ Present' = Present
  BY <1>1 DEF Present, fileVars
<1>2. ASSUME Same, NEW w \in Writers, job'[w].version = job[w].version,
             \A u \in Writers \ {w} : job'[u] = job[u]
      PROVE  (\A u \in Writers : job'[u].version = job[u].version)
             /\ claims' = claims /\ Present' = Present
  BY <1>2 DEF Present, fileVars
<1>3. CASE EditBreaks
  <2>1. file \in Good
    BY <1>3, LoadsIsGood DEF EditBreaks, FileTypes
  <2>2. Present = file /\ Present' = ByHand(file) /\ UNCHANGED <<job, claims>>
    BY <1>3, <2>1, Nulls DEF EditBreaks, Present
  <2>3. file \in Content
    BY <2>1, GoodParts
  <2>4. /\ ByHand(file).invites = file.invites
        /\ ByHand(file).members = file.members \cup {[id |-> FreeId(file), token |-> Editor]}
    BY <2>3 DEF ByHand, Content
  <2> HIDE DEF Types, Control
  <2> QED
    BY <2>1, <2>2, <2>4 DEF TokensOf
<1>4. CASE EditEnds
  <2>1. Present = edit.org /\ file' = edit.org /\ file' # Torn /\ UNCHANGED <<job, claims>>
    BY <1>4, Nulls DEF EditEnds, TornByEdit, Present
  <2> QED
    BY <2>1 DEF Present
<1>5. CASE HubEnds
  BY <1>5, HubEndsStep DEF HubEnds, Present, fileVars
<1>6. CASE WatchBegins \/ Reload
  BY <1>1, <1>6 DEF WatchBegins, Reload, ReloadReads, ReloadLoads, ReloadRefuses, ReloadEnds
<1>7. ASSUME NEW w \in Writers, ServerServes(w)
      PROVE  Same /\ UNCHANGED job
  BY <1>7 DEF ServerServes
<1>8. ASSUME NEW w \in Writers, Begin(w) \/ Take(w) \/ ReplaceFails(w) \/ Killed(w)
      PROVE  Same /\ job'[w].version = job[w].version
             /\ \A u \in Writers \ {w} : job'[u] = job[u]
  BY <1>8, BeginStep, TakeStep, FailStep
<1>9. ASSUME NEW w \in Writers, Write(w)
      PROVE  Same /\ job'[w].version = job[w].version
             /\ \A u \in Writers \ {w} : job'[u] = job[u]
  BY <1>9, EndsAsStep DEF Write, Stages
<1>10. ASSUME NEW w \in Writers, JoinEnds(w)
       PROVE  Same /\ job'[w].version = job[w].version
              /\ \A u \in Writers \ {w} : job'[u] = job[u]
  BY <1>10, JoinEndsStep
<1> HIDE DEF Same, Types, Control
<1> QED
  BY <1>1, <1>2, <1>3, <1>4, <1>5, <1>6, <1>7, <1>8, <1>9, <1>10, WritersAssumption
  DEF Next, Proceed

-----------------------------------------------------------------------------
(* Who is in which copy.                                                   *)

LEMMA KeptInCopiesStep ==
  ASSUME Types, Control, Ordered, KeptInCopies, Next
  PROVE  KeptInCopies'
<1>0. /\ version \in Nat /\ hub.version \in Nat /\ reading.version \in Nat
      /\ \A w \in Writers : job[w].version \in Nat
  BY DEF Types, FileTypes, HubTypes, JobTypes, Hub, Reading, Job
<1>j. \A w \in Joins : w \in Writers /\ w # Editor
  BY WritersAssumption, TokensAssumption
<1>1. CASE \E x \in Writers : Rename(x)
  <2>1. PICK x \in Writers : Rename(x)
    BY <1>1
  <2>2. /\ version' = version + 1 /\ UNCHANGED <<hub, reading>>
        /\ job'[x].version = version' /\ job'[x].org = file'
        /\ job[x].change \in Changes /\ Allowed(file, job[x].change)
        /\ \A u \in Writers \ {x} : job'[u] = job[u]
    BY <2>1, RenameStep DEF Types, Control
  <2>3. Present = file /\ Present' = file' /\ file' = Changed(file, job[x].change, x)
    BY <2>1, RenamePresent, RenameStep DEF Types, Control
  <2>4. ASSUME NEW w \in Joins, In(w, Present')
        PROVE  w = x \/ (Present # NoFile /\ In(w, Present))
    <3>1. file \in {NoFile, Torn} \cup Good
      BY DEF Types, FileTypes, Raws
    <3>2. w \in TokensOf(Changed(file, job[x].change, x).members)
      BY <2>3, <2>4 DEF In
    <3> QED
      BY <2>2, <2>3, <3>1, <3>2, ChangedMembers, Nulls DEF In
  <2>5. /\ hub.version <= version
        /\ reading.at = "loaded" => reading.version <= version
        /\ \A u \in Writers : job[u].version <= version
    BY DEF Ordered, Control, MadeOnce
  <2>6. ASSUME NEW w \in Joins, In(w, Present')
        PROVE  /\ hub'.at # "down" /\ Made(w, hub.version)' => In(w, hub'.org)
               /\ reading'.at = "loaded" /\ Made(w, reading.version)' => In(w, reading'.org)
               /\ \A u \in Joins :
                    job'[u].at = "renamed" /\ Made(w, job[u].version)' => In(w, job'[u].org)
    <3>1. CASE w = x
      <4>1. ~Made(w, hub.version)' /\ (reading.at = "loaded" => ~Made(w, reading.version)')
        BY <1>0, <2>2, <2>5, <3>1 DEF Made
      <4>2. \A u \in Joins \ {x} : ~Made(w, job[u].version)'
        BY <1>0, <1>j, <2>2, <2>5, <3>1 DEF Made
      <4>3. In(w, job'[x].org)
        BY <2>2, <2>3, <2>6
      <4> QED
        BY <2>2, <4>1, <4>2, <4>3
    <3>2. CASE w # x
      <4>1. Present # NoFile /\ In(w, Present) /\ job'[w] = job[w]
        BY <1>j, <2>2, <2>4, <2>6, <3>2
      <4>2. In(w, job'[x].org)
        BY <2>2, <2>3, <2>6
      <4> QED
        BY <1>j, <2>2, <4>1, <4>2 DEF KeptInCopies, Made
    <3> QED
      BY <3>1, <3>2
  <2> QED
    BY <2>6 DEF KeptInCopies
<1>2. CASE \A x \in Writers : ~Rename(x)
  <2>1. \A w \in Writers : job'[w].version = job[w].version
    BY <1>2, PresentStep
  <2>2. ASSUME NEW w \in Joins, Present' # NoFile, In(w, Present')
        PROVE  Present # NoFile /\ In(w, Present)
    BY <1>2, <1>j, <2>2, PresentStep, Nulls DEF In
  \* A copy was one before, or is made now, of the org as it is.
  <2>3. \/ hub'.at = "down"
        \/ hub.at # "down" /\ hub'.org = hub.org /\ hub'.version = hub.version
        \/ hub'.org = Present
        \/ reading.at = "loaded" /\ hub'.org = reading.org /\ hub'.version = reading.version
        \/ \E u \in Joins : /\ job[u].at = "renamed" /\ hub'.org = job[u].org
                            /\ hub'.version = job[u].version
    <3>1. CASE UNCHANGED hub
      BY <3>1
    <3>2. ASSUME NEW w \in Writers, Begin(w), hub' # hub
          PROVE  hub'.org = Present
      <4>1. ServerBegins(w)
        BY <3>2 DEF Begin, CommandBegins, InitBegins, JoinBegins
      <4>2. hub'.org = file /\ Loads(file)
        BY <4>1 DEF ServerBegins, NoHub
      <4> QED
        BY <4>2 DEF Loads, Present
    <3>3. ASSUME NEW w \in Writers, JoinEnds(w), hub' # hub
          PROVE  \E u \in Joins : /\ job[u].at = "renamed" /\ hub'.org = job[u].org
                                  /\ hub'.version = job[u].version
      <4>1. /\ job[w].at = "renamed"
            /\ hub' = [hub EXCEPT !.org = job[w].org, !.version = job[w].version]
        BY <3>3, JoinEndsStep DEF Types
      <4>2. hub'.org = job[w].org /\ hub'.version = job[w].version
        BY <4>1 DEF Types, HubTypes, Hub
      <4>3. w \in Joins
        BY <4>1 DEF Control, UnderWay
      <4> QED
        BY <4>1, <4>2, <4>3
    <3>4. ASSUME NEW w \in Writers, ServerServes(w)
          PROVE  hub.at # "down" /\ hub'.org = hub.org /\ hub'.version = hub.version
      BY <3>4 DEF ServerServes, Types, HubTypes, Hub
    <3>5. CASE WatchBegins
      BY <3>5 DEF WatchBegins, Types, HubTypes, Hub
    <3>6. CASE ReloadRefuses
      <4>1. hub.at # "down"
        BY <3>6 DEF ReloadRefuses, Control, UnderWay
      <4> QED
        BY <3>6, <4>1 DEF ReloadRefuses, Types, HubTypes, Hub
    <3>7. CASE ReloadEnds
      BY <3>7 DEF ReloadEnds, Types, HubTypes, Hub
    <3>8. CASE HubEnds
      BY <3>8 DEF HubEnds, NoHub
    <3>9. ASSUME NEW w \in Writers, Take(w) \/ Write(w) \/ ReplaceFails(w) \/ Killed(w)
          PROVE  UNCHANGED hub
      BY <3>9 DEF Take, Write, ReplaceFails, Killed
    <3>10. CASE ReloadReads \/ ReloadLoads \/ EditBreaks \/ EditEnds
      BY <3>10 DEF ReloadReads, ReloadLoads, EditBreaks, EditEnds
    <3> QED
      BY <1>2, <3>1, <3>2, <3>3, <3>4, <3>5, <3>6, <3>7, <3>8, <3>9, <3>10, WritersAssumption
      DEF Next, Proceed, Reload
  <2>4. \/ reading'.at # "loaded"
        \/ reading' = reading
        \/ reading'.org = Present
    <3>1. CASE ReloadLoads
      BY <3>1 DEF ReloadLoads, Types, HubTypes, Reading, Loads, Present
    <3>2. CASE ReloadReads \/ ReloadRefuses \/ ReloadEnds \/ HubEnds
      <4>1. CASE ReloadReads
        BY <4>1 DEF ReloadReads, NoReading
      <4>2. CASE reading' = NoReading
        BY <4>2 DEF NoReading
      <4> QED
        BY <3>2, <4>1, <4>2 DEF ReloadRefuses, ReloadEnds, HubEnds
    <3>3. CASE \E w \in Writers : Begin(w)
      BY <3>3, BeginStep DEF Types
    <3>4. ASSUME NEW w \in Writers, Take(w) \/ Write(w) \/ JoinEnds(w) \/ ServerServes(w)
                                    \/ ReplaceFails(w) \/ Killed(w)
          PROVE  UNCHANGED reading
      BY <3>4 DEF Take, Write, JoinEnds, ServerServes, ReplaceFails, Killed
    <3>5. CASE WatchBegins \/ EditBreaks \/ EditEnds
      BY <3>5 DEF WatchBegins, EditBreaks, EditEnds
    <3> QED
      BY <1>2, <3>1, <3>2, <3>3, <3>4, <3>5, WritersAssumption DEF Next, Proceed, Reload
  <2>5. \A u \in Joins : job'[u].at = "renamed" => job'[u] = job[u]
    <3>1. ASSUME NEW w \in Writers, Begin(w) \/ Take(w) \/ ReplaceFails(w) \/ Killed(w)
          PROVE  \A u \in Joins : job'[u].at = "renamed" => job'[u] = job[u]
      BY <1>j, <3>1, BeginStep, TakeStep, FailStep DEF Types, Control
    <3>2. ASSUME NEW w \in Writers, Write(w)
          PROVE  \A u \in Joins : job'[u].at = "renamed" => job'[u] = job[u]
      BY <1>j, <3>2, EndsAsStep DEF Types, Write, Stages
    <3>3. ASSUME NEW w \in Writers, JoinEnds(w)
          PROVE  \A u \in Joins : job'[u].at = "renamed" => job'[u] = job[u]
      BY <1>j, <3>3, JoinEndsStep DEF Types
    <3>4. CASE HubEnds
      BY <1>j, <3>4, HubEndsStep DEF Types
    <3>5. ASSUME NEW w \in Writers, ServerServes(w) PROVE UNCHANGED job
      BY <3>5 DEF ServerServes
    <3>6. CASE WatchBegins \/ Reload \/ EditBreaks \/ EditEnds
      BY <3>6 DEF WatchBegins, Reload, ReloadReads, ReloadLoads, ReloadRefuses, ReloadEnds,
                  EditBreaks, EditEnds
    <3> QED
      BY <1>2, <3>1, <3>2, <3>3, <3>4, <3>5, <3>6, WritersAssumption DEF Next, Proceed
  <2>6. ASSUME NEW w \in Joins, Present' # NoFile, In(w, Present')
        PROVE  /\ hub'.at # "down" /\ Made(w, hub.version)' => In(w, hub'.org)
               /\ reading'.at = "loaded" /\ Made(w, reading.version)' => In(w, reading'.org)
               /\ \A u \in Joins :
                    job'[u].at = "renamed" /\ Made(w, job[u].version)' => In(w, job'[u].org)
    <3>1. Present # NoFile /\ In(w, Present) /\ job'[w].version = job[w].version
      BY <1>j, <2>1, <2>2, <2>6
    <3>2. hub'.at # "down" /\ Made(w, hub.version)' => In(w, hub'.org)
      BY <2>3, <3>1 DEF KeptInCopies, Made
    <3>3. reading'.at = "loaded" /\ Made(w, reading.version)' => In(w, reading'.org)
      BY <2>4, <3>1 DEF KeptInCopies, Made
    <3>4. ASSUME NEW u \in Joins, job'[u].at = "renamed", Made(w, job[u].version)'
          PROVE  In(w, job'[u].org)
      BY <2>5, <3>1, <3>4 DEF KeptInCopies, Made
    <3> QED
      BY <3>2, <3>3, <3>4
  <2> QED
    BY <2>6 DEF KeptInCopies
<1> QED
  BY <1>1, <1>2

-----------------------------------------------------------------------------
(* Invites and their uses.                                                 *)

\* What a rename does to the claims.
LEMMA RenameClaims ==
  ASSUME NEW w \in Writers, Rename(w)
  PROVE  claims' = IF job[w].change.kind = "claim"
                   THEN [claims EXCEPT ![job[w].change.token] = @ + 1] ELSE claims
  BY DEF Rename

LEMMA MintedStep ==
  ASSUME Types, Control, Minted, Next
  PROVE  Minted'
<1>1. CASE \E x \in Writers : Rename(x)
  <2>1. PICK x \in Writers : Rename(x)
    BY <1>1
  <2> DEFINE c == job[x].change
  <2>2. /\ version' = version + 1 /\ job'[x].version = version'
        /\ c \in Changes /\ Allowed(file, c)
        /\ \A u \in Writers \ {x} : job'[u] = job[u]
    BY <2>1, RenameStep DEF Types, Control
  <2>3. Present = file /\ Present' = Changed(file, c, x) /\ file \in {NoFile, Torn} \cup Good
    BY <2>1, RenamePresent DEF Types, FileTypes, Raws
  <2>4. claims' = IF c.kind = "claim" THEN [claims EXCEPT ![c.token] = @ + 1] ELSE claims
    BY <2>1, RenameClaims
  <2> HIDE DEF c
  <2>5. ASSUME NEW w \in Writers, job'[w].version = 0
        PROVE  claims'[w] = 0 /\ w \notin TokensOf(Present'.invites)
    <3>1. w # x /\ job[w].version = 0
      BY <2>2, <2>5 DEF Types, FileTypes
    <3>2. claims[w] = 0 /\ (file \in Good => w \notin TokensOf(file.invites))
      BY <2>3, <3>1, Nulls DEF Minted
    <3> DEFINE V == Changed(file, c, x).invites
    <3>3. \/ V = {} /\ c.kind # "claim"
          \/ file \in Good /\ V \subseteq file.invites /\ c.kind # "claim"
          \/ /\ file \in Good /\ c.kind # "claim"
             /\ \E W \in SUBSET file.invites : V = W \cup {NewInvite(c.id, x)}
          \/ /\ file \in Good /\ c.kind = "claim"
             /\ \E v \in file.invites : /\ v \in Invite /\ v.token = c.token /\ ~v.spent
                                        /\ V = (file.invites \ {v}) \cup {Used(v)}
      BY <2>2, <2>3, ChangedInvites
    <3>4. Present'.invites = V
      BY <2>3
    <3> HIDE DEF V
    <3>5. CASE V = {} /\ c.kind # "claim"
      BY <2>4, <3>2, <3>4, <3>5 DEF TokensOf
    <3>6. CASE file \in Good /\ V \subseteq file.invites /\ c.kind # "claim"
      BY <2>4, <3>2, <3>4, <3>6 DEF TokensOf
    <3>7. ASSUME file \in Good, c.kind # "claim", NEW W \in SUBSET file.invites,
                 V = W \cup {NewInvite(c.id, x)}
          PROVE  claims'[w] = 0 /\ w \notin TokensOf(Present'.invites)
      <4>1. NewInvite(c.id, x).token = x
        BY DEF NewInvite
      <4> QED
        BY <2>4, <3>1, <3>2, <3>4, <3>7, <4>1 DEF TokensOf
    <3>8. ASSUME file \in Good, c.kind = "claim", NEW v \in file.invites,
                 v \in Invite, v.token = c.token, ~v.spent,
                 V = (file.invites \ {v}) \cup {Used(v)}
          PROVE  claims'[w] = 0 /\ w \notin TokensOf(Present'.invites)
      <4>1. Used(v).token = v.token
        BY <3>8, UsedKeeps
      <4>2. c.token # w
        BY <3>2, <3>8 DEF TokensOf
      <4>3. claims'[w] = 0
        BY <2>4, <3>2, <3>8, <4>2 DEF Types, FileTypes, Tokens
      <4> QED
        BY <3>2, <3>4, <3>8, <4>1, <4>3 DEF TokensOf
    <3> QED
      BY <3>3, <3>5, <3>6, <3>7, <3>8
  <2> QED
    BY <2>5 DEF Minted
<1>2. CASE \A x \in Writers : ~Rename(x)
  <2>1. /\ \A w \in Writers : job'[w].version = job[w].version
        /\ claims' = claims
        /\ Present' # NoFile => Present # NoFile /\ Present'.invites = Present.invites
    BY <1>2, PresentStep, Nulls
  <2> QED
    BY <2>1 DEF Minted
<1> QED
  BY <1>1, <1>2

LEMMA CountedStep ==
  ASSUME Types, Control, Minted, Counted, Next
  PROVE  Counted'
<1>1. CASE \E x \in Writers : Rename(x)
  <2>1. PICK x \in Writers : Rename(x)
    BY <1>1
  <2> DEFINE c == job[x].change
  <2>2. /\ c \in Changes /\ Allowed(file, c) /\ job[x].at = "renaming"
    BY <2>1, RenameStep DEF Types, Control
  <2>3. Present = file /\ Present' = Changed(file, c, x) /\ file \in {NoFile, Torn} \cup Good
    BY <2>1, RenamePresent DEF Types, FileTypes, Raws
  <2>4. claims' = IF c.kind = "claim" THEN [claims EXCEPT ![c.token] = @ + 1] ELSE claims
    BY <2>1, RenameClaims
  <2>5. claims[x] = 0 /\ (file \in Good => x \notin TokensOf(file.invites))
    BY <2>2, <2>3, Nulls DEF Minted, Control, MadeOnce, NotMade
  <2>6. claims \in [Tokens -> Nat] /\ x \in Tokens
    BY DEF Types, FileTypes, Tokens
  <2> HIDE DEF c
  <2> DEFINE V == Changed(file, c, x).invites
             Fine(n, S) ==
               /\ Uses > 0 => \A t \in Tokens : n[t] <= Uses
               /\ \A v, u \in S : v.token = u.token => v = u
               /\ Uses > 0 => \A v \in S : v.uses + n[v.token] = Uses /\ v.spent = (v.uses = 0)
  <2>7. \/ V = {} /\ c.kind # "claim"
        \/ file \in Good /\ V \subseteq file.invites /\ c.kind # "claim"
        \/ /\ file \in Good /\ c.kind # "claim"
           /\ \E W \in SUBSET file.invites : V = W \cup {NewInvite(c.id, x)}
        \/ /\ file \in Good /\ c.kind = "claim"
           /\ \E v \in file.invites : /\ v \in Invite /\ v.token = c.token /\ ~v.spent
                                      /\ V = (file.invites \ {v}) \cup {Used(v)}
    BY <2>2, <2>3, ChangedInvites
  <2>8. Present'.invites = V
    BY <2>3
  <2>9. file \in Good => Fine(claims, file.invites)
    BY <2>3, Nulls DEF Counted
  <2>10. Uses > 0 => \A t \in Tokens : claims[t] <= Uses
    BY DEF Counted
  <2> HIDE DEF V
  <2>11. ASSUME V = {}, c.kind # "claim"
         PROVE  Fine(claims', V)
    <3>1. claims' = claims
      BY <2>4, <2>11
    <3>2. Fine(claims, {})
      BY <2>10
    <3> QED
      BY <2>11, <3>1, <3>2
  <2>12. ASSUME file \in Good, V \subseteq file.invites, c.kind # "claim"
         PROVE  Fine(claims', V)
    <3>1. claims' = claims
      BY <2>4, <2>12
    <3>2. Fine(claims, V)
      BY <2>9, <2>12
    <3> QED
      BY <3>1, <3>2
  <2>13. ASSUME file \in Good, c.kind # "claim", NEW W \in SUBSET file.invites,
                V = W \cup {NewInvite(c.id, x)}
         PROVE  Fine(claims', V)
    <3>1. NewInvite(c.id, x).token = x /\ NewInvite(c.id, x).uses = Uses
          /\ NewInvite(c.id, x).spent = FALSE
      BY DEF NewInvite
    <3>2. \A v \in W : v.token # x
      BY <2>5, <2>13 DEF TokensOf
    <3>3. claims' = claims
      BY <2>4, <2>13
    <3> DEFINE v == NewInvite(c.id, x)
    <3> HIDE DEF v
    <3>4. V = W \cup {v} /\ v.token = x /\ v.uses = Uses /\ v.spent = FALSE
      BY <2>13, <3>1 DEF v
    <3>5. \A u, r \in V : u.token = r.token => u = r
      BY <2>9, <2>13, <3>2, <3>4
    <3>6. ASSUME Uses > 0
          PROVE  v.uses + claims[v.token] = Uses /\ v.spent = (v.uses = 0)
      <4>1. v.uses + claims[v.token] = Uses
        BY <2>5, <3>4, UsesAssumption
      <4>2. (v.uses = 0) = FALSE
        BY <3>4, <3>6, UsesAssumption
      <4> QED
        BY <3>4, <4>1, <4>2
    <3>7. Uses > 0 => \A u \in W : u.uses + claims[u.token] = Uses /\ u.spent = (u.uses = 0)
      BY <2>9, <2>13
    <3> QED
      BY <2>10, <3>3, <3>4, <3>5, <3>6, <3>7
  <2>14. ASSUME file \in Good, c.kind = "claim", NEW v \in file.invites,
                v \in Invite, v.token = c.token, ~v.spent,
                V = (file.invites \ {v}) \cup {Used(v)}
         PROVE  Fine(claims', V)
    <3> DEFINE t == c.token
    <3>1. Used(v).token = t
      BY <2>14, UsedKeeps
    <3>2. t \in Tokens /\ claims[t] \in Nat /\ v.uses \in Nat
      BY <2>6, <2>14 DEF Invite
    <3>3. claims' = [claims EXCEPT ![t] = claims[t] + 1]
      BY <2>4, <2>14
    <3>4. \A u \in file.invites \ {v} : u.token # t
      BY <2>9, <2>14
    <3>5. \A u, r \in V : u.token = r.token => u = r
      BY <2>9, <2>14, <3>1, <3>4
    <3>6. ASSUME Uses > 0
          PROVE  /\ \A s \in Tokens : claims'[s] <= Uses
                 /\ \A u \in V : u.uses + claims'[u.token] = Uses /\ u.spent = (u.uses = 0)
      <4>1. v.uses + claims[t] = Uses /\ v.uses # 0
        BY <2>9, <2>14, <3>6
      <4>2. claims'[t] = claims[t] + 1 /\ \A s \in Tokens \ {t} : claims'[s] = claims[s]
        BY <2>6, <3>2, <3>3
      <4>3. Used(v).uses = v.uses - 1 /\ Used(v).spent = (v.uses = 1)
        BY <2>14, <4>1 DEF Used, Invite
      <4>4. \A s \in Tokens : claims'[s] <= Uses
        BY <2>10, <3>2, <3>6, <4>1, <4>2, UsesAssumption
      <4>5. ASSUME NEW u \in file.invites \ {v}
            PROVE  u.uses + claims'[u.token] = Uses /\ u.spent = (u.uses = 0)
        <5>1. u.token \in Tokens
          BY <2>14, GoodParts DEF Content, Invite
        <5> QED
          BY <2>9, <2>14, <3>4, <3>6, <4>2, <5>1
      <4>6. Used(v).uses + claims'[t] = Uses /\ Used(v).spent = (Used(v).uses = 0)
        BY <3>2, <4>1, <4>2, <4>3
      <4> QED
        BY <2>14, <3>1, <4>4, <4>5, <4>6
    <3> QED
      BY <3>5, <3>6
  <2>15. Fine(claims', V)
    <3> HIDE DEF Fine
    <3> QED
      BY <2>7, <2>11, <2>12, <2>13, <2>14
  <2> QED
    BY <2>8, <2>15 DEF Counted
<1>2. CASE \A x \in Writers : ~Rename(x)
  <2>1. /\ claims' = claims
        /\ Present' # NoFile => Present # NoFile /\ Present'.invites = Present.invites
    BY <1>2, PresentStep, Nulls
  <2> QED
    BY <2>1 DEF Counted
<1> QED
  BY <1>1, <1>2

-----------------------------------------------------------------------------
(* The invariant holds at first, and is kept.                              *)

LEMMA InitIInv == Init => IInv
<1> SUFFICES ASSUME Init PROVE IInv
  OBVIOUS
<1>1. Types
  BY InitTypes
<1>2. /\ \A w \in Writers : job[w] = NoJob
      /\ \A w \in Joins \cup Servers : job[w] = NoJob
      /\ file \in {NoFile, Settled} /\ version = 0 /\ lock = NoOne /\ hub = NoHub
      /\ mutex = NoOne /\ reading = NoReading /\ edit.at = "none" /\ edit.org = NoFile
      /\ claims = [t \in Tokens |-> 0]
  BY WritersAssumption DEF Init
<1>3. NoJob.at = "new" /\ NoJob.version = 0 /\ hub.at = "down" /\ hub.version = 0
      /\ reading.at = "idle"
  BY <1>2 DEF NoJob, NoHub, NoReading
<1>4. HeldByWriter
  BY <1>2, <1>3 DEF HeldByWriter, Holding
<1>5. TornByEdit
  BY <1>2, FirstOrgsAreGood, Nulls DEF TornByEdit
<1>6. MadeOnce
  BY <1>2, <1>3 DEF MadeOnce, Begun, Holding
<1>7. UnderWay
  BY <1>2, <1>3 DEF UnderWay, Begun, Holding
<1>8. Ordered
  BY <1>2, <1>3 DEF Ordered
<1>9. KeptInCopies
  BY <1>2, <1>3 DEF KeptInCopies
<1>10. Present \in {NoFile, Settled}
  BY <1>2, FirstOrgsAreGood, Nulls DEF Present
<1>11. Settled.invites = {NewInvite(Team, Standing)}
  BY DEF Settled
<1> DEFINE v == NewInvite(Team, Standing)
<1>12. v.token = Standing /\ v.uses = Uses /\ v.spent = FALSE
  BY DEF NewInvite
<1> HIDE DEF v
<1>13. Present # NoFile => Present.invites = {v}
  BY <1>10, <1>11 DEF v
<1>14. Minted
  <2>1. \A w \in Writers : w \in Tokens /\ w # Standing
    BY TokensAssumption DEF Tokens
  <2> QED
    BY <1>2, <1>12, <1>13, <2>1 DEF Minted, TokensOf
<1>15. Counted
  <2>1. Standing \in Tokens /\ claims[Standing] = 0
    BY <1>2 DEF Tokens
  <2>2. ASSUME Uses > 0
        PROVE  v.uses + claims[v.token] = Uses /\ v.spent = (v.uses = 0)
    <3>1. v.uses + claims[v.token] = Uses
      BY <1>12, <2>1, UsesAssumption
    <3>2. (v.uses = 0) = FALSE
      BY <1>12, <2>2, UsesAssumption
    <3> QED
      BY <1>12, <3>1, <3>2
  <2>3. Uses > 0 => \A t \in Tokens : claims[t] <= Uses
    BY <1>2, UsesAssumption
  <2> QED
    BY <1>13, <2>2, <2>3 DEF Counted
<1> QED
  BY <1>1, <1>4, <1>5, <1>6, <1>7, <1>8, <1>9, <1>14, <1>15 DEF IInv, Control

LEMMA StutterIInv ==
  ASSUME IInv, UNCHANGED vars
  PROVE  IInv'
<1>1. UNCHANGED <<file, version, claims, lock, job, hub, mutex, reading, edit>>
  BY DEF vars, fileVars
<1>2. Types'
  BY <1>1 DEF IInv, Types, FileTypes, JobTypes, HubTypes
<1>3. Control'
  BY <1>1 DEF IInv, Control, HeldByWriter, TornByEdit, MadeOnce, UnderWay
<1>4. Ordered' /\ KeptInCopies' /\ Minted' /\ Counted'
  BY <1>1 DEF IInv, Ordered, KeptInCopies, Made, Minted, Counted, Present
<1> QED
  BY <1>2, <1>3, <1>4 DEF IInv

LEMMA InductiveIInv == IInv /\ [Next]_vars => IInv'
<1> SUFFICES ASSUME IInv, [Next]_vars PROVE IInv'
  OBVIOUS
<1>1. CASE Next
  <2>1. Types /\ Control /\ Ordered /\ KeptInCopies /\ Minted /\ Counted
    BY DEF IInv
  <2>2. HeldByWriter /\ TornByEdit /\ MadeOnce /\ UnderWay
    BY <2>1 DEF Control
  <2>3. Types'
    BY <1>1, <2>1, <2>2, FileTypesStep, JobTypesStep, HubTypesStep DEF Types
  <2>4. Control'
    BY <1>1, <2>1, HeldByWriterStep, TornByEditStep, MadeOnceStep, UnderWayStep DEF Control
  <2>5. Ordered' /\ KeptInCopies' /\ Minted' /\ Counted'
    BY <1>1, <2>1, OrderedStep, KeptInCopiesStep, MintedStep, CountedStep
  <2> QED
    BY <2>3, <2>4, <2>5 DEF IInv
<1>2. CASE UNCHANGED vars
  BY <1>2, StutterIInv
<1> QED
  BY <1>1, <1>2

LEMMA Invariant == Spec => []IInv
<1>1. Init => IInv
  BY InitIInv
<1>2. IInv /\ [Next]_vars => IInv'
  BY InductiveIInv
<1> QED
  BY <1>1, <1>2, PTL DEF Spec

-----------------------------------------------------------------------------
(* Theorems.                                                               *)

\* The types: whatever the hub answers from, and whatever a writer puts in the
\* file, is an org that loads (org.go Load, update).
THEOREM TypeCorrect == Spec => []TypeOK
<1>1. IInv => TypeOK
  <2> SUFFICES ASSUME IInv PROVE TypeOK
    OBVIOUS
  <2>1. FileTypes /\ JobTypes /\ HubTypes /\ UnderWay
    BY DEF IInv, Types, Control
  <2>2. hub.org \in IF hub.at = "down" THEN {NoFile} ELSE Orgs
    BY <2>1, Nulls DEF UnderWay, NoHub
  <2>3. \A w \in Writers : job[w].org \in {NoFile} \cup Orgs
    BY <2>1, Nulls DEF JobTypes, Job, Loaded
  <2>4. file \in {NoFile, Torn} \cup Orgs /\ hub.last \in {NoFile, Torn} \cup Orgs
    BY <2>1, Nulls DEF FileTypes, HubTypes, Hub, Raws
  <2>5. hub.by \in Servers \cup {NoOne}
    BY <2>1 DEF HubTypes, Hub
  <2> QED
    BY <2>1, <2>2, <2>3, <2>4, <2>5 DEF TypeOK, FileTypes, HubTypes
<1> QED
  BY <1>1, Invariant, PTL

\* Only an edit by hand leaves a file that does not parse: whenever a kolo process
\* is interrupted, the file is the one before its change or the one after it.
THEOREM TornOnlyByHand == Spec => []OnlyAnEditTears
<1>1. IInv => OnlyAnEditTears
  BY DEF IInv, Control, TornByEdit, OnlyAnEditTears
<1> QED
  BY <1>1, Invariant, PTL

\* An invite makes no more members than it was minted for, whoever claims it at
\* once with whatever other change of the file.
THEOREM InvitesAreCounted == Spec => []ClaimsWithinUses
<1>1. IInv => ClaimsWithinUses
  BY DEF IInv, Counted, ClaimsWithinUses
<1> QED
  BY <1>1, Invariant, PTL

\* Whoever was told they joined is let in, as long as the file has them, through
\* every reload and every other join.
THEOREM JoinersAdmitted == Spec => []JoinersAreAdmitted
<1>1. IInv => JoinersAreAdmitted
  <2> SUFFICES ASSUME IInv, hub.at # "down", Loads(file), NEW w \in Joins,
                      job[w].at = "done", w \in TokensOf(file.members)
               PROVE  w \in TokensOf(hub.org.members)
    BY DEF JoinersAreAdmitted
  <2>1. Present = file /\ file # NoFile
    BY DEF Loads, Present
  <2>2. job[w].version > 0 /\ job[w].version <= hub.version
    BY WritersAssumption DEF IInv, Control, MadeOnce, Ordered
  <2> QED
    BY <2>1, <2>2 DEF IInv, KeptInCopies, Made, In
<1> QED
  BY <1>1, Invariant, PTL

\* The hub's org never gives way to an older one, though joins and reloads read
\* and replace it by turns.
THEOREM HubGoesForward == Spec => HubNeverGoesBack
<1>1. IInv /\ [Next]_vars => [hub'.by = hub.by => hub'.version >= hub.version]_vars
  <2> SUFFICES ASSUME IInv, Next, hub'.by = hub.by
               PROVE  hub'.version >= hub.version
    OBVIOUS
  <2> USE DEF IInv, Types, Control
  <2>0. hub.version \in Nat
    BY DEF HubTypes, Hub
  <2>1. CASE UNCHANGED hub
    BY <2>0, <2>1
  <2>2. ASSUME NEW w \in Servers, ServerBegins(w) PROVE FALSE
    <3>1. hub.at = "down" /\ hub'.by = w
      BY <2>2 DEF ServerBegins, NoHub
    <3>2. hub = NoHub
      BY <3>1 DEF UnderWay
    <3>3. hub.by = NoOne
      BY <3>2 DEF NoHub
    <3> QED
      BY <3>1, <3>3, Nulls
  <2>3. ASSUME NEW w \in Writers, JoinEnds(w) PROVE hub'.version >= hub.version
    <3>1. CASE job[w].at = "renamed"
      <4>1. hub' = [hub EXCEPT !.org = job[w].org, !.version = job[w].version]
        BY <2>3, <3>1, JoinEndsStep
      <4>2. hub'.version = job[w].version
        BY <4>1 DEF HubTypes, Hub
      <4>3. w \in Joins
        BY <3>1 DEF UnderWay
      <4>4. hub.version <= job[w].version /\ job[w].version \in Nat
        BY <3>1, <4>3 DEF Ordered, JobTypes, Job
      <4> QED
        BY <2>0, <4>2, <4>4
    <3>2. CASE UNCHANGED hub
      BY <2>0, <3>2
    <3> QED
      BY <2>3, <3>1, <3>2, JoinEndsStep
  <2>4. ASSUME NEW w \in Writers, ServerServes(w) PROVE hub'.version >= hub.version
    BY <2>0, <2>4 DEF ServerServes, HubTypes, Hub
  <2>5. CASE WatchBegins \/ ReloadRefuses
    <3>1. hub'.version = hub.version
      <4>1. CASE WatchBegins
        BY <4>1 DEF WatchBegins, HubTypes, Hub
      <4>2. CASE ReloadRefuses
        BY <4>2 DEF ReloadRefuses, HubTypes, Hub
      <4> QED
        BY <2>5, <4>1, <4>2
    <3> QED
      BY <2>0, <3>1
  <2>6. CASE ReloadEnds
    <3>1. reading.at = "loaded" /\ hub'.version = reading.version
      BY <2>6 DEF ReloadEnds, HubTypes, Hub
    <3>2. hub.version <= reading.version /\ reading.version \in Nat
      BY <3>1 DEF Ordered, HubTypes, Reading
    <3> QED
      BY <2>0, <3>1, <3>2
  <2>7. CASE HubEnds
    <3>1. hub.at # "down" /\ hub'.by = NoOne
      BY <2>7 DEF HubEnds, NoHub
    <3>2. hub.by \in Servers
      BY <3>1 DEF UnderWay
    <3> QED
      BY <3>1, <3>2, Nulls
  <2>8. ASSUME NEW w \in Writers, Take(w) \/ Write(w) \/ Rename(w) \/ ReplaceFails(w) \/ Killed(w)
        PROVE  UNCHANGED hub
    BY <2>8 DEF Take, Write, Rename, ReplaceFails, Killed
  <2>9. ASSUME NEW w \in Writers, Begin(w), ~(w \in Servers /\ ServerBegins(w))
        PROVE  UNCHANGED hub
    BY <2>9 DEF Begin, CommandBegins, InitBegins, JoinBegins
  <2>10. CASE ReloadReads \/ ReloadLoads \/ EditBreaks \/ EditEnds
    BY <2>1, <2>10 DEF ReloadReads, ReloadLoads, EditBreaks, EditEnds
  <2> HIDE DEF IInv, Types, Control
  <2> QED
    BY <2>1, <2>2, <2>3, <2>4, <2>5, <2>6, <2>7, <2>8, <2>9, <2>10, WritersAssumption
    DEF Next, Proceed, Reload
<1> QED
  BY <1>1, Invariant, PTL DEF Spec, HubNeverGoesBack

-----------------------------------------------------------------------------
(* OrgFile implements OrgRegister.                                         *)

\* The register makes the changes of Org.
LEMMA SameChanges == Register!Changes = Changes
  BY DEF Register!Changes, Changes, Register!Tokens, Tokens, Register!Team, Team,
         Register!FirstIds, FirstIds

LEMMA SameContent ==
  /\ Register!Content = Content /\ Register!Settled = Settled
  /\ \A o : Register!Sound(o) <=> Sound(o)
  /\ \A o : Register!Loads(o) <=> Loads(o)
  BY DEF Register!Content, Content, Register!Settled, Settled, Register!Sound, Sound,
         Register!Loads, Loads, Register!Member, Member, Register!Invite, Invite,
         Register!Tokens, Tokens, Register!NewInvite, NewInvite, Register!Team, Team,
         Register!IdsOf, IdsOf

LEMMA SameAllowed ==
  ASSUME NEW o, NEW c
  PROVE  Register!Allowed(o, c) <=> Allowed(o, c)
  BY DEF Register!Allowed, Allowed, Register!Loads, Loads, Register!Sound, Sound,
         Register!IdsOf, IdsOf, Register!Claimable, Claimable

LEMMA SameChanged ==
  ASSUME NEW o, NEW c, NEW w
  PROVE  Register!Changed(o, c, w) = Changed(o, c, w)
  BY DEF Register!Changed, Changed, Register!Founded, Founded, Register!Added, Added,
         Register!Claimed, Claimed, Register!Claimable, Claimable, Register!Used, Used,
         Register!FreeId, FreeId, Register!IdsOf, IdsOf, Register!Invited, Invited,
         Register!NewInvite, NewInvite, Register!Removed, Removed, Register!Withdrawn, Withdrawn

Outcomes == [w \in Writers |-> Outcome(w)]

LEMMA OutcomeOpen ==
  ASSUME JobTypes, MadeOnce, NEW w \in Writers, job[w].at \in {"new"} \cup Begun
  PROVE  Outcome(w) = "open"
<1>1. job[w].version = 0
  BY DEF MadeOnce, NotMade, Begun, Holding
<1>2. job[w].at \notin {"refused", "failed", "killed"}
  BY DEF Begun, Holding
<1> QED
  BY <1>1, <1>2 DEF Outcome

\* A writer that was under way gives up, or is made to.
LEMMA DeclineStep ==
  ASSUME JobTypes, MadeOnce, NEW w \in Writers, job[w].at \in {"new"} \cup Begun,
         job'[w].at \in {"refused", "failed", "killed"}, job'[w].version = job[w].version,
         \A u \in Writers \ {w} : Outcome(u)' = Outcome(u), UNCHANGED file
  PROVE  Register!Decline(w)
<1>1. Outcome(w) = "open"
  BY OutcomeOpen
<1>2. job'[w].version = 0
  BY DEF MadeOnce, NotMade, Begun, Holding
<1>3. Outcome(w)' = "not"
  BY <1>2 DEF Outcome
<1>4. Outcomes[w] = "open" /\ Outcomes' = [Outcomes EXCEPT ![w] = "not"]
  BY <1>1, <1>3 DEF Outcomes
<1> QED
  BY <1>4 DEF Register!Decline, Outcomes

\* A rename is the change, made to the org as it is.
LEMMA MakeStep ==
  ASSUME Types, Control, NEW w \in Writers, Rename(w)
  PROVE  Register!Make(w)
<1>1. /\ job[w].at = "renaming" /\ job[w].change \in Changes /\ Allowed(file, job[w].change)
      /\ file' = Changed(file, job[w].change, w)
      /\ version' = version + 1 /\ job'[w].version = version'
      /\ \A u \in Writers \ {w} : job'[u] = job[u]
  BY RenameStep DEF Types, Control
<1>2. Outcome(w) = "open"
  BY <1>1, OutcomeOpen DEF Types, Control, Begun, Holding
<1>3. Outcome(w)' = "made"
  <2>1. job'[w].version > 0
    BY <1>1 DEF Types, FileTypes
  <2> QED
    BY <2>1 DEF Outcome
<1>4. \A u \in Writers \ {w} : Outcome(u)' = Outcome(u)
  BY <1>1 DEF Outcome
<1>5. Outcomes[w] = "open" /\ Outcomes' = [Outcomes EXCEPT ![w] = "made"]
  BY <1>2, <1>3, <1>4 DEF Outcomes
<1>6. \E c \in Register!Changes :
        Register!Allowed(file, c) /\ file' = Register!Changed(file, c, w)
  BY <1>1, SameChanges, SameAllowed, SameChanged
<1> QED
  BY <1>5, <1>6 DEF Register!Make, Outcomes

\* The hub ends with at most one writer under way.
LEMMA HubEndsDeclines ==
  ASSUME Types, Control, HubEnds
  PROVE  (\E w \in Writers : Register!Decline(w)) \/ UNCHANGED <<file, Outcomes>>
<1> USE DEF Types, Control
<1>1. /\ \A w \in Writers :
           /\ job'[w].version = job[w].version
           /\ job'[w].at = IF OfTheHub(w) THEN "killed" ELSE job[w].at
      /\ file' = file
  BY HubEndsStep DEF HubEnds, fileVars
<1>2. hub.at # "down" /\ hub.by \in Servers
  BY DEF HubEnds, UnderWay
<1>3. \A w \in Writers : ~OfTheHub(w) => Outcome(w)' = Outcome(w)
  BY <1>1 DEF Outcome
<1>4. ASSUME NEW w \in Writers, job[w].at = "renamed" PROVE Outcome(w)' = Outcome(w)
  <2>1. job[w].version > 0 /\ job'[w].version > 0
    BY <1>1, <1>4 DEF MadeOnce
  <2> QED
    BY <2>1 DEF Outcome
<1>5. CASE \E w \in Writers : OfTheHub(w) /\ job[w].at \in Begun
  <2>1. PICK w \in Writers : OfTheHub(w) /\ job[w].at \in Begun
    BY <1>5
  <2>2. ASSUME NEW u \in Writers \ {w} PROVE ~OfTheHub(u)
    <3> SUFFICES ASSUME OfTheHub(u) PROVE FALSE
      OBVIOUS
    <3>1. w \in Joins \/ w = hub.by
      BY <2>1 DEF OfTheHub
    <3>2. u \in Joins \/ u = hub.by
      BY DEF OfTheHub
    <3>3. w \in Joins => mutex = w /\ hub.at \in {"serving", "watching"}
      BY <2>1 DEF UnderWay
    <3>4. u \in Joins => mutex = u /\ hub.at \in {"serving", "watching"}
      BY DEF UnderWay, OfTheHub, Begun, Holding
    <3>5. w = hub.by => hub.at = "starting"
      BY <1>2, <2>1 DEF UnderWay
    <3>6. u = hub.by /\ u \notin Joins => hub.at = "starting"
      BY <1>2 DEF UnderWay, OfTheHub, Begun, Holding
    <3> QED
      BY <3>1, <3>2, <3>3, <3>4, <3>5, <3>6
  <2>3. Register!Decline(w)
    BY <1>1, <1>3, <2>1, <2>2, DeclineStep
  <2> QED
    BY <2>3
<1>6. CASE \A w \in Writers : OfTheHub(w) => job[w].at \notin Begun
  <2>1. \A w \in Writers : OfTheHub(w) => job[w].at = "renamed"
    BY <1>6 DEF OfTheHub, Begun, Holding
  <2>2. \A w \in Writers : Outcome(w)' = Outcome(w)
    BY <1>3, <1>4, <2>1
  <2> QED
    BY <1>1, <2>2 DEF Outcomes
<1> QED
  BY <1>5, <1>6

LEMMA InitRegister == Init => Register!Init
<1> SUFFICES ASSUME Init PROVE Register!Init
  OBVIOUS
<1>1. file \in {NoFile, Register!Settled}
  BY SameContent DEF Init
<1>2. \A w \in Writers : Outcome(w) = "open"
  BY DEF Init, NoJob, Outcome
<1> QED
  BY <1>1, <1>2 DEF Register!Init

LEMMA StepRegister ==
  ASSUME IInv, [Next]_vars
  PROVE  [Register!Next]_<<file, Outcomes>>
<1>0. Types /\ Control
  BY DEF IInv
<1> USE DEF Types, Control
<1>1. ASSUME UNCHANGED <<file, job>> PROVE UNCHANGED <<file, Outcomes>>
  BY <1>1 DEF Outcomes, Outcome
<1>2. ASSUME NEW w \in Writers, Begin(w)
      PROVE  Register!Decline(w) \/ UNCHANGED <<file, Outcomes>>
  <2>1. /\ job[w].at = "new" /\ job'[w].at \in {"asking", "refused"}
        /\ job'[w].version = job[w].version /\ file' = file
        /\ \A u \in Writers \ {w} : job'[u] = job[u]
    BY <1>0, <1>2, BeginStep DEF fileVars
  <2>2. \A u \in Writers \ {w} : Outcome(u)' = Outcome(u)
    BY <2>1 DEF Outcome
  <2>3. CASE job'[w].at = "refused"
    BY <1>0, <2>1, <2>2, <2>3, DeclineStep
  <2>4. CASE job'[w].at = "asking"
    <3>1. job[w].version = 0
      BY <1>0, <2>1 DEF MadeOnce, NotMade
    <3>2. Outcome(w) = "open" /\ Outcome(w)' = "open"
      BY <2>1, <2>4, <3>1 DEF Outcome
    <3> QED
      BY <2>1, <2>2, <3>2 DEF Outcomes
  <2> QED
    BY <2>1, <2>3, <2>4
<1>3. ASSUME NEW w \in Writers, Take(w)
      PROVE  Register!Decline(w) \/ UNCHANGED <<file, Outcomes>>
  <2>1. /\ job[w].at = "asking" /\ job'[w].at \in {"writing", "refused"}
        /\ job'[w].version = job[w].version /\ file' = file
        /\ \A u \in Writers \ {w} : job'[u] = job[u]
    BY <1>0, <1>3, TakeStep DEF fileVars
  <2>2. \A u \in Writers \ {w} : Outcome(u)' = Outcome(u)
    BY <2>1 DEF Outcome
  <2>3. CASE job'[w].at = "refused"
    BY <1>0, <2>1, <2>2, <2>3, DeclineStep DEF Begun
  <2>4. CASE job'[w].at = "writing"
    <3>1. job[w].version = 0
      BY <1>0, <2>1 DEF MadeOnce, NotMade
    <3>2. Outcome(w) = "open" /\ Outcome(w)' = "open"
      BY <2>1, <2>4, <3>1 DEF Outcome
    <3> QED
      BY <2>1, <2>2, <3>2 DEF Outcomes
  <2> QED
    BY <2>1, <2>3, <2>4
<1>4. ASSUME NEW w \in Writers, Write(w) PROVE UNCHANGED <<file, Outcomes>>
  <2>1. /\ job[w].at = "writing" /\ job'[w].at = "renaming" /\ file' = file
        /\ job'[w].version = job[w].version
        /\ \A u \in Writers \ {w} : job'[u] = job[u]
    BY <1>0, <1>4, EndsAsStep DEF Write, Stages, fileVars
  <2>2. \A u \in Writers : Outcome(u)' = Outcome(u)
    BY <2>1 DEF Outcome
  <2> QED
    BY <2>1, <2>2 DEF Outcomes
<1>5. ASSUME NEW w \in Writers, Rename(w) PROVE Register!Make(w)
  BY <1>0, <1>5, MakeStep
<1>6. ASSUME NEW w \in Writers, JoinEnds(w) PROVE UNCHANGED <<file, Outcomes>>
  <2>1. CASE job[w].at = "renamed"
    <3>1. /\ job'[w].at = "done" /\ job'[w].version = job[w].version /\ file' = file
          /\ \A u \in Writers \ {w} : job'[u] = job[u]
      BY <1>0, <1>6, <2>1, JoinEndsStep DEF fileVars
    <3>2. \A u \in Writers : Outcome(u)' = Outcome(u)
      BY <2>1, <3>1 DEF Outcome
    <3> QED
      BY <3>1, <3>2 DEF Outcomes
  <2>2. CASE UNCHANGED job
    BY <1>1, <1>6, <2>2 DEF JoinEnds, fileVars
  <2> QED
    BY <1>0, <1>6, <2>1, <2>2, JoinEndsStep
<1>7. ASSUME NEW w \in Writers, ReplaceFails(w) \/ Killed(w) PROVE Register!Decline(w)
  <2>1. /\ job[w].at \in Begun /\ job'[w].at \in {"failed", "killed"}
        /\ job'[w].version = job[w].version /\ file' = file
        /\ \A u \in Writers \ {w} : job'[u] = job[u]
    BY <1>0, <1>7, FailStep DEF fileVars
  <2>2. \A u \in Writers \ {w} : Outcome(u)' = Outcome(u)
    BY <2>1 DEF Outcome
  <2> QED
    BY <1>0, <2>1, <2>2, DeclineStep
<1>8. ASSUME NEW w \in Writers, ServerServes(w) PROVE UNCHANGED <<file, Outcomes>>
  BY <1>1, <1>8 DEF ServerServes, fileVars
<1>9. CASE WatchBegins \/ Reload
  BY <1>1, <1>9 DEF WatchBegins, Reload, ReloadReads, ReloadLoads, ReloadRefuses, ReloadEnds,
                    fileVars
<1>10. CASE HubEnds
  BY <1>0, <1>10, HubEndsDeclines DEF Register!Next
<1>11. CASE EditBreaks
  <2>1. UNCHANGED Outcomes
    BY <1>11 DEF EditBreaks, Outcomes, Outcome
  <2>2. Register!Loads(file) /\ file' = Torn
    BY <1>11, SameContent DEF EditBreaks
  <2>3. Register!Break
    BY <2>1, <2>2 DEF Register!Break, Outcomes
  <2> QED
    BY <2>3 DEF Register!Next
<1>12. CASE EditEnds
  <2>1. UNCHANGED Outcomes
    BY <1>12 DEF EditEnds, Outcomes, Outcome
  <2>2. file = Torn /\ file' \in Orgs
    BY <1>0, <1>12, Nulls DEF EditEnds, TornByEdit
  <2>3. file' \in {o \in Register!Content : Register!Sound(o)}
    BY <2>2, SameContent DEF Orgs
  <2>4. Register!Mend
    BY <2>1, <2>2, <2>3 DEF Register!Mend, Outcomes
  <2> QED
    BY <2>4 DEF Register!Next
<1>13. CASE UNCHANGED vars
  BY <1>1, <1>13 DEF vars, fileVars
<1> HIDE DEF Types, Control
<1>14. CASE \E w \in Writers : Register!Decline(w) \/ Register!Make(w)
  BY <1>14 DEF Register!Next
<1> QED
  BY <1>2, <1>3, <1>4, <1>5, <1>6, <1>7, <1>8, <1>9, <1>10, <1>11, <1>12, <1>13, <1>14,
     WritersAssumption
  DEF Next, Proceed

\* No writer undoes another's change and none is half made: the file, locked,
\* written beside and renamed, is the register of OrgRegister.
THEOREM ImplementsRegister == Spec => RegisterSpec
<1>1. Init => Register!Init
  BY InitRegister
<1>2. IInv /\ [Next]_vars => [Register!Next]_<<file, Outcomes>>
  BY StepRegister
<1> QED
  BY <1>1, <1>2, Invariant, PTL DEF Spec, RegisterSpec, Register!Spec, Outcomes

=============================================================================
