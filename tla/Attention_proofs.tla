-------------------------- MODULE Attention_proofs --------------------------
(***************************************************************************)
(* The safety and action properties of Attention, for any agents, any      *)
(* number of refreshes under way and any browser.                          *)
(***************************************************************************)
EXTENDS Attention, FiniteSetTheorems, WellFoundedInduction, TLAPS

-----------------------------------------------------------------------------
(* The inductive invariant.                                                *)

Lists == [Agents -> Rows]
Refreshes ==
  [stage : {"idle", "sent"}]
    \cup [stage : {"answered"}, kind : {"ok"}, rows : Lists]
    \cup [stage : {"answered"}, kind : {"unauthorized"}]
    \cup [stage : {"reading"}, rows : Lists]

HubTypes ==
  /\ screen \in [Agents -> {"busy", "dialog"}]
  /\ asked \in [Agents -> 0..MaxAsked]
  /\ link \in [Agents -> {"live", "dark", "gone"}]
  /\ session \in BOOLEAN
BrowserTypes ==
  /\ browser \in Browsers /\ permission \in Permissions /\ storage \in StorageValues
  /\ watched \in Agents \cup {None} /\ prompts \in Nat
  /\ enabled \in BOOLEAN /\ pending \in BOOLEAN
  /\ unavailable \in BOOLEAN /\ disabled \in BOOLEAN
AlertTypes ==
  /\ desktop \in [Agents -> NoticeIds \cup {None}]
  /\ notices \in [Agents -> NoticeIds \cup {None}]
  /\ episodes \subseteq Agents /\ ready \in BOOLEAN
  /\ title \in 0..Cardinality(Agents)
  /\ past \in [Agents -> {"none", "old", "alerted"}]
ClickTypes ==
  /\ clicks \subseteq Agents \X NoticeIds
  /\ IsFiniteSet(clicks) /\ Cardinality(clicks) <= MaxClicks
FetchTypes ==
  /\ signedIn \in BOOLEAN /\ refreshRun \in Requests \cup {None}
  /\ shown \in Lists /\ request \in [Requests -> Refreshes]
Types == HubTypes /\ BrowserTypes /\ AlertTypes /\ ClickTypes /\ FetchTypes

\* A notice that is up is the one the page holds for its agent; and the page
\* holds one, up or dismissed, only while the list it shows has the question.
Held ==
  \A a \in Agents :
    /\ desktop[a] \in {None, notices[a]}
    /\ notices[a] # None => shown[a].state = "dialog" /\ ready /\ a \in episodes

\* A question there was an alert for is one whose episode is open.
Remembered == \A a \in Agents : past[a] = "alerted" => a \in episodes

\* What the page shows, and the newest refresh brings, is no older than what
\* there was, and no newer than what there is.
Has(r) == request[r].stage = "reading"
            \/ (request[r].stage = "answered" /\ request[r].kind = "ok")
Ordered ==
  /\ \A a \in Agents : shown[a].asked <= asked[a]
  /\ refreshRun \in Requests /\ Has(refreshRun) =>
       \A a \in Agents : /\ shown[a].asked <= request[refreshRun].rows[a].asked
                         /\ request[refreshRun].rows[a].asked <= asked[a]

\* The button is disabled while the browser asks.
Prompted == OnePrompt /\ (pending => disabled)

IInv == Types /\ Held /\ Remembered /\ Ordered /\ Prompted /\ ChoiceIsSaved

-----------------------------------------------------------------------------
(* Numbers for notices.                                                    *)

LEMMA Constants ==
  /\ MaxAsked \in Nat /\ MaxAsked >= 1 /\ MaxClicks \in Nat /\ IsFiniteSet(Agents)
  /\ NoticeIds \subseteq Nat /\ Cardinality(NoticeIds) > MaxClicks + 1
  /\ None \notin NoticeIds /\ None \notin Nat
  /\ Permissions \subseteq PermissionValues /\ Storages \subseteq StorageValues
  <1>1. MaxAsked \in Nat /\ MaxAsked >= 1 /\ MaxClicks \in Nat /\ IsFiniteSet(Agents)
    BY BoundsAssumption
  <1> QED BY <1>1, NoticeIdsSuffice, NoneAssumption, BrowserAssumption

\* A set of natural numbers has a least element.
LEMMA LeastOf ==
  ASSUME NEW S \in SUBSET Nat, S # {}
  PROVE  \E n \in S : \A k \in S : n <= k
  <1> DEFINE Less == OpToRel(<, Nat)
  <1>1. IsWellFoundedOn(Less, Nat)
    BY NatLessThanWellFounded
  <1>2. \A x, y \in Nat : <<x, y>> \in Less <=> x < y
    BY DEF OpToRel
  <1> HIDE DEF Less
  <1>3. PICK n \in S : \A k \in S : ~ (<<k, n>> \in Less)
    BY <1>1, WFMin
  <1>4. \A k \in S : ~ (k < n)
    BY <1>2, <1>3
  <1> QED BY <1>4

\* There is always a number for a new notice: the clicks that wait and the one
\* notice that the page holds of the agent leave some free.
LEMMA FreshIdIsFree ==
  ASSUME Types, Held, NEW a \in Agents
  PROVE  /\ FreshId(a) \in NoticeIds
         /\ FreshId(a) # notices[a] /\ <<a, FreshId(a)>> \notin clicks
  <1> DEFINE free == {k \in NoticeIds : k # notices[a] /\ k # desktop[a]
                                        /\ <<a, k>> \notin clicks}
             used == {n[2] : n \in clicks}
             f == [n \in clicks |-> n[2]]
  <1>1. IsFiniteSet(used) /\ Cardinality(used) <= MaxClicks /\ Cardinality(used) \in Nat
    <2>1. f \in Surjection(clicks, used)
      BY DEF Surjection
    <2>2. IsFiniteSet(clicks) /\ Cardinality(clicks) <= MaxClicks /\ Cardinality(clicks) \in Nat
      BY FS_CardinalityType DEF Types, ClickTypes
    <2> HIDE DEF f, used
    <2>3. IsFiniteSet(used) /\ Cardinality(used) <= Cardinality(clicks)
      BY <2>1, <2>2, FS_Surjection
    <2>4. Cardinality(used) \in Nat
      BY <2>3, FS_CardinalityType
    <2> QED BY <2>2, <2>3, <2>4, Constants
  <1>2. free # {}
    <2> SUFFICES ASSUME free = {} PROVE FALSE
      OBVIOUS
    <2> DEFINE T == used \cup {notices[a]}
    <2>1. NoticeIds \in SUBSET T
      <3> SUFFICES ASSUME NEW k \in NoticeIds, k \notin T PROVE FALSE
        OBVIOUS
      <3>1. k # notices[a] /\ k # desktop[a]
        BY Constants DEF Held
      <3>2. <<a, k>> \notin clicks
        <4>1. <<a, k>>[2] = k
          OBVIOUS
        <4> QED BY <4>1
      <3> QED BY <3>1, <3>2
    <2> HIDE DEF used
    <2>2. IsFiniteSet(T) /\ Cardinality(T) <= MaxClicks + 1 /\ Cardinality(T) \in Nat
      <3>1. /\ IsFiniteSet(T)
            /\ Cardinality(T) = IF notices[a] \in used THEN Cardinality(used)
                                ELSE Cardinality(used) + 1
        BY <1>1, FS_AddElement
      <3> QED BY <1>1, <3>1, Constants
    <2> HIDE DEF T
    <2>3. Cardinality(NoticeIds) <= Cardinality(T) /\ IsFiniteSet(NoticeIds)
      BY <2>1, <2>2, FS_Subset
    <2>4. Cardinality(NoticeIds) \in Nat
      BY <2>3, FS_CardinalityType
    <2> QED BY <2>2, <2>3, <2>4, Constants
  <1>3. PICK k \in free : \A j \in free : k <= j
    <2>1. free \in SUBSET Nat
      BY Constants
    <2> HIDE DEF free
    <2> QED BY <1>2, <2>1, LeastOf
  <1>4. FreshId(a) = CHOOSE x \in free : \A j \in free : x <= j
    BY DEF FreshId
  <1> HIDE DEF free
  <1>5. FreshId(a) \in free
    BY <1>3, <1>4
  <1> QED BY <1>5 DEF free

-----------------------------------------------------------------------------
(* Closing notices, and applying a list.                                   *)

LEMMA CloseStep ==
  ASSUME Types, Held, NEW As \in SUBSET Agents, Close(As)
  PROVE  /\ notices' \in [Agents -> NoticeIds \cup {None}]
         /\ desktop' \in [Agents -> NoticeIds \cup {None}]
         /\ \A a \in As : notices'[a] = None /\ desktop'[a] = None
         /\ \A a \in Agents \ As : notices'[a] = notices[a] /\ desktop'[a] = desktop[a]
  BY DEF Types, AlertTypes, Held, Close

LEMMA ResetStep ==
  ASSUME Types, Held, ResetAlerts
  PROVE  /\ notices' = [a \in Agents |-> None] /\ desktop' = [a \in Agents |-> None]
         /\ episodes' = {} /\ ready' = FALSE /\ title' = 0
         /\ past' \in [Agents -> {"none", "old", "alerted"}]
         /\ \A a \in Agents : past'[a] # "alerted"
  <1>1. notices' = [a \in Agents |-> None] /\ desktop' = [a \in Agents |-> None]
    BY DEF ResetAlerts, Close, Types, AlertTypes, Held
  <1> QED BY <1>1 DEF ResetAlerts, Types, AlertTypes

\* What a list does to each agent's notice: a new one is shown, the one there
\* is is closed, or nothing happens.
LEMMA AppliedStep ==
  ASSUME Types, Held, NEW r \in Requests, Applied(r)
  PROVE  /\ request[r].stage = "reading" /\ r = refreshRun
         /\ shown' = request[r].rows /\ request[r].rows \in Lists
         /\ request' = [request EXCEPT ![r] = Idle]
         /\ UNCHANGED <<hubVars, browserVars, enabled, pending, storage, signedIn,
                        refreshRun, clicks>>
         /\ episodes' = EpisodesAfter(shown') /\ ready' = TRUE
         /\ title' = Waiting(shown')
         /\ unavailable' \in BOOLEAN /\ disabled' \in BOOLEAN /\ (pending => disabled')
         /\ notices' \in [Agents -> NoticeIds \cup {None}]
         /\ desktop' \in [Agents -> NoticeIds \cup {None}]
         /\ past' \in [Agents -> {"none", "old", "alerted"}]
         /\ \A a \in Agents :
              \/ /\ a \in Asking(shown') \ episodes
                 /\ notices'[a] # None /\ desktop'[a] = notices'[a]
                 /\ past'[a] = "alerted"
              \/ /\ notices'[a] = None /\ desktop'[a] = None
                 /\ past'[a] = "alerted" => past[a] = "alerted" /\ shown'[a].state \in {"dialog", "unclear"}
              \/ /\ notices'[a] = notices[a] /\ desktop'[a] = desktop[a]
                 /\ a \notin Closing(shown')
                 /\ past'[a] = "alerted" => past[a] = "alerted" /\ shown'[a].state \in {"dialog", "unclear"}
  <1> DEFINE rows == request[r].rows
             off == Disabled(permission, pending, unavailable)
             wanted == Alerting(rows, off)
             new == IF browser = "noConstructor" THEN {} ELSE wanted
  <1>1. /\ request[r].stage = "reading" /\ r = refreshRun /\ shown' = rows
        /\ request' = [request EXCEPT ![r] = Idle]
        /\ UNCHANGED <<hubVars, browserVars, enabled, pending, storage, signedIn,
                       refreshRun, clicks>>
    BY DEF Applied
  <1>2. rows \in Lists
    BY <1>1 DEF Types, FetchTypes, Refreshes
  <1>3. /\ notices' = [a \in Agents |-> IF a \in new THEN FreshId(a)
                                        ELSE IF a \in Closing(rows) THEN None
                                        ELSE notices[a]]
        /\ desktop' = [a \in Agents |->
                          IF a \in new THEN FreshId(a)
                          ELSE IF a \in Closing(rows) /\ desktop[a] = notices[a] THEN None
                          ELSE desktop[a]]
        /\ episodes' = EpisodesAfter(rows)
        /\ unavailable' = (unavailable \/ wanted # new)
        /\ disabled' = (off \/ wanted # new)
        /\ title' = Waiting(rows)
        /\ ready' = TRUE
        /\ past' = PastAfter(rows, new)
    BY DEF Applied, Update
  <1>4. new \subseteq Asking(rows) \ episodes /\ new \subseteq Agents
    BY DEF Alerting, Asking
  <1>5. unavailable' \in BOOLEAN /\ disabled' \in BOOLEAN /\ (pending => disabled')
    BY <1>3 DEF Disabled
  <1> HIDE DEF new, off, wanted
  <1>6. \A a \in Agents : FreshId(a) \in NoticeIds /\ FreshId(a) # None
    BY FreshIdIsFree, Constants
  <1>7. /\ notices' \in [Agents -> NoticeIds \cup {None}]
        /\ desktop' \in [Agents -> NoticeIds \cup {None}]
    BY <1>3, <1>6 DEF Types, AlertTypes
  <1>8. past' \in [Agents -> {"none", "old", "alerted"}]
    BY <1>3 DEF Types, AlertTypes, PastAfter
  <1>9. ASSUME NEW a \in Agents
        PROVE  \/ /\ a \in Asking(rows) \ episodes
                  /\ notices'[a] # None /\ desktop'[a] = notices'[a]
                  /\ past'[a] = "alerted"
               \/ /\ notices'[a] = None /\ desktop'[a] = None
                  /\ past'[a] = "alerted" => past[a] = "alerted" /\ rows[a].state \in {"dialog", "unclear"}
               \/ /\ notices'[a] = notices[a] /\ desktop'[a] = desktop[a]
                  /\ a \notin Closing(rows)
                  /\ past'[a] = "alerted" => past[a] = "alerted" /\ rows[a].state \in {"dialog", "unclear"}
    <2>1. CASE a \in new
      <3>1. past'[a] = "alerted"
        <4>1. rows[a].state = "dialog"
          BY <1>4, <2>1 DEF Asking
        <4> QED BY <1>3, <2>1, <4>1 DEF PastAfter
      <3>2. notices'[a] = FreshId(a) /\ desktop'[a] = FreshId(a)
        BY <1>3, <2>1
      <3> QED BY <1>4, <1>6, <2>1, <3>1, <3>2
    <2>2. CASE a \notin new
      <3>1. past'[a] = "alerted" => past[a] = "alerted" /\ rows[a].state \in {"dialog", "unclear"}
        <4>1. rows[a].state \in {"absent", "unclear", "busy", "dialog"}
          BY <1>2 DEF Lists, Rows
        <4>2. past'[a] = CASE rows[a].state = "busy"                          -> "none"
                           [] rows[a].state = "absent" /\ past[a] = "alerted" -> "none"
                           [] OTHER                                           -> past[a]
          BY <1>3, <2>2 DEF PastAfter
        <4> QED BY <4>1, <4>2
      <3>2. CASE a \in Closing(rows)
        <4>1. notices'[a] = None /\ desktop'[a] = None
          BY <1>3, <2>2, <3>2 DEF Held
        <4> QED BY <3>1, <4>1
      <3>3. CASE a \notin Closing(rows)
        BY <1>3, <2>2, <3>1, <3>3
      <3> QED BY <3>2, <3>3
    <2> QED BY <2>1, <2>2
  <1> QED BY <1>1, <1>2, <1>3, <1>5, <1>7, <1>8, <1>9

-----------------------------------------------------------------------------
(* What each kind of step leaves alone.                                    *)

\* A refresh moves on, short of being applied.
Fetching(r) == Refresh(r) \/ HubAnswers(r) \/ RefreshFails(r) \/ Overtaken(r) \/ Answered(r)

\* The button works, with no notice to close.
Toggling == ToggleOn \/ ToggleAsks \/ PromptAnswered \/ PromptFails

\* The world goes on.
Outside ==
  Look \/ PermissionChanges \/ SessionEnds \/ \E a \in Agents : AgentAsks(a) \/ LinkChanges(a)

LEMMA Kinds ==
  ASSUME [Next]_vars
  PROVE  \/ Load \/ Reset
         \/ \E r \in Requests : Fetching(r) \/ SignedOut(r) \/ Applied(r)
         \/ ToggleOff \/ Toggling \/ NoticeFails \/ Outside
         \/ \E n \in clicks : OpenAgent(n)
         \/ \E a \in Agents : ClickNotice(a) \/ DismissNotice(a) \/ AgentGoesOn(a)
         \/ UNCHANGED vars
  BY DEF Next, Route, Tick, Fetching, Toggling, Outside

LEMMA FetchingFrame ==
  ASSUME NEW r \in Requests, Fetching(r)
  PROVE  UNCHANGED <<hubVars, browserVars, alertVars, toggleVars, shown, clicks>>
  BY DEF Fetching, Refresh, HubAnswers, RefreshFails, Overtaken, Answered

LEMMA TogglingFrame ==
  ASSUME Toggling
  PROVE  UNCHANGED <<hubVars, browser, watched, alertVars, fetchVars, clicks>>
  BY DEF Toggling, ToggleOn, ToggleAsks, PromptAnswered, PromptFails, browserVars

LEMMA OutsideFrame ==
  ASSUME Outside
  PROVE  UNCHANGED <<browser, prompts, alertVars, toggleVars, fetchVars, clicks>>
  BY DEF Outside, Look, PermissionChanges, SessionEnds, AgentAsks, LinkChanges, browserVars

-----------------------------------------------------------------------------
(* Every step keeps the types.                                             *)

LEMMA HubTypesStep ==
  ASSUME Types, Held, [Next]_vars
  PROVE  HubTypes'
  <1> USE DEF Types, HubTypes, hubVars
  <1>1. ASSUME NEW r \in Requests, Fetching(r) PROVE HubTypes'
    BY <1>1, FetchingFrame
  <1>2. ASSUME NEW r \in Requests, SignedOut(r) \/ Applied(r) PROVE HubTypes'
    BY <1>2 DEF SignedOut, Applied
  <1>3. CASE Toggling
    BY <1>3, TogglingFrame
  <1>4. CASE Reset \/ ToggleOff \/ NoticeFails
    BY <1>4 DEF Reset, ToggleOff, NoticeFails
  <1>5. ASSUME NEW n \in clicks, OpenAgent(n) PROVE HubTypes'
    BY <1>5 DEF OpenAgent
  <1>6. ASSUME NEW a \in Agents, ClickNotice(a) \/ DismissNotice(a) PROVE HubTypes'
    BY <1>6 DEF ClickNotice, DismissNotice
  <1>7. ASSUME NEW a \in Agents, AgentGoesOn(a) PROVE HubTypes'
    BY <1>7 DEF AgentGoesOn
  <1>8. ASSUME NEW a \in Agents, AgentAsks(a) PROVE HubTypes'
    BY <1>8, Constants DEF AgentAsks
  <1>9. ASSUME NEW a \in Agents, LinkChanges(a) PROVE HubTypes'
    BY <1>9 DEF LinkChanges
  <1>10. CASE Load
    BY <1>10 DEF Load
  <1>11. CASE Look \/ PermissionChanges \/ SessionEnds
    BY <1>11 DEF Look, PermissionChanges, SessionEnds
  <1>12. CASE UNCHANGED vars
    BY <1>12 DEF vars
  <1> QED BY Kinds, <1>1, <1>2, <1>3, <1>4, <1>5, <1>6, <1>7, <1>8, <1>9, <1>10, <1>11, <1>12
          DEF Outside

LEMMA BrowserTypesStep ==
  ASSUME Types, Held, Prompted, [Next]_vars
  PROVE  BrowserTypes'
  <1> USE DEF Types, BrowserTypes, browserVars, toggleVars
  <1>1. ASSUME NEW r \in Requests, Fetching(r) PROVE BrowserTypes'
    BY <1>1, FetchingFrame
  <1>2. ASSUME NEW r \in Requests, SignedOut(r) PROVE BrowserTypes'
    BY <1>2 DEF SignedOut
  <1>3. ASSUME NEW r \in Requests, Applied(r) PROVE BrowserTypes'
    <2>1. unavailable' \in BOOLEAN /\ disabled' \in BOOLEAN
          /\ UNCHANGED <<browser, permission, watched, prompts, enabled, pending, storage>>
      BY <1>3, AppliedStep
    <2> QED BY <2>1
  <1>4. ASSUME storage' = IF storage = "blocked" THEN storage
                          ELSE IF enabled' THEN "on" ELSE "off"
        PROVE  storage' \in StorageValues
    BY <1>4 DEF StorageValues
  <1>5. ASSUME Render PROVE disabled' \in BOOLEAN
    BY <1>5 DEF Render, Disabled
  <1>6. CASE ToggleOn
    BY <1>4, <1>5, <1>6 DEF ToggleOn, Save
  <1>7. CASE ToggleAsks
    BY <1>5, <1>7 DEF ToggleAsks
  <1>8. CASE PromptAnswered
    <2>1. prompts - 1 \in Nat
      BY <1>8 DEF PromptAnswered
    <2>2. permission' \in Permissions
      BY <1>8 DEF PromptAnswered
    <2>3. enabled' \in BOOLEAN
      BY <1>8 DEF PromptAnswered
    <2> QED BY <1>4, <1>5, <1>8, <2>1, <2>2, <2>3 DEF PromptAnswered, Save
  <1>9. CASE PromptFails
    <2>1. prompts - 1 \in Nat
      BY <1>9 DEF PromptFails
    <2> QED BY <1>4, <1>5, <1>9, <2>1 DEF PromptFails, Save
  <1>10. CASE ToggleOff
    BY <1>4, <1>5, <1>10 DEF ToggleOff, Save
  <1>11. CASE NoticeFails
    BY <1>5, <1>11 DEF NoticeFails
  <1>12. CASE Reset
    BY <1>12 DEF Reset
  <1>13. CASE Load
    BY <1>13 DEF Load, Fresh, Disabled
  <1>14. ASSUME NEW n \in clicks, OpenAgent(n) PROVE BrowserTypes'
    <2>1. n[1] \in Agents
      BY DEF ClickTypes
    <2>2. watched' \in Agents \cup {None}
      BY <1>14, <2>1 DEF OpenAgent
    <2> QED BY <1>14, <2>2 DEF OpenAgent
  <1>15. ASSUME NEW a \in Agents, ClickNotice(a) \/ DismissNotice(a) \/ AgentGoesOn(a)
         PROVE  BrowserTypes'
    BY <1>15 DEF ClickNotice, DismissNotice, AgentGoesOn
  <1>16. CASE Outside
    <2>1. watched' \in Agents \cup {None} /\ permission' \in Permissions
          /\ UNCHANGED <<browser, prompts, toggleVars>>
      BY <1>16, OutsideFrame
         DEF Outside, Look, PermissionChanges, SessionEnds, AgentAsks, LinkChanges
    <2> QED BY <2>1
  <1>17. CASE UNCHANGED vars
    BY <1>17 DEF vars
  <1> QED BY Kinds, <1>1, <1>2, <1>3, <1>6, <1>7, <1>8, <1>9, <1>10, <1>11, <1>12, <1>13, <1>14,
             <1>15, <1>16, <1>17 DEF Toggling

LEMMA WaitingTypes ==
  ASSUME NEW rows \in Lists
  PROVE  Waiting(rows) \in 0..Cardinality(Agents)
  <1>1. Asking(rows) \in SUBSET Agents
    BY DEF Asking
  <1>2. /\ IsFiniteSet(Asking(rows)) /\ Cardinality(Asking(rows)) <= Cardinality(Agents)
    BY <1>1, FS_Subset, Constants
  <1>3. Cardinality(Asking(rows)) \in Nat /\ Cardinality(Agents) \in Nat
    BY <1>2, FS_CardinalityType, Constants
  <1> QED BY <1>2, <1>3 DEF Waiting

LEMMA AlertTypesStep ==
  ASSUME Types, Held, [Next]_vars
  PROVE  AlertTypes'
  <1> USE DEF Types, AlertTypes, alertVars
  <1>0. 0 \in 0..Cardinality(Agents)
    BY FS_CardinalityType, Constants
  <1>1. ASSUME NEW r \in Requests, Fetching(r) PROVE AlertTypes'
    BY <1>1, FetchingFrame
  <1>2. ASSUME ResetAlerts PROVE AlertTypes'
    BY <1>0, <1>2, ResetStep
  <1>3. ASSUME NEW r \in Requests, SignedOut(r) PROVE AlertTypes'
    BY <1>2, <1>3 DEF SignedOut
  <1>4. CASE Reset
    BY <1>2, <1>4 DEF Reset
  <1>5. ASSUME NEW r \in Requests, Applied(r) PROVE AlertTypes'
    <2>1. shown' \in Lists /\ episodes' = EpisodesAfter(shown') /\ ready' = TRUE
          /\ title' = Waiting(shown')
          /\ notices' \in [Agents -> NoticeIds \cup {None}]
          /\ desktop' \in [Agents -> NoticeIds \cup {None}]
          /\ past' \in [Agents -> {"none", "old", "alerted"}]
      BY <1>5, AppliedStep
    <2>2. EpisodesAfter(shown') \subseteq Agents
      BY DEF EpisodesAfter, Asking
    <2> QED BY <2>1, <2>2, WaitingTypes
  <1>6. ASSUME NEW As \in SUBSET Agents, Close(As), UNCHANGED <<ready, episodes, title, past>>
        PROVE  AlertTypes'
    BY <1>6, CloseStep
  <1>7. CASE ToggleOff \/ NoticeFails
    BY <1>6, <1>7 DEF ToggleOff, NoticeFails
  <1>8. CASE Load
    <2>1. notices' \in [Agents -> NoticeIds \cup {None}]
          /\ desktop' \in [Agents -> NoticeIds \cup {None}]
      BY <1>8, CloseStep DEF Load
    <2>2. past' \in [Agents -> {"none", "old", "alerted"}]
      BY <1>8 DEF Load, Fresh, PastAtLoad
    <2> QED BY <1>0, <1>8, <2>1, <2>2 DEF Load, Fresh
  <1>9. ASSUME NEW n \in clicks, OpenAgent(n) PROVE AlertTypes'
    <2>1. {n[1]} \in SUBSET Agents
      BY DEF ClickTypes
    <2> QED BY <1>6, <1>9, <2>1 DEF OpenAgent
  <1>10. ASSUME NEW a \in Agents, ClickNotice(a) PROVE AlertTypes'
    BY <1>10 DEF ClickNotice
  <1>11. ASSUME NEW a \in Agents, DismissNotice(a) PROVE AlertTypes'
    BY <1>11 DEF DismissNotice
  <1>12. ASSUME NEW a \in Agents, AgentGoesOn(a) PROVE AlertTypes'
    BY <1>12 DEF AgentGoesOn
  <1>13. CASE Toggling
    BY <1>13, TogglingFrame
  <1>14. CASE Outside
    BY <1>14, OutsideFrame
  <1>15. CASE UNCHANGED vars
    BY <1>15 DEF vars
  <1> QED BY Kinds, <1>1, <1>3, <1>4, <1>5, <1>7, <1>8, <1>9, <1>10, <1>11, <1>12, <1>13, <1>14,
             <1>15

LEMMA ClickTypesStep ==
  ASSUME Types, Held, [Next]_vars
  PROVE  ClickTypes'
  <1>0. /\ clicks \subseteq Agents \X NoticeIds /\ IsFiniteSet(clicks)
        /\ Cardinality(clicks) <= MaxClicks /\ Cardinality(clicks) \in Nat
    BY FS_CardinalityType DEF Types, ClickTypes
  <1>1. ASSUME clicks' = clicks PROVE ClickTypes'
    BY <1>0, <1>1 DEF ClickTypes
  <1>2. CASE Load
    BY <1>2, FS_EmptySet, Constants DEF Load, ClickTypes
  <1>3. ASSUME NEW n \in clicks, OpenAgent(n) PROVE ClickTypes'
    <2>1. clicks' \in SUBSET clicks
      BY <1>3 DEF OpenAgent
    <2>2. IsFiniteSet(clicks') /\ Cardinality(clicks') <= Cardinality(clicks)
      BY <1>0, <2>1, FS_Subset
    <2>3. Cardinality(clicks') \in Nat
      BY <2>2, FS_CardinalityType
    <2> QED BY <1>0, <2>1, <2>2, <2>3, Constants DEF ClickTypes
  <1>4. ASSUME NEW a \in Agents, ClickNotice(a) PROVE ClickTypes'
    <2>1. /\ clicks' = clicks \cup {<<a, desktop[a]>>} /\ desktop[a] \in NoticeIds
          /\ Cardinality(clicks) < MaxClicks
      BY <1>4 DEF ClickNotice, Types, AlertTypes
    <2>2. /\ IsFiniteSet(clicks \cup {<<a, desktop[a]>>})
          /\ Cardinality(clicks \cup {<<a, desktop[a]>>})
               = IF <<a, desktop[a]>> \in clicks THEN Cardinality(clicks)
                 ELSE Cardinality(clicks) + 1
      BY <1>0, FS_AddElement
    <2>3. Cardinality(clicks') <= MaxClicks
      BY <1>0, <2>1, <2>2, Constants
    <2> QED BY <1>0, <2>1, <2>2, <2>3 DEF ClickTypes
  <1>5. ASSUME NEW r \in Requests, Fetching(r) \/ SignedOut(r) \/ Applied(r) PROVE clicks' = clicks
    BY <1>5, FetchingFrame DEF SignedOut, Applied
  <1>6. CASE Reset \/ ToggleOff \/ NoticeFails
    BY <1>1, <1>6 DEF Reset, ToggleOff, NoticeFails
  <1>7. CASE Toggling
    BY <1>1, <1>7, TogglingFrame
  <1>8. CASE Outside
    BY <1>1, <1>8, OutsideFrame
  <1>9. ASSUME NEW a \in Agents, DismissNotice(a) \/ AgentGoesOn(a) PROVE clicks' = clicks
    BY <1>9 DEF DismissNotice, AgentGoesOn
  <1>10. CASE UNCHANGED vars
    BY <1>1, <1>10 DEF vars
  <1> QED BY Kinds, <1>1, <1>2, <1>3, <1>4, <1>5, <1>6, <1>7, <1>8, <1>9, <1>10

LEMMA ListTypes ==
  ASSUME HubTypes
  PROVE  /\ Snapshot \in Lists /\ Blank \in Lists
         /\ \A a \in Agents : Snapshot[a].asked = asked[a] /\ Blank[a].asked = 0
  <1>1. \A a \in Agents :
          (CASE link[a] = "gone" -> "absent" [] link[a] = "dark" -> "unclear"
             [] OTHER -> screen[a]) \in {"absent", "unclear", "busy", "dialog"}
    BY DEF HubTypes
  <1> QED BY <1>1, Constants DEF HubTypes, Snapshot, Blank, Lists, Rows

LEMMA FetchTypesStep ==
  ASSUME Types, Held, [Next]_vars
  PROVE  FetchTypes'
  <1> USE DEF FetchTypes, fetchVars
  <1>0. /\ HubTypes /\ Snapshot \in Lists /\ Blank \in Lists
        /\ Idle \in Refreshes /\ [stage |-> "sent"] \in Refreshes
    BY ListTypes DEF Types, Idle, Refreshes
  <1>1. ASSUME NEW r \in Requests, Refresh(r) PROVE FetchTypes'
    BY <1>0, <1>1 DEF Refresh, Types
  <1>2. ASSUME NEW r \in Requests, HubAnswers(r) PROVE FetchTypes'
    <2>1. /\ [stage |-> "answered", kind |-> "ok", rows |-> Snapshot] \in Refreshes
          /\ [stage |-> "answered", kind |-> "unauthorized"] \in Refreshes
      BY <1>0 DEF Refreshes
    <2> QED BY <1>2, <2>1 DEF HubAnswers, Types
  <1>3. ASSUME NEW r \in Requests, RefreshFails(r) PROVE FetchTypes'
    <2>1. signedIn' \in BOOLEAN
      BY <1>3 DEF RefreshFails, Types
    <2> QED BY <1>0, <1>3, <2>1 DEF RefreshFails, Types
  <1>4. ASSUME NEW r \in Requests, Overtaken(r) PROVE FetchTypes'
    BY <1>0, <1>4 DEF Overtaken, Types
  <1>5. ASSUME NEW r \in Requests, SignedOut(r) PROVE FetchTypes'
    BY <1>0, <1>5 DEF SignedOut, Types
  <1>6. ASSUME NEW r \in Requests, Answered(r) PROVE FetchTypes'
    <2>1. request[r].rows \in Lists
      BY <1>6 DEF Answered, Types, Refreshes
    <2>2. [stage |-> "reading", rows |-> request[r].rows] \in Refreshes
      BY <2>1 DEF Refreshes
    <2> QED BY <1>6, <2>2 DEF Answered, Types
  <1>7. ASSUME NEW r \in Requests, Applied(r) PROVE FetchTypes'
    <2>1. /\ shown' \in Lists /\ request' = [request EXCEPT ![r] = Idle]
          /\ UNCHANGED <<signedIn, refreshRun>>
      BY <1>7, AppliedStep
    <2> QED BY <1>0, <2>1 DEF Types
  <1>8. CASE Load
    <2>1. PICK r \in Requests : /\ refreshRun' = r
                                /\ request' = [s \in Requests |-> IF s = r THEN [stage |-> "sent"]
                                                                  ELSE Idle]
      BY <1>8 DEF Load, Fresh
    <2> QED BY <1>0, <1>8, <2>1 DEF Load, Fresh
  <1>9. ASSUME UNCHANGED fetchVars PROVE FetchTypes'
    BY <1>9 DEF Types
  <1>10. CASE Reset \/ ToggleOff \/ NoticeFails
    BY <1>9, <1>10 DEF Reset, ToggleOff, NoticeFails
  <1>11. CASE Toggling
    BY <1>9, <1>11, TogglingFrame
  <1>12. CASE Outside
    BY <1>9, <1>12, OutsideFrame
  <1>13. ASSUME NEW n \in clicks, OpenAgent(n) PROVE FetchTypes'
    BY <1>9, <1>13 DEF OpenAgent
  <1>14. ASSUME NEW a \in Agents, ClickNotice(a) \/ DismissNotice(a) \/ AgentGoesOn(a)
         PROVE  FetchTypes'
    BY <1>9, <1>14 DEF ClickNotice, DismissNotice, AgentGoesOn
  <1>15. CASE UNCHANGED vars
    BY <1>9, <1>15 DEF vars
  <1> QED BY Kinds, <1>1, <1>2, <1>3, <1>4, <1>5, <1>6, <1>7, <1>8, <1>10, <1>11, <1>12, <1>13,
             <1>14, <1>15 DEF Fetching

-----------------------------------------------------------------------------
(* Every step keeps the notices in hand.                                   *)

LEMMA HeldStep ==
  ASSUME Types, Held, [Next]_vars
  PROVE  Held'
  <1>1. ASSUME UNCHANGED <<desktop, notices, shown, ready, episodes>> PROVE Held'
    BY <1>1 DEF Held
  <1>2. ASSUME NEW As \in SUBSET Agents, Close(As), UNCHANGED <<shown, ready, episodes>>
        PROVE  Held'
    BY <1>2, CloseStep DEF Held
  <1>3. ASSUME ResetAlerts PROVE Held'
    BY <1>3, ResetStep DEF Held
  <1>4. ASSUME NEW r \in Requests, Applied(r) PROVE Held'
    <2> SUFFICES ASSUME NEW a \in Agents
                 PROVE  /\ desktop'[a] \in {None, notices'[a]}
                        /\ notices'[a] # None =>
                             shown'[a].state = "dialog" /\ ready' /\ a \in episodes'
      BY DEF Held
    <2>1. /\ shown' \in Lists /\ ready' = TRUE /\ episodes' = EpisodesAfter(shown')
          /\ \/ a \in Asking(shown') /\ desktop'[a] = notices'[a]
             \/ notices'[a] = None /\ desktop'[a] = None
             \/ /\ notices'[a] = notices[a] /\ desktop'[a] = desktop[a]
                /\ a \notin Closing(shown')
      BY <1>4, AppliedStep
    <2>2. Asking(shown') \subseteq episodes'
      BY <2>1 DEF EpisodesAfter
    <2>3. CASE a \in Asking(shown') /\ desktop'[a] = notices'[a]
      BY <2>1, <2>2, <2>3 DEF Asking
    <2>4. CASE notices'[a] = None /\ desktop'[a] = None
      BY <2>4
    <2>5. CASE /\ notices'[a] = notices[a] /\ desktop'[a] = desktop[a]
               /\ a \notin Closing(shown')
      <3>1. ASSUME notices[a] # None PROVE shown'[a].state = "dialog"
        <4>1. a \in episodes
          BY <3>1 DEF Held
        <4>2. shown'[a].state \in {"absent", "unclear", "busy", "dialog"}
          BY <2>1 DEF Lists, Rows
        <4> QED BY <2>5, <4>1, <4>2 DEF Closing
      <3>2. shown'[a].state = "dialog" => a \in episodes'
        BY <2>2 DEF Asking
      <3> QED BY <2>1, <2>5, <3>1, <3>2 DEF Held
    <2> QED BY <2>1, <2>3, <2>4, <2>5
  <1>5. ASSUME NEW r \in Requests, Fetching(r) PROVE Held'
    BY <1>1, <1>5, FetchingFrame DEF alertVars
  <1>6. ASSUME NEW r \in Requests, SignedOut(r) PROVE Held'
    BY <1>3, <1>6 DEF SignedOut
  <1>7. CASE Reset
    BY <1>3, <1>7 DEF Reset
  <1>8. CASE Load
    BY <1>8, CloseStep DEF Load, Held
  <1>9. CASE ToggleOff \/ NoticeFails
    BY <1>2, <1>9 DEF ToggleOff, NoticeFails, fetchVars
  <1>10. ASSUME NEW n \in clicks, OpenAgent(n) PROVE Held'
    <2>1. {n[1]} \in SUBSET Agents
      BY DEF Types, ClickTypes
    <2> QED BY <1>1, <1>2, <1>10, <2>1 DEF OpenAgent, fetchVars
  <1>11. ASSUME NEW a \in Agents, ClickNotice(a) \/ AgentGoesOn(a) PROVE Held'
    BY <1>1, <1>11 DEF ClickNotice, AgentGoesOn, alertVars, fetchVars
  <1>12. ASSUME NEW a \in Agents, DismissNotice(a) PROVE Held'
    <2>1. UNCHANGED <<notices, shown, ready, episodes>> /\ desktop'[a] = None
          /\ \A b \in Agents : b # a => desktop'[b] = desktop[b]
      BY <1>12 DEF DismissNotice, fetchVars, Types, AlertTypes
    <2> QED BY <2>1 DEF Held
  <1>13. CASE Toggling
    BY <1>1, <1>13, TogglingFrame DEF alertVars, fetchVars
  <1>14. CASE Outside
    BY <1>1, <1>14, OutsideFrame DEF alertVars, fetchVars
  <1>15. CASE UNCHANGED vars
    BY <1>1, <1>15 DEF vars, alertVars, fetchVars
  <1> QED BY Kinds, <1>4, <1>5, <1>6, <1>7, <1>8, <1>9, <1>10, <1>11, <1>12, <1>13, <1>14, <1>15

LEMMA RememberedStep ==
  ASSUME Types, Held, Remembered, [Next]_vars
  PROVE  Remembered'
  <1>1. ASSUME UNCHANGED <<past, episodes>> PROVE Remembered'
    BY <1>1 DEF Remembered
  <1>2. ASSUME ResetAlerts PROVE Remembered'
    BY <1>2, ResetStep DEF Remembered
  <1>3. ASSUME NEW r \in Requests, Applied(r) PROVE Remembered'
    <2> SUFFICES ASSUME NEW a \in Agents, past'[a] = "alerted" PROVE a \in episodes'
      BY DEF Remembered
    <2>1. /\ episodes' = EpisodesAfter(shown')
          /\ \/ a \in Asking(shown')
             \/ past[a] = "alerted" /\ shown'[a].state \in {"dialog", "unclear"}
      BY <1>3, AppliedStep
    <2> QED BY <2>1 DEF Remembered, EpisodesAfter, Asking
  <1>4. ASSUME NEW r \in Requests, Fetching(r) PROVE Remembered'
    BY <1>1, <1>4, FetchingFrame DEF alertVars
  <1>5. ASSUME NEW r \in Requests, SignedOut(r) PROVE Remembered'
    BY <1>2, <1>5 DEF SignedOut
  <1>6. CASE Reset
    BY <1>2, <1>6 DEF Reset
  <1>7. CASE Load
    BY <1>7 DEF Load, Fresh, PastAtLoad, Remembered
  <1>8. CASE ToggleOff \/ NoticeFails
    BY <1>1, <1>8 DEF ToggleOff, NoticeFails
  <1>9. ASSUME NEW n \in clicks, OpenAgent(n) PROVE Remembered'
    BY <1>1, <1>9 DEF OpenAgent
  <1>10. ASSUME NEW a \in Agents, ClickNotice(a) \/ DismissNotice(a) PROVE Remembered'
    BY <1>1, <1>10 DEF ClickNotice, DismissNotice, alertVars
  <1>11. ASSUME NEW a \in Agents, AgentGoesOn(a) PROVE Remembered'
    BY <1>11 DEF AgentGoesOn, Remembered, Types, AlertTypes
  <1>12. CASE Toggling
    BY <1>1, <1>12, TogglingFrame DEF alertVars
  <1>13. CASE Outside
    BY <1>1, <1>13, OutsideFrame DEF alertVars
  <1>14. CASE UNCHANGED vars
    BY <1>1, <1>14 DEF vars, alertVars
  <1> QED BY Kinds, <1>3, <1>4, <1>5, <1>6, <1>7, <1>8, <1>9, <1>10, <1>11, <1>12, <1>13, <1>14

-----------------------------------------------------------------------------
(* Every step keeps the refreshes in order, and the button in step.        *)

LEMMA AskedTypes ==
  ASSUME Types
  PROVE  /\ \A a \in Agents : asked[a] \in Nat /\ shown[a].asked \in Nat
         /\ \A r \in Requests, a \in Agents : Has(r) => request[r].rows[a].asked \in Nat
  <1>1. \A rows \in Lists, a \in Agents : rows[a].asked \in Nat
    BY Constants DEF Lists, Rows
  <1>2. \A r \in Requests : Has(r) => request[r].rows \in Lists
    BY DEF Types, FetchTypes, Refreshes, Has
  <1> QED BY <1>1, <1>2, Constants DEF Types, HubTypes, FetchTypes

LEMMA OrderedStep ==
  ASSUME Types, Held, Ordered, [Next]_vars
  PROVE  Ordered'
  <1>1. ASSUME UNCHANGED <<asked, shown, request, refreshRun>> PROVE Ordered'
    BY <1>1 DEF Ordered, Has
  <1>2. request \in [Requests -> Refreshes]
    BY DEF Types, FetchTypes
  <1>3. ASSUME NEW r \in Requests, Refresh(r) PROVE Ordered'
    <2>1. /\ UNCHANGED <<asked, shown>> /\ refreshRun' = r
          /\ request'[r] = [stage |-> "sent"]
      BY <1>2, <1>3 DEF Refresh, hubVars
    <2>2. ~ Has(refreshRun)'
      BY <2>1 DEF Has
    <2> QED BY <2>1, <2>2 DEF Ordered
  <1>4. ASSUME NEW r \in Requests, HubAnswers(r) PROVE Ordered'
    <2>1. /\ UNCHANGED <<asked, shown, refreshRun>>
          /\ \A s \in Requests : s # r => request'[s] = request[s]
          /\ request'[r] = IF session
                           THEN [stage |-> "answered", kind |-> "ok", rows |-> Snapshot]
                           ELSE [stage |-> "answered", kind |-> "unauthorized"]
      BY <1>2, <1>4 DEF HubAnswers, hubVars
    <2>2. CASE r = refreshRun
      <3>1. Has(r)' => request'[r].rows = Snapshot
        BY <2>1 DEF Has
      <3>2. \A a \in Agents : Snapshot[a].asked = asked[a] /\ asked[a] <= asked[a]
        BY ListTypes, AskedTypes DEF Types
      <3> QED BY <2>1, <2>2, <3>1, <3>2 DEF Ordered
    <2>3. CASE r # refreshRun
      BY <2>1, <2>3 DEF Ordered, Has
    <2> QED BY <2>2, <2>3
  <1>5. ASSUME NEW r \in Requests, RefreshFails(r) \/ Overtaken(r) PROVE Ordered'
    <2>1. /\ UNCHANGED <<asked, shown, refreshRun>> /\ request'[r] = Idle
          /\ \A s \in Requests : s # r => request'[s] = request[s]
      BY <1>2, <1>5 DEF RefreshFails, Overtaken, hubVars
    <2> QED BY <2>1 DEF Ordered, Has, Idle
  <1>6. ASSUME NEW r \in Requests, SignedOut(r) PROVE Ordered'
    <2>1. /\ UNCHANGED <<asked, shown, refreshRun>> /\ request'[r] = Idle
          /\ \A s \in Requests : s # r => request'[s] = request[s]
      BY <1>2, <1>6 DEF SignedOut, hubVars
    <2> QED BY <2>1 DEF Ordered, Has, Idle
  <1>7. ASSUME NEW r \in Requests, Answered(r) PROVE Ordered'
    <2>1. /\ UNCHANGED <<asked, shown, refreshRun>> /\ r = refreshRun /\ Has(r)
          /\ request'[r].rows = request[r].rows
      BY <1>2, <1>7 DEF Answered, hubVars, Has
    <2> QED BY <2>1 DEF Ordered
  <1>8. ASSUME NEW r \in Requests, Applied(r) PROVE Ordered'
    <2>1. /\ UNCHANGED <<asked, refreshRun>> /\ r = refreshRun
          /\ request[r].stage = "reading" /\ shown' = request[r].rows /\ request'[r] = Idle
      BY <1>2, <1>8, AppliedStep DEF hubVars
    <2>2. ~ Has(refreshRun)'
      BY <2>1 DEF Has, Idle
    <2>3. \A a \in Agents : request[r].rows[a].asked <= asked[a]
      BY <2>1 DEF Ordered, Has
    <2> QED BY <2>1, <2>2, <2>3 DEF Ordered
  <1>9. CASE Load
    <2>1. /\ shown' = Blank /\ asked' = asked
          /\ \A r \in Requests : request'[r] \in {Idle, [stage |-> "sent"]}
      BY <1>9 DEF Load, Fresh
    <2>2. \A r \in Requests : ~ Has(r)'
      BY <2>1 DEF Has, Idle
    <2> QED BY <2>1, <2>2, ListTypes, AskedTypes DEF Ordered, Types
  <1>10. ASSUME NEW a \in Agents, AgentAsks(a) PROVE Ordered'
    <2>1. /\ UNCHANGED <<shown, request, refreshRun>>
          /\ \A b \in Agents : asked'[b] >= asked[b] /\ asked'[b] \in Nat
      BY <1>10, AskedTypes DEF AgentAsks, fetchVars, Types, HubTypes
    <2>2. \A b \in Agents : shown[b].asked <= asked'[b]
      BY <2>1, AskedTypes DEF Ordered
    <2>3. refreshRun \in Requests /\ Has(refreshRun) =>
            \A b \in Agents : request[refreshRun].rows[b].asked <= asked'[b]
      BY <2>1, AskedTypes DEF Ordered
    <2> QED BY <2>1, <2>2, <2>3 DEF Ordered, Has
  <1>11. CASE Reset \/ ToggleOff \/ NoticeFails
    BY <1>1, <1>11 DEF Reset, ToggleOff, NoticeFails, hubVars, fetchVars
  <1>12. ASSUME NEW n \in clicks, OpenAgent(n) PROVE Ordered'
    BY <1>1, <1>12 DEF OpenAgent, hubVars, fetchVars
  <1>13. ASSUME NEW a \in Agents, ClickNotice(a) \/ DismissNotice(a) \/ AgentGoesOn(a)
         PROVE  Ordered'
    BY <1>1, <1>13 DEF ClickNotice, DismissNotice, AgentGoesOn, hubVars, fetchVars
  <1>14. CASE Toggling
    BY <1>1, <1>14, TogglingFrame DEF hubVars, fetchVars
  <1>15. CASE Look \/ PermissionChanges \/ SessionEnds
    BY <1>1, <1>15 DEF Look, PermissionChanges, SessionEnds, hubVars, fetchVars
  <1>16. ASSUME NEW a \in Agents, LinkChanges(a) PROVE Ordered'
    BY <1>1, <1>16 DEF LinkChanges, fetchVars
  <1>17. CASE UNCHANGED vars
    BY <1>1, <1>17 DEF vars, hubVars, fetchVars
  <1> QED BY Kinds, <1>3, <1>4, <1>5, <1>6, <1>7, <1>8, <1>9, <1>10, <1>11, <1>12, <1>13, <1>14,
             <1>15, <1>16, <1>17 DEF Fetching, Outside

LEMMA PromptedStep ==
  ASSUME Types, Held, Prompted, [Next]_vars
  PROVE  Prompted'
  <1> USE DEF Prompted, OnePrompt, browserVars, toggleVars
  <1>1. ASSUME UNCHANGED <<prompts, pending, disabled>> PROVE Prompted'
    BY <1>1
  <1>2. ASSUME Render PROVE pending' => disabled'
    BY <1>2 DEF Render, Disabled
  <1>3. CASE ToggleAsks
    <2>1. ~pending /\ prompts = 0 /\ pending' = TRUE /\ prompts' = prompts + 1
      BY <1>3 DEF ToggleAsks
    <2> QED BY <1>2, <1>3, <2>1 DEF ToggleAsks
  <1>4. CASE PromptAnswered \/ PromptFails
    <2>1. prompts = 1 /\ pending' = FALSE /\ prompts' = prompts - 1
      BY <1>4 DEF PromptAnswered, PromptFails
    <2> QED BY <2>1
  <1>5. CASE ToggleOn \/ ToggleOff \/ NoticeFails
    BY <1>2, <1>5 DEF ToggleOn, ToggleOff, NoticeFails
  <1>6. CASE Load
    BY <1>6 DEF Load, Fresh
  <1>7. ASSUME NEW r \in Requests, Applied(r) PROVE Prompted'
    <2>1. UNCHANGED <<prompts, pending>> /\ (pending => disabled')
      BY <1>7, AppliedStep
    <2> QED BY <2>1
  <1>8. ASSUME NEW r \in Requests, Fetching(r) PROVE Prompted'
    BY <1>1, <1>8, FetchingFrame
  <1>9. ASSUME NEW r \in Requests, SignedOut(r) PROVE Prompted'
    BY <1>1, <1>9 DEF SignedOut
  <1>10. CASE Reset
    BY <1>1, <1>10 DEF Reset
  <1>11. ASSUME NEW n \in clicks, OpenAgent(n) PROVE Prompted'
    BY <1>1, <1>11 DEF OpenAgent
  <1>12. ASSUME NEW a \in Agents, ClickNotice(a) \/ DismissNotice(a) \/ AgentGoesOn(a)
         PROVE  Prompted'
    BY <1>1, <1>12 DEF ClickNotice, DismissNotice, AgentGoesOn
  <1>13. CASE Outside
    BY <1>1, <1>13, OutsideFrame
  <1>14. CASE UNCHANGED vars
    BY <1>1, <1>14 DEF vars
  <1> QED BY Kinds, <1>3, <1>4, <1>5, <1>6, <1>7, <1>8, <1>9, <1>10, <1>11, <1>12, <1>13, <1>14
          DEF Toggling

LEMMA ChoiceStep ==
  ASSUME Types, Held, Prompted, ChoiceIsSaved, [Next]_vars
  PROVE  ChoiceIsSaved'
  <1> USE DEF ChoiceIsSaved, toggleVars
  <1>0. enabled' \in BOOLEAN
    BY BrowserTypesStep DEF BrowserTypes
  <1>1. ASSUME UNCHANGED <<storage, enabled>> PROVE ChoiceIsSaved'
    BY <1>1
  <1>2. ASSUME Save PROVE ChoiceIsSaved'
    <2>1. CASE storage = "blocked"
      BY <1>2, <2>1 DEF Save
    <2>2. CASE storage # "blocked" /\ enabled' = TRUE
      BY <1>2, <2>2 DEF Save
    <2>3. CASE storage # "blocked" /\ enabled' = FALSE
      BY <1>2, <2>3 DEF Save
    <2> QED BY <1>0, <2>1, <2>2, <2>3
  <1>3. CASE ToggleOff
    BY <1>2, <1>3 DEF ToggleOff
  <1>4. CASE ToggleOn
    BY <1>2, <1>4 DEF ToggleOn
  <1>5. CASE ToggleAsks
    BY <1>1, <1>5 DEF ToggleAsks
  <1>6. CASE PromptAnswered
    BY <1>2, <1>6 DEF PromptAnswered
  <1>7. CASE PromptFails
    BY <1>2, <1>7 DEF PromptFails
  <1>8. CASE NoticeFails
    BY <1>1, <1>8 DEF NoticeFails
  <1>9. CASE Load
    BY <1>9 DEF Load, Fresh
  <1>10. ASSUME NEW r \in Requests, Applied(r) PROVE ChoiceIsSaved'
    BY <1>1, <1>10, AppliedStep
  <1>11. ASSUME NEW r \in Requests, Fetching(r) PROVE ChoiceIsSaved'
    BY <1>1, <1>11, FetchingFrame
  <1>12. ASSUME NEW r \in Requests, SignedOut(r) PROVE ChoiceIsSaved'
    BY <1>1, <1>12 DEF SignedOut
  <1>13. CASE Reset
    BY <1>1, <1>13 DEF Reset
  <1>14. ASSUME NEW n \in clicks, OpenAgent(n) PROVE ChoiceIsSaved'
    BY <1>1, <1>14 DEF OpenAgent
  <1>15. ASSUME NEW a \in Agents, ClickNotice(a) \/ DismissNotice(a) \/ AgentGoesOn(a)
         PROVE  ChoiceIsSaved'
    BY <1>1, <1>15 DEF ClickNotice, DismissNotice, AgentGoesOn
  <1>16. CASE Outside
    BY <1>1, <1>16, OutsideFrame
  <1>17. CASE UNCHANGED vars
    BY <1>1, <1>17 DEF vars
  <1> QED BY Kinds, <1>3, <1>4, <1>5, <1>6, <1>7, <1>8, <1>9, <1>10, <1>11, <1>12, <1>13, <1>14,
             <1>15, <1>16, <1>17 DEF Toggling

-----------------------------------------------------------------------------
(* The invariant holds, and the safety properties with it.                 *)

LEMMA InitHolds == Init => IInv
  <1> SUFFICES ASSUME Init PROVE IInv
    OBVIOUS
  <1> USE DEF Init
  <1>1. HubTypes
    BY Constants DEF HubTypes
  <1>2. BrowserTypes
    BY Constants DEF BrowserTypes, Disabled
  <1>3. AlertTypes
    <2>1. 0 \in 0..Cardinality(Agents)
      BY FS_CardinalityType, Constants
    <2> QED BY <2>1 DEF AlertTypes, PastAtLoad
  <1>4. ClickTypes
    BY FS_EmptySet, Constants DEF ClickTypes
  <1>5. FetchTypes
    <2>1. Blank \in Lists /\ Idle \in Refreshes
      BY <1>1, ListTypes DEF Idle, Refreshes
    <2> QED BY <2>1 DEF FetchTypes
  <1>6. Held
    BY DEF Held
  <1>7. Remembered
    BY DEF Remembered, PastAtLoad
  <1>8. Ordered
    <2>1. \A r \in Requests : ~ Has(r)
      BY DEF Has, Idle
    <2>2. \A a \in Agents : shown[a].asked <= asked[a]
      BY <1>1, ListTypes, Constants DEF HubTypes
    <2> QED BY <2>1, <2>2 DEF Ordered
  <1>9. Prompted
    BY DEF Prompted, OnePrompt
  <1>10. ChoiceIsSaved
    BY DEF ChoiceIsSaved
  <1> QED BY <1>1, <1>2, <1>3, <1>4, <1>5, <1>6, <1>7, <1>8, <1>9, <1>10 DEF IInv, Types

LEMMA NextKeeps == IInv /\ [Next]_vars => IInv'
  BY HubTypesStep, BrowserTypesStep, AlertTypesStep, ClickTypesStep, FetchTypesStep,
     HeldStep, RememberedStep, OrderedStep, PromptedStep, ChoiceStep
     DEF IInv, Types

LEMMA Invariant == Spec => []IInv
  BY InitHolds, NextKeeps, PTL DEF Spec

\* Every state of the page, the browser and the hub has its types.
THEOREM TypeCorrect == Spec => []TypeOK
  <1>1. IInv => TypeOK
    BY DEF IInv, Types, HubTypes, BrowserTypes, AlertTypes, ClickTypes, FetchTypes, TypeOK,
           Lists
  <1> QED BY <1>1, Invariant, PTL

\* A notice on the desktop is one the page can close, of an agent it shows as
\* waiting (update, reset, closeNotice).
THEOREM NoticesCurrent == Spec => []NoticesAreCurrent
  <1>1. IInv => NoticesAreCurrent
    BY DEF IInv, Held, NoticesAreCurrent
  <1> QED BY <1>1, Invariant, PTL

\* The browser is asked for the permission once at a time (toggle).
THEOREM PromptsOnce == Spec => []OnePrompt
  <1>1. IInv => OnePrompt
    BY DEF IInv, Prompted
  <1> QED BY <1>1, Invariant, PTL

\* localStorage holds the choice the page goes by (constructor, toggle).
THEOREM ChoicesSaved == Spec => []ChoiceIsSaved
  <1>1. IInv => ChoiceIsSaved
    BY DEF IInv
  <1> QED BY <1>1, Invariant, PTL

\* However late a click's handler runs, it opens an agent that the page shows as
\* waiting, or none (onclick).
THEOREM ClicksOpen == Spec => ClicksOpenWaiting
  <1>1. IInv /\ [Next]_vars =>
          [\A n \in clicks : n \notin clicks' /\ watched' = n[1] /\ watched # n[1]
             => shown[n[1]].state = "dialog" /\ ready]_vars
    <2> SUFFICES ASSUME IInv, Next, NEW n \in clicks,
                        n \notin clicks', watched' = n[1], watched # n[1]
                 PROVE  shown[n[1]].state = "dialog" /\ ready
      OBVIOUS
    <2>1. clicks' # clicks /\ watched' # watched
      OBVIOUS
    <2>2. PICK m \in clicks : OpenAgent(m)
      <3>1. ASSUME NEW r \in Requests, Fetching(r) \/ SignedOut(r) \/ Applied(r) PROVE FALSE
        BY <2>1, <3>1, FetchingFrame DEF SignedOut, Applied
      <3>2. ~Toggling /\ ~Outside
        BY <2>1, TogglingFrame, OutsideFrame
      <3>3. ~Load /\ ~Reset /\ ~ToggleOff /\ ~NoticeFails /\ ~(UNCHANGED vars)
        BY <2>1 DEF Load, Reset, ToggleOff, NoticeFails, browserVars, vars
      <3>4. ASSUME NEW a \in Agents, ClickNotice(a) \/ DismissNotice(a) \/ AgentGoesOn(a)
            PROVE  FALSE
        BY <2>1, <3>4 DEF ClickNotice, DismissNotice, AgentGoesOn, browserVars
      <3> QED BY Kinds, <3>1, <3>2, <3>3, <3>4
    <2>3. m = n
      BY <2>2 DEF OpenAgent
    <2>4. notices[n[1]] = n[2]
      BY <2>1, <2>2, <2>3 DEF OpenAgent
    <2>5. n[1] \in Agents /\ n[2] \in NoticeIds /\ n[2] # None
      BY Constants DEF IInv, Types, ClickTypes
    <2> QED BY <2>4, <2>5 DEF IInv, Held
  <1> QED BY <1>1, Invariant, PTL DEF Spec, ClicksOpenWaiting

\* A new notice comes with a list that is applied, for an agent with no episode.
LEMMA NewNoticesAreApplied ==
  ASSUME IInv, Next, NEW a \in NewNotices
  PROVE  a \notin episodes
  <1>0. Types /\ Held
    BY DEF IInv
  <1>1. a \in Agents /\ notices'[a] # None /\ notices'[a] # notices[a]
    BY DEF NewNotices
  <1>2. ASSUME NEW As \in SUBSET Agents, Close(As) PROVE FALSE
    BY <1>0, <1>1, <1>2, CloseStep
  <1>3. ASSUME NEW r \in Requests, Fetching(r) \/ SignedOut(r) PROVE FALSE
    BY <1>1, <1>2, <1>3, FetchingFrame DEF SignedOut, ResetAlerts, alertVars
  <1>4. ~Toggling /\ ~Outside
    BY <1>1, TogglingFrame, OutsideFrame DEF alertVars
  <1>5. ~Load /\ ~Reset /\ ~ToggleOff /\ ~NoticeFails /\ ~(UNCHANGED vars)
    BY <1>1, <1>2 DEF Load, Reset, ResetAlerts, ToggleOff, NoticeFails, vars, alertVars
  <1>6. ASSUME NEW n \in clicks, OpenAgent(n) PROVE FALSE
    <2>1. {n[1]} \in SUBSET Agents
      BY <1>0 DEF Types, ClickTypes
    <2> QED BY <1>1, <1>2, <1>6, <2>1 DEF OpenAgent
  <1>7. ASSUME NEW b \in Agents, ClickNotice(b) \/ DismissNotice(b) \/ AgentGoesOn(b)
        PROVE  FALSE
    BY <1>1, <1>7 DEF ClickNotice, DismissNotice, AgentGoesOn, alertVars
  <1>8. ASSUME NEW r \in Requests, Applied(r) PROVE a \notin episodes
    BY <1>0, <1>1, <1>8, AppliedStep
  <1> QED BY Kinds, <1>3, <1>4, <1>5, <1>6, <1>7, <1>8

\* An agent is alerted for once in an episode, whatever lists overtake each
\* other and however its screen comes and goes (episodes).
THEOREM AlertsOnce == Spec => OneAlertPerEpisode
  <1>1. IInv /\ [Next]_vars => [\A a \in NewNotices : past[a] # "alerted"]_vars
    <2> SUFFICES ASSUME IInv, Next, NEW a \in NewNotices PROVE past[a] # "alerted"
      OBVIOUS
    <2>1. a \in Agents /\ a \notin episodes
      BY NewNoticesAreApplied DEF NewNotices
    <2> QED BY <2>1 DEF IInv, Remembered
  <1> QED BY <1>1, Invariant, PTL DEF Spec, OneAlertPerEpisode

\* A slower refresh never puts an older list over a newer one (refreshRun).
THEOREM NewestShown == Spec => NewestWins
  <1>1. IInv /\ [Next]_vars =>
          [\A a \in Agents : shown' # Blank => shown'[a].asked >= shown[a].asked]_vars
    <2> SUFFICES ASSUME IInv, Next, NEW a \in Agents, shown' # Blank
                 PROVE  shown'[a].asked >= shown[a].asked
      OBVIOUS
    <2>0. Types /\ Held /\ Ordered /\ shown[a].asked \in Nat
      BY AskedTypes DEF IInv
    <2>1. ASSUME shown' = shown PROVE shown'[a].asked >= shown[a].asked
      BY <2>0, <2>1
    <2>2. ASSUME NEW r \in Requests, Applied(r) PROVE shown'[a].asked >= shown[a].asked
      <3>1. shown' = request[r].rows /\ r = refreshRun /\ Has(r)
        BY <2>0, <2>2, AppliedStep DEF Has
      <3>2. request[r].rows[a].asked \in Nat
        BY <2>0, <3>1, AskedTypes
      <3> QED BY <2>0, <3>1, <3>2 DEF Ordered
    <2>3. ~Load
      BY DEF Load, Fresh
    <2>4. ASSUME NEW r \in Requests, Fetching(r) \/ SignedOut(r) PROVE shown' = shown
      BY <2>4, FetchingFrame DEF SignedOut
    <2>5. Toggling \/ Outside => shown' = shown
      BY TogglingFrame, OutsideFrame DEF fetchVars
    <2>6. Reset \/ ToggleOff \/ NoticeFails \/ UNCHANGED vars => shown' = shown
      BY DEF Reset, ToggleOff, NoticeFails, vars, fetchVars
    <2>7. ASSUME NEW n \in clicks, OpenAgent(n) PROVE shown' = shown
      BY <2>7 DEF OpenAgent, fetchVars
    <2>8. ASSUME NEW b \in Agents, ClickNotice(b) \/ DismissNotice(b) \/ AgentGoesOn(b)
          PROVE  shown' = shown
      BY <2>8 DEF ClickNotice, DismissNotice, AgentGoesOn, fetchVars
    <2> QED BY Kinds, <2>1, <2>2, <2>3, <2>4, <2>5, <2>6, <2>7, <2>8
  <1> QED BY <1>1, Invariant, PTL DEF Spec, NewestWins

=============================================================================
