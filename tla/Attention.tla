------------------------------ MODULE Attention ------------------------------
(***************************************************************************)
(* The page a member keeps open: its refreshes of the agent list and the   *)
(* alerts that follow them (internal/hub/ui/assets/attention.js, and       *)
(* refresh() of internal/hub/ui/index.html).                               *)
(*                                                                         *)
(* A refresh is a fetch and a read of the body, two awaits, and refreshes  *)
(* overlap: every three seconds one starts, and every change of view       *)
(* starts another.  Only the newest may touch the page.  What it brings    *)
(* goes through update(), which counts the agents that wait for an answer  *)
(* in the title and shows a desktop notice for each question that has      *)
(* newly come up.  Meanwhile the member moves between agents, clicks a     *)
(* notice or dismisses it, turns alerts on and off (which may await the    *)
(* browser's permission prompt), changes the browser's permission, signs   *)
(* out or reloads; and the hub restarts, hosts come and go, agents ask and *)
(* are answered.                                                           *)
(*                                                                         *)
(* A row of the list is one of four things to this page.  "busy" stands    *)
(* for a screen read as idle or as busy; "dialog" for a running agent with *)
(* a question up; "unclear" for an agent that is listed with neither: not  *)
(* running, or with no screen the hub can read; "absent" for one that is   *)
(* not listed, which is every agent while a restarted hub waits for its    *)
(* hosts.                                                                  *)
(***************************************************************************)
EXTENDS Naturals, FiniteSets

CONSTANTS
    Agents,      \* agent names
    Requests,    \* refreshes that may be under way at once: a bound
    NoticeIds,   \* numbers for the notice objects of one agent alive at once: a bound
    MaxAsked,    \* questions one agent asks: a bound
    MaxClicks,   \* clicks waiting for their handler: a bound
    Browsers,    \* the kinds of browser considered, see BrowserKinds
    Permissions, \* the values Notification.permission takes
    Storages,    \* what localStorage holds at first
    None

BrowserKinds == {"full", "noConstructor", "unsupported"}
PermissionValues == {"default", "granted", "denied"}
StorageValues == {"on", "off", "blocked"}

ASSUME BrowserAssumption ==
    /\ Browsers \subseteq BrowserKinds
    /\ Permissions \subseteq PermissionValues
    /\ Storages \subseteq StorageValues

ASSUME NoticeIdsSuffice == NoticeIds \subseteq Nat /\ Cardinality(NoticeIds) > MaxClicks + 1

ASSUME BoundsAssumption == IsFiniteSet(Agents) /\ MaxAsked \in Nat \ {0} /\ MaxClicks \in Nat

ASSUME NoneAssumption == None \notin Nat

VARIABLES
    \* What the page cannot see but through the hub.
    screen,      \* [Agents -> {"busy", "dialog"}], what is on the terminal
    asked,       \* [Agents -> 0..MaxAsked], how many questions it has asked
    link,        \* [Agents -> {"live", "dark", "gone"}], what the hub has of it
    session,     \* the hub still knows this member
    \* The browser.
    browser,     \* "full", "noConstructor" or "unsupported"
    permission,  \* Notification.permission
    storage,     \* localStorage 'kolo.attention': "on", "off" or "blocked"
    watched,     \* the agent open in this page, if the page is in front
    desktop,     \* [Agents -> NoticeIds \cup {None}], by the notice's tag
    clicks,      \* clicks on notices whose handlers have not run
    prompts,     \* calls of requestPermission that have not returned
    \* The page: KoloAttention's fields, and refresh()'s.
    enabled, pending, unavailable, disabled, ready, episodes, notices, title,
    signedIn, refreshRun, request, shown,
    \* History, for the properties alone.
    past         \* [Agents -> {"none", "old", "alerted"}], see PastAfter

hubVars     == <<screen, asked, link, session>>
browserVars == <<browser, permission, watched, prompts>>
alertVars   == <<ready, episodes, notices, title, desktop, past>>
toggleVars  == <<enabled, pending, unavailable, disabled, storage>>
fetchVars   == <<signedIn, refreshRun, request, shown>>
vars == <<hubVars, browserVars, alertVars, toggleVars, fetchVars, clicks>>

-----------------------------------------------------------------------------
(* What the hub answers, and what the page derives.                        *)

Rows == [state : {"absent", "unclear", "busy", "dialog"}, asked : 0..MaxAsked]

\* The list as the hub would answer now.  The count of questions is not part of
\* it: it rides along to tell an older answer from a newer one.
Snapshot ==
    [a \in Agents |->
        [state |-> CASE link[a] = "gone" -> "absent"
                     [] link[a] = "dark" -> "unclear"
                     [] OTHER            -> screen[a],
         asked |-> asked[a]]]

Asking(rows) == {a \in Agents : rows[a].state = "dialog"}

Idle == [stage |-> "idle"]
Blank == [a \in Agents |-> [state |-> "absent", asked |-> 0]]

\* Mutant: the button is not disabled while the browser asks.
Disabled_ButForThePrompt(perm, waiting, broken) ==
    browser = "unsupported" \/ perm = "denied" \/ broken

\* renderButton: what the button's disabled is set to.
Disabled(perm, waiting, broken) ==
    browser = "unsupported" \/ perm = "denied" \/ waiting \/ broken

Render == disabled' = Disabled(permission', pending', unavailable')

\* closeNotice of each agent of As: the notice object the page holds is closed
\* and let go of.  One it does not hold is out of its reach.
Close(As) ==
    /\ notices' = [a \in Agents |-> IF a \in As THEN None ELSE notices[a]]
    /\ desktop' = [a \in Agents |-> IF a \in As /\ desktop[a] = notices[a]
                                    THEN None ELSE desktop[a]]

\* What is remembered of an agent's last question: "old" if it was up when the
\* page loaded, "alerted" if there was a notice for it since the page last let go
\* of its episode.
PastAfter(rows, new) ==
    [a \in Agents |->
        CASE a \in new                                       -> "alerted"
          [] rows[a].state = "busy"                          -> "none"
          [] rows[a].state = "absent" /\ past[a] = "alerted" -> "none"
          [] OTHER                                           -> past[a]]

PastAtLoad == [a \in Agents |-> IF screen[a] = "dialog" THEN "old" ELSE "none"]

Save == storage' = IF storage = "blocked" THEN storage
                   ELSE IF enabled' THEN "on" ELSE "off"

-----------------------------------------------------------------------------
(* The page is loaded.                                                     *)

\* The fields as the constructor and the page's script leave them, the saved
\* choice read back; route() starts the first refresh at once.
Fresh ==
    /\ enabled' = (storage = "on")
    /\ pending' = FALSE /\ unavailable' = FALSE /\ prompts' = 0
    /\ ready' = FALSE /\ episodes' = {} /\ title' = 0
    /\ signedIn' = FALSE /\ shown' = Blank
    /\ \E r \in Requests :
          /\ refreshRun' = r
          /\ request' = [s \in Requests |-> IF s = r THEN [stage |-> "sent"] ELSE Idle]
    /\ past' = PastAtLoad

Init ==
    /\ screen \in [Agents -> {"busy", "dialog"}]
    /\ asked = [a \in Agents |-> IF screen[a] = "dialog" THEN 1 ELSE 0]
    /\ link \in [Agents -> {"live", "dark"}]
    /\ session = TRUE
    /\ browser \in Browsers
    /\ permission \in Permissions
    /\ storage \in Storages
    /\ watched = None /\ desktop = [a \in Agents |-> None] /\ clicks = {}
    /\ enabled = (storage = "on")
    /\ pending = FALSE /\ unavailable = FALSE /\ prompts = 0
    /\ disabled = Disabled(permission, FALSE, FALSE)
    /\ ready = FALSE /\ episodes = {} /\ title = 0
    /\ notices = [a \in Agents |-> None]
    /\ signedIn = FALSE /\ shown = Blank
    /\ refreshRun = None /\ request = [r \in Requests |-> Idle]
    /\ past = PastAtLoad

\* Reloading, or signing in, which is a form and so a load: pagehide resets
\* the old page, which closes its notices, and the new one starts over.
Load ==
    /\ session' \in {session, TRUE}
    /\ Close(Agents)
    /\ Fresh
    /\ clicks' = {}
    /\ disabled' = Disabled(permission, FALSE, FALSE)
    /\ UNCHANGED <<screen, asked, link, browser, permission, storage, watched>>

-----------------------------------------------------------------------------
(* Resetting and updating.                                                 *)

\* reset(): whatever is up when the page next hears from the hub is a baseline.
ResetAlerts ==
    /\ Close(Agents)
    /\ episodes' = {} /\ ready' = FALSE /\ title' = 0
    /\ past' = [a \in Agents |-> IF past[a] = "alerted" THEN "none" ELSE past[a]]

\* The sign-out form is submitted, or the page is hidden and may come back.
Reset ==
    /\ ResetAlerts
    /\ UNCHANGED <<hubVars, browserVars, toggleVars, fetchVars, clicks>>

\* Mutant: the count is not started anew.
Waiting_Adds(rows) == title + Cardinality(Asking(rows))

\* How many agents the title says are waiting.
Waiting(rows) == Cardinality(Asking(rows))

\* The agents update() shows a new notice for: not on the first list, not for
\* a question it has seen, not for the one the member is looking at.
Alerting(rows, off) ==
    {a \in Asking(rows) \ (episodes \cup {watched}) :
        ready /\ enabled /\ ~off /\ permission = "granted"}

\* An id no live object of a has.
FreshId(a) ==
    LET free == {k \in NoticeIds : k # notices[a] /\ k # desktop[a] /\ <<a, k>> \notin clicks}
    IN  CHOOSE k \in free : \A j \in free : k <= j

\* Mutant: only the agents on the list are gone through.
Closing_OfTheListed(rows) ==
    {a \in Agents : \/ rows[a].state \in {"unclear", "busy"}
                    \/ rows[a].state = "dialog" /\ a = watched}

\* update(): notices are closed for agents that left the list with an episode
\* open, for those with no question up, and for the one being watched.
Closing(rows) ==
    {a \in Agents : \/ rows[a].state = "absent" /\ a \in episodes
                    \/ rows[a].state \in {"unclear", "busy"}
                    \/ rows[a].state = "dialog" /\ a = watched}

\* Mutant: a missing screen ends the episode too.
EpisodesAfter_AskingOnly(rows) == Asking(rows)

\* An episode ends when its agent leaves the list or is seen idle or busy.
EpisodesAfter(rows) ==
    {a \in episodes : rows[a].state = "unclear"} \cup Asking(rows)

\* The browser refuses the constructor: no notice, and none is tried again.
Update(rows) ==
    LET off == Disabled(permission, pending, unavailable)
        wanted == Alerting(rows, off)
        new == IF browser = "noConstructor" THEN {} ELSE wanted
    IN  /\ notices' = [a \in Agents |-> IF a \in new THEN FreshId(a)
                                        ELSE IF a \in Closing(rows) THEN None
                                        ELSE notices[a]]
        /\ desktop' = [a \in Agents |->
                          IF a \in new THEN FreshId(a)
                          ELSE IF a \in Closing(rows) /\ desktop[a] = notices[a] THEN None
                          ELSE desktop[a]]
        /\ episodes' = EpisodesAfter(rows)
        /\ unavailable' = (unavailable \/ wanted # new)
        /\ disabled' = (off \/ wanted # new)
        /\ title' = Waiting(rows)
        /\ ready' = TRUE
        /\ past' = PastAfter(rows, new)

-----------------------------------------------------------------------------
(* refresh().                                                              *)

\* run = ++refreshRun, and the fetch goes out.
Refresh(r) ==
    /\ request[r].stage = "idle"
    /\ refreshRun' = r
    /\ request' = [request EXCEPT ![r] = [stage |-> "sent"]]
    /\ UNCHANGED <<hubVars, browserVars, alertVars, toggleVars, signedIn, shown, clicks>>

\* A change of view refreshes whatever else is going on.
Route == \E r \in Requests : Refresh(r)

\* The interval, which only runs on while the page believes it is signed in.
Tick == signedIn /\ \E r \in Requests : Refresh(r)

\* The hub answers with the list as it stands, or says 401.
HubAnswers(r) ==
    /\ request[r].stage = "sent"
    /\ request' = [request EXCEPT ![r] =
                      IF session THEN [stage |-> "answered", kind |-> "ok", rows |-> Snapshot]
                      ELSE [stage |-> "answered", kind |-> "unauthorized"]]
    /\ UNCHANGED <<hubVars, browserVars, alertVars, toggleVars, signedIn, refreshRun,
                   shown, clicks>>

\* The fetch or the read of the body fails, or the hub answers with an error:
\* the page keeps what it shows.
RefreshFails(r) ==
    /\ request[r].stage \in {"sent", "reading"}
    /\ request' = [request EXCEPT ![r] = Idle]
    /\ signedIn' \in IF request[r].stage = "sent" /\ r = refreshRun
                     THEN {signedIn, TRUE} ELSE {signedIn}
    /\ UNCHANGED <<hubVars, browserVars, alertVars, toggleVars, refreshRun, shown, clicks>>

\* The first await is over, in a refresh a newer one has overtaken, or in the
\* newest: a 401 signs the page out, anything else goes on to read the body.
Overtaken(r) ==
    /\ request[r].stage \in {"answered", "reading"}
    /\ r # refreshRun
    /\ request' = [request EXCEPT ![r] = Idle]
    /\ UNCHANGED <<hubVars, browserVars, alertVars, toggleVars, signedIn, refreshRun,
                   shown, clicks>>

SignedOut(r) ==
    /\ request[r].stage = "answered" /\ request[r].kind = "unauthorized"
    /\ r = refreshRun
    /\ signedIn' = FALSE
    /\ ResetAlerts
    /\ request' = [request EXCEPT ![r] = Idle]
    /\ UNCHANGED <<hubVars, browserVars, toggleVars, refreshRun, shown, clicks>>

Answered(r) ==
    /\ request[r].stage = "answered" /\ request[r].kind = "ok"
    /\ r = refreshRun
    /\ signedIn' = TRUE
    /\ request' = [request EXCEPT ![r] = [stage |-> "reading", rows |-> request[r].rows]]
    /\ UNCHANGED <<hubVars, browserVars, alertVars, toggleVars, refreshRun, shown, clicks>>

\* Mutant: nothing is compared once the body has been read.
Applied_Whichever(r) ==
    /\ request[r].stage = "reading"
    /\ Update(request[r].rows)
    /\ shown' = request[r].rows
    /\ request' = [request EXCEPT ![r] = Idle]
    /\ UNCHANGED <<hubVars, browserVars, enabled, pending, storage, signedIn, refreshRun,
                   clicks>>

\* The second await is over: the list is applied.
Applied(r) ==
    /\ request[r].stage = "reading"
    /\ r = refreshRun
    /\ Update(request[r].rows)
    /\ shown' = request[r].rows
    /\ request' = [request EXCEPT ![r] = Idle]
    /\ UNCHANGED <<hubVars, browserVars, enabled, pending, storage, signedIn, refreshRun,
                   clicks>>

-----------------------------------------------------------------------------
(* The button, the notices, the member.                                    *)

\* toggle(), as far as it runs at once: alerts that are on and allowed go off;
\* with the permission there already they go on; otherwise the browser asks.
ToggleOff ==
    /\ ~disabled /\ enabled /\ permission = "granted"
    /\ enabled' = FALSE
    /\ Close(Agents)
    /\ Save
    /\ UNCHANGED <<hubVars, permission, browser, watched, prompts, pending, unavailable,
                   fetchVars, ready, episodes, title, clicks, past>>
    /\ Render

ToggleOn ==
    /\ ~disabled /\ ~enabled /\ permission = "granted"
    /\ enabled' = TRUE
    /\ Save
    /\ UNCHANGED <<hubVars, browserVars, pending, unavailable, alertVars, fetchVars,
                   clicks>>
    /\ Render

ToggleAsks ==
    /\ ~disabled /\ permission # "granted"
    /\ pending' = TRUE
    /\ prompts' = prompts + 1
    /\ UNCHANGED <<hubVars, permission, browser, watched, enabled, unavailable, storage,
                   alertVars, fetchVars, clicks>>
    /\ Render

\* The prompt is answered or dismissed, and toggle() goes on to the end.  A
\* browser that has been told to block the page answers by itself.
PromptAnswered ==
    /\ prompts > 0
    /\ permission' \in IF permission = "denied" THEN {"denied"} ELSE Permissions
    /\ prompts' = prompts - 1
    /\ enabled' = (permission' = "granted")
    /\ pending' = FALSE
    /\ Save
    /\ UNCHANGED <<hubVars, browser, watched, unavailable, alertVars, fetchVars, clicks>>
    /\ Render

\* Mutant: the choice is saved only if nothing is thrown.
PromptFails_Unsaved ==
    /\ prompts > 0
    /\ prompts' = prompts - 1
    /\ enabled' = FALSE /\ unavailable' = TRUE /\ pending' = FALSE
    /\ UNCHANGED <<hubVars, permission, browser, watched, storage, alertVars, fetchVars, clicks>>
    /\ Render

\* requestPermission throws.
PromptFails ==
    /\ prompts > 0
    /\ prompts' = prompts - 1
    /\ enabled' = FALSE /\ unavailable' = TRUE /\ pending' = FALSE
    /\ Save
    /\ UNCHANGED <<hubVars, permission, browser, watched, alertVars, fetchVars, clicks>>
    /\ Render

\* Mutant: a click opens its agent whatever became of the notice.
OpenAgent_Whatever(n) ==
    /\ n \in clicks
    /\ clicks' = clicks \ {n}
    /\ watched' = n[1] /\ Close({n[1]})
    /\ UNCHANGED <<hubVars, browser, permission, prompts, toggleVars, fetchVars,
                   ready, episodes, title, past>>

\* onclick of the notice n: only if the page still holds that very object does
\* it come to the front and open the agent.
OpenAgent(n) ==
    /\ n \in clicks
    /\ clicks' = clicks \ {n}
    /\ IF notices[n[1]] = n[2]
       THEN watched' = n[1] /\ Close({n[1]})
       ELSE UNCHANGED <<watched, notices, desktop>>
    /\ UNCHANGED <<hubVars, browser, permission, prompts, toggleVars, fetchVars,
                   ready, episodes, title, past>>

\* onerror of a notice: the browser cannot show them after all.
NoticeFails ==
    /\ \E a \in Agents : desktop[a] # None
    /\ unavailable' = TRUE
    /\ Close(Agents)
    /\ UNCHANGED <<hubVars, browserVars, enabled, pending, storage, fetchVars,
                   ready, episodes, title, clicks, past>>
    /\ Render

\* The member clicks a notice: the handler is queued.
ClickNotice(a) ==
    /\ desktop[a] # None
    /\ Cardinality(clicks) < MaxClicks
    /\ clicks' = clicks \cup {<<a, desktop[a]>>}
    /\ UNCHANGED <<hubVars, browserVars, alertVars, toggleVars, fetchVars>>

\* The member, or the desktop after a while, takes a notice away.
DismissNotice(a) ==
    /\ desktop[a] # None
    /\ desktop' = [desktop EXCEPT ![a] = None]
    /\ UNCHANGED <<hubVars, browserVars, ready, episodes, notices, title, toggleVars,
                   fetchVars, clicks, past>>

\* The member opens another agent, goes to another window, or comes back.
Look ==
    /\ watched' \in (Agents \cup {None}) \ {watched}
    /\ UNCHANGED <<hubVars, browser, permission, prompts, alertVars, toggleVars, fetchVars,
                   clicks>>

\* The site's permission is changed in the browser's settings: nothing tells
\* the page.
PermissionChanges ==
    /\ permission' \in Permissions \ {permission}
    /\ UNCHANGED <<hubVars, browser, watched, prompts, alertVars, toggleVars, fetchVars,
                   clicks>>

-----------------------------------------------------------------------------
(* The hub and the agents, as the list shows them.                         *)

AgentAsks(a) ==
    /\ screen[a] = "busy" /\ asked[a] < MaxAsked
    /\ screen' = [screen EXCEPT ![a] = "dialog"]
    /\ asked' = [asked EXCEPT ![a] = @ + 1]
    /\ UNCHANGED <<link, session, browserVars, alertVars, toggleVars, fetchVars, clicks>>

AgentGoesOn(a) ==
    /\ screen[a] = "dialog"
    /\ screen' = [screen EXCEPT ![a] = "busy"]
    /\ past' = [past EXCEPT ![a] = IF @ = "old" THEN "none" ELSE @]
    /\ UNCHANGED <<asked, link, session, browserVars, ready, episodes, notices, title, desktop,
                   toggleVars, fetchVars, clicks>>

\* A screen connects or is lost; the hub restarts and has no agents until their
\* hosts are back.
LinkChanges(a) ==
    /\ \E to \in {"live", "dark", "gone"} \ {link[a]} : link' = [link EXCEPT ![a] = to]
    /\ UNCHANGED <<screen, asked, session, browserVars, alertVars, toggleVars, fetchVars,
                   clicks>>

\* The member is signed out or revoked.
SessionEnds ==
    /\ session /\ session' = FALSE
    /\ UNCHANGED <<screen, asked, link, browserVars, alertVars, toggleVars, fetchVars,
                   clicks>>

Next ==
    \/ Load \/ Reset \/ Route \/ Tick
    \/ \E r \in Requests : \/ HubAnswers(r) \/ RefreshFails(r) \/ Overtaken(r)
                           \/ SignedOut(r) \/ Answered(r) \/ Applied(r)
    \/ ToggleOff \/ ToggleOn \/ ToggleAsks \/ PromptAnswered \/ PromptFails
    \/ \E n \in clicks : OpenAgent(n)
    \/ NoticeFails
    \/ \E a \in Agents : \/ ClickNotice(a) \/ DismissNotice(a)
                         \/ AgentAsks(a) \/ AgentGoesOn(a) \/ LinkChanges(a)
    \/ Look \/ PermissionChanges \/ SessionEnds

Spec == Init /\ [][Next]_vars

-----------------------------------------------------------------------------
(* Properties.                                                             *)

TypeOK ==
    /\ screen \in [Agents -> {"busy", "dialog"}]
    /\ asked \in [Agents -> 0..MaxAsked]
    /\ link \in [Agents -> {"live", "dark", "gone"}]
    /\ session \in BOOLEAN
    /\ browser \in Browsers
    /\ permission \in Permissions
    /\ storage \in StorageValues
    /\ watched \in Agents \cup {None}
    /\ desktop \in [Agents -> NoticeIds \cup {None}]
    /\ clicks \subseteq Agents \X NoticeIds
    /\ prompts \in Nat
    /\ {enabled, pending, unavailable, disabled, ready, signedIn} \subseteq BOOLEAN
    /\ episodes \subseteq Agents
    /\ notices \in [Agents -> NoticeIds \cup {None}]
    /\ title \in 0..Cardinality(Agents)
    /\ refreshRun \in Requests \cup {None}
    /\ shown \in [Agents -> Rows]
    /\ past \in [Agents -> {"none", "old", "alerted"}]

NewNotices == {a \in Agents : notices'[a] \notin {None, notices[a]}}

\* Every notice on the desktop is one the page can still close, and its agent
\* has a question up in the list the page shows (update, reset, closeNotice).
NoticesAreCurrent ==
    \A a \in Agents : desktop[a] # None =>
        desktop[a] = notices[a] /\ shown[a].state = "dialog" /\ ready

\* A click that opens an agent opens one the page shows as waiting, however late
\* its handler runs: not one that stopped, was answered or belongs to a session
\* that ended (onclick, "An alert can outlive the process").
ClicksOpenWaiting ==
    [][\A n \in clicks : n \notin clicks' /\ watched' = n[1] /\ watched # n[1]
           => shown[n[1]].state = "dialog" /\ ready]_vars

\* An agent is alerted for twice only if in between its screen was seen idle or
\* busy, it left the list, or the page was reset (episodes).
OneAlertPerEpisode == [][\A a \in NewNotices : past[a] # "alerted"]_vars

\* A slower refresh never puts an older list over a newer one (refreshRun).
NewestWins ==
    [][\A a \in Agents : shown' # Blank => shown'[a].asked >= shown[a].asked]_vars

\* The browser is asked for the permission once at a time, whatever is clicked
\* while it asks (toggle, the button's disabled).
OnePrompt == prompts = (IF pending THEN 1 ELSE 0)

\* What localStorage holds is what the page goes by, through every await and
\* error of toggle, so a reload keeps the choice (constructor, toggle).
ChoiceIsSaved == storage # "blocked" => (storage = "on") = enabled

\* "Loading a page never replays old questions as new alerts." (attention.js:2)
NeverReplays == [][\A a \in NewNotices : past[a] # "old"]_vars

=============================================================================
