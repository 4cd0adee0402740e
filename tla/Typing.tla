-------------------------------- MODULE Typing ---------------------------------
(***************************************************************************)
(* Members typing at one agent, and what the log says they said (takeFrom  *)
(* of internal/hub/server.go, typed and forget of internal/hub/journal.go).*)
(*                                                                         *)
(* Each member's watch websocket has a goroutine that takes one message    *)
(* after the other, looks up whether the member may still send it, sends   *)
(* it to the agent's host, and then gives it to the journal, which puts    *)
(* the keys together into lines.  Goroutines of two members meet at the    *)
(* registry's sender and in the journal, in two separate steps.            *)
(*                                                                         *)
(* A line is who began it, how many characters it has and whether it is    *)
(* mixed.  Spaces, the escape sequences that strip takes out and text past *)
(* maxSaid are left out, and a message has at most one Enter in it.  A     *)
(* message the org or a missing host refuses changes nothing here.         *)
(***************************************************************************)
EXTENDS Journal

CONSTANTS
    Messages,    \* what one websocket message may hold: sequences of keys
    MaxMessages, \* messages that are read: a bound
    MaxSaid      \* maxSaid: characters kept of a line

Keys == {"char", "erase", "enter"}
Action == <<"action">>      \* an interrupt, a restart or a fresh start

ASSUME MessagesAssumption ==
    /\ Messages \subseteq Seq(Keys)
    /\ \A m \in Messages : \A i, j \in 1..Len(m) :
          m[i] = "enter" /\ m[j] = "enter" => i = j

ASSUME TypingAssumption ==
    Nobody \notin Members /\ MaxMessages \in Nat /\ MaxSaid \in Nat

VARIABLES
    taking,      \* [Members -> where takeFrom is with a message]
    sent,        \* messages read so far
    held,        \* journal.typing of the agent: the line begun
    touched      \* whose keys have gone into that line: history

typingVars == <<taking, sent, held, touched>>
vars == <<journalVars, typingVars>>

NoLine == [who |-> Nobody, size |-> 0, mixed |-> FALSE]
Waiting == [at |-> "reading", message |-> <<>>]

Init ==
    /\ JournalInit
    /\ taking = [m \in Members |-> Waiting]
    /\ sent = 0
    /\ held = NoLine
    /\ touched = {}

-----------------------------------------------------------------------------
(* typed.                                                                  *)

\* Mutant: a member who only erases or presses Enter has not joined.
Joined_IfTheyType(line, m, keys) ==
    IF line.size > 0 /\ line.who \notin {Nobody, m} /\ "char" \in Range(keys)
    THEN [line EXCEPT !.mixed = TRUE] ELSE line

\* The line as another member's keys begin to arrive.
Joined(line, m, keys) ==
    IF line.size > 0 /\ line.who \notin {Nobody, m}
    THEN [line EXCEPT !.mixed = TRUE] ELSE line

\* One key: the line after it, and whom a line that is said is credited to.
Pressed(s, key, m) ==
    CASE key = "enter" ->
           [line |-> NoLine,
            said |-> IF s.line.size = 0 THEN s.said
                     ELSE <<IF s.line.mixed THEN Nobody ELSE s.line.who>>]
      [] key = "erase" ->
           [s EXCEPT !.line.size = IF @ = 0 THEN 0 ELSE @ - 1]
      [] key = "char" ->
           [s EXCEPT !.line.who = IF @ = Nobody THEN m ELSE @,
                     !.line.size = IF @ < MaxSaid THEN @ + 1 ELSE @]

\* The loop of typed: key after key.
AfterKeys(line, m, keys) ==
    LET after[i \in 0..Len(keys)] ==
            IF i = 0 THEN [line |-> Joined(line, m, keys), said |-> <<>>]
            ELSE Pressed(after[i - 1], keys[i], m)
    IN  after[Len(keys)]

\* A line with nothing in it is deleted.
Kept(line) == IF line.size = 0 THEN NoLine ELSE line

\* Who has touched the line that is left.
TouchedAfter(m, keys, left) ==
    IF left = NoLine THEN {}
    ELSE {m} \cup IF "enter" \in Range(keys) THEN {} ELSE touched

-----------------------------------------------------------------------------
(* takeFrom.                                                               *)

Goes(m, at) == taking' = [taking EXCEPT ![m].at = at]

\* A message is read, and the member, looked up in the hub's org again, may
\* control agents.
Read(m) ==
    /\ up
    /\ taking[m].at = "reading"
    /\ sent < MaxMessages
    /\ sent' = sent + 1
    /\ \E keys \in Messages \cup {Action} :
          taking' = [taking EXCEPT ![m] = [at |-> "sending", message |-> keys]]
    /\ UNCHANGED <<journalVars, held, touched>>

\* The host has it, or there is no host and the message is refused.
Send(m) ==
    /\ up
    /\ taking[m].at = "sending"
    /\ Goes(m, "recording") \/ taking' = [taking EXCEPT ![m] = Waiting]
    /\ UNCHANGED <<journalVars, sent, held, touched>>

Record(m) ==
    /\ up
    /\ taking[m].at = "recording"
    /\ taking[m].message # Action
    /\ LET keys  == taking[m].message
           after == AfterKeys(held, m, keys)
           left  == Kept(after.line)
       IN /\ IF after.said = <<>> THEN UNCHANGED journalVars ELSE Add(after.said[1])
          /\ held' = left
          /\ touched' = TouchedAfter(m, keys, left)
    /\ taking' = [taking EXCEPT ![m] = Waiting]
    /\ UNCHANGED sent

\* An interrupt, a restart or a fresh start is logged and ends the line.
RecordAction(m) ==
    /\ up
    /\ taking[m].at = "recording"
    /\ taking[m].message = Action
    /\ Add(m)
    /\ Goes(m, "forgetting")
    /\ UNCHANGED <<sent, held, touched>>

Forget(m) ==
    /\ up
    /\ taking[m].at = "forgetting"
    /\ held' = NoLine /\ touched' = {}
    /\ taking' = [taking EXCEPT ![m] = Waiting]
    /\ UNCHANGED <<journalVars, sent>>

\* The hub's end takes its goroutines and the lines begun with it.
Ends ==
    /\ HubEnds
    /\ taking' = [m \in Members |-> Waiting]
    /\ held' = NoLine /\ touched' = {}
    /\ UNCHANGED sent

Starts == OpenJournal /\ UNCHANGED typingVars

Next ==
    \/ \E m \in Members :
          Read(m) \/ Send(m) \/ Record(m) \/ RecordAction(m) \/ Forget(m)
    \/ Ends \/ Starts

Spec == Init /\ [][Next]_vars

-----------------------------------------------------------------------------
(* Properties.                                                             *)

Taking == {Waiting} \cup
    [at : {"sending", "recording", "forgetting"}, message : Messages \cup {Action}]

TypeOK ==
    /\ JournalTypeOK
    /\ taking \in [Members -> Taking]
    /\ held \in [who : Members \cup {Nobody}, size : 0..MaxSaid, mixed : BOOLEAN]
    /\ touched \subseteq Members
    /\ sent \in 0..MaxMessages

\* A line is credited to a member only if no one else's keys went into it, and
\* to nobody only if someone's did, the Enter included (typed, journal.go:249;
\* "If more than one member contributed to a line, the entry is left
\* unattributed", docs/reference.md:270).
CreditIsEarned ==
    [][\A m \in Members :
          Record(m) /\ added' # added =>
              LET all    == touched \cup {m}
                  credit == entries'[Len(entries')].who
              IN IF Cardinality(all) = 1 THEN credit = m ELSE credit = Nobody]_vars

=============================================================================
