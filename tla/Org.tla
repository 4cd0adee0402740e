--------------------------------- MODULE Org ---------------------------------
(***************************************************************************)
(* What an org file says, and what the commands that rewrite it do to it   *)
(* (internal/hub/org.go).  Nothing here has a state: OrgRegister says when *)
(* a change is made, OrgFile how.                                          *)
(*                                                                         *)
(* Members and invites are told apart by their tokens, which are fresh, so *)
(* a token is named after the writer that minted it.  Ids are the names    *)
(* people use; members and invites share one namespace, and an id that is  *)
(* taken gets a number added.  Hosts, names and read_only are left out.    *)
(***************************************************************************)
EXTENDS Naturals, FiniteSets

CONSTANTS
    Writers,      \* whoever changes the file: each makes one change
    Founder,      \* a member the org may have from the start
    Editor,       \* a member added by hand
    Standing,     \* the token of the standing invite
    Uses,         \* how many members an invite is good for; 0 is any number
    NoFile,       \* before Init
    Torn          \* contents that do not parse

ASSUME UsesAssumption == Uses \in Nat
ASSUME TokensAssumption ==
    Writers \cap {Founder, Editor, Standing} = {} /\ Editor # Standing

Tokens == Writers \cup {Founder, Editor, Standing}

\* The id of the standing invite.  Other ids are <name>, <name>-2, ...: 1, 2, ...
Team == 0
FirstIds == {1, 2}

Member == [id : Nat, token : Tokens]
Invite == [id : Nat, token : Tokens, uses : Nat, spent : BOOLEAN]
Content == [url : BOOLEAN, members : SUBSET Member, invites : SUBSET Invite]

ASSUME NoContentAssumption ==
    NoFile # Torn /\ NoFile \notin Content /\ Torn \notin Content

NewInvite(id, token) == [id |-> id, token |-> token, uses |-> Uses, spent |-> FALSE]

Founded == [url |-> FALSE, members |-> {}, invites |-> {}]
Settled == [url |-> FALSE,
            members |-> {[id |-> 1, token |-> Founder]},
            invites |-> {NewInvite(Team, Standing)}]

-----------------------------------------------------------------------------

IdsOf(S) == {e.id : e \in S}
TokensOf(S) == {e.token : e \in S}

\* freeID
FreeId(o) ==
    LET taken == IdsOf(o.members) \cup IdsOf(o.invites)
    IN CHOOSE n \in 1..(Cardinality(taken) + 1) :
           n \notin taken /\ 1..(n - 1) \subseteq taken

Sound(o) ==
    /\ \A m, n \in o.members : m.id = n.id => m = n
    /\ \A v, w \in o.invites : v.id = w.id => v = w
    /\ IdsOf(o.members) \cap IdsOf(o.invites) = {}

\* Load, and the second validate of update.
Loads(raw) == raw \notin {NoFile, Torn} /\ Sound(raw)

-----------------------------------------------------------------------------
(* The changes.  Init is no update: it makes a file where there is none.   *)

Changes ==
    [kind : {"init", "url"}]
    \cup [kind : {"add"}, id : FirstIds]
    \cup [kind : {"claim"}, token : Tokens]
    \cup [kind : {"invite"}, id : {Team} \cup FirstIds]
    \cup [kind : {"remove"}, ids : SUBSET FirstIds \ {{}}]
    \cup [kind : {"withdraw"}, ids : SUBSET ({Team} \cup FirstIds) \ {{}}]

\* Mutant: the last use does not mark it spent.
Used_Unlimited(v) == IF v.uses = 0 THEN v ELSE [v EXCEPT !.uses = @ - 1]

\* A use of an invite; the last one marks it spent.
Used(v) ==
    IF v.uses = 0 THEN v ELSE [v EXCEPT !.uses = @ - 1, !.spent = (v.uses = 1)]

\* findInvite and Spent: the invite a token can claim, as a set of one or none.
Claimable(o, t) == {v \in o.invites : v.token = t /\ ~v.spent}

\* Claim: a use is taken, and there is a member with the first free id.
Claimed(o, v, w) ==
    [o EXCEPT !.invites = (@ \ {v}) \cup {Used(v)},
              !.members = @ \cup {[id |-> FreeId(o), token |-> w]}]

\* AddMember: an id that is taken does not pass validate.
Added(o, id, w) == [o EXCEPT !.members = @ \cup {[id |-> id, token |-> w]}]

\* setInvite: the link of that name is replaced; a member's name is refused.
Invited(o, id, w) ==
    [o EXCEPT !.invites = {v \in @ : v.id # id} \cup {NewInvite(id, w)}]

\* RemoveMembers and WithdrawInvites: all of the ids, or none.
Removed(o, ids) == [o EXCEPT !.members = {m \in @ : m.id \notin ids}]
Withdrawn(o, ids) == [o EXCEPT !.invites = {v \in @ : v.id \notin ids}]

\* Whether a change to o goes through.
Allowed(o, c) ==
    IF c.kind = "init" THEN o = NoFile
    ELSE Loads(o) /\
         CASE c.kind = "url"      -> TRUE
           [] c.kind = "add"      -> c.id \notin IdsOf(o.members) \cup IdsOf(o.invites)
           [] c.kind = "claim"    -> Claimable(o, c.token) # {}
           [] c.kind = "invite"   -> c.id \notin IdsOf(o.members)
           [] c.kind = "remove"   -> c.ids \subseteq IdsOf(o.members)
           [] c.kind = "withdraw" -> c.ids \subseteq IdsOf(o.invites)

\* What o is after writer w has made the change.
Changed(o, c, w) ==
    CASE c.kind = "init"     -> Founded
      [] c.kind = "url"      -> [o EXCEPT !.url = TRUE]
      [] c.kind = "add"      -> Added(o, c.id, w)
      [] c.kind = "claim"    -> Claimed(o, CHOOSE v \in Claimable(o, c.token) : TRUE, w)
      [] c.kind = "invite"   -> Invited(o, c.id, w)
      [] c.kind = "remove"   -> Removed(o, c.ids)
      [] c.kind = "withdraw" -> Withdrawn(o, c.ids)

=============================================================================
