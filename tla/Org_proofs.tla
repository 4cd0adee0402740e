----------------------------- MODULE Org_proofs -----------------------------
(***************************************************************************)
(* What the changes of Org do to an org, for any writers, tokens and uses: *)
(* a change that goes through leaves an org that loads.                    *)
(***************************************************************************)
EXTENDS Org, FiniteSetTheorems, WellFoundedInduction, TLAPS

\* Orgs that load, as the code has them: with finitely many entries.
Good == {o \in Content : Sound(o) /\ IsFiniteSet(o.members) /\ IsFiniteSet(o.invites)}

-----------------------------------------------------------------------------
(* Ids.                                                                    *)

\* Finitely many entries have finitely many ids.
LEMMA IdsFinite ==
  ASSUME NEW S, IsFiniteSet(S)
  PROVE  IsFiniteSet(IdsOf(S))
<1> DEFINE f == [e \in S |-> e.id]
<1>1. f \in Surjection(S, IdsOf(S))
  BY DEF Surjection, IdsOf
<1> HIDE DEF f
<1> QED
  BY <1>1, FS_Surjection

\* A set of natural numbers has a least element.
LEMMA LeastOf ==
  ASSUME NEW S \in SUBSET Nat, S # {}
  PROVE  \E n \in S : \A k \in S : n <= k
<1> DEFINE Less == OpToRel(<, Nat)
<1>1. IsWellFoundedOn(Less, Nat)
  BY NatLessThanWellFounded
<1>2. \A x, y \in Nat : <<x, y>> \in Less <=> x < y
  BY DEF OpToRel
<1> HIDE DEF Less
<1>3. PICK n \in S : \A k \in S : ~ (<<k, n>> \in Less)
  BY <1>1, WFMin
<1>4. \A k \in S : n <= k
  <2> SUFFICES ASSUME NEW k \in S PROVE n <= k
    OBVIOUS
  <2>1. ~ (k < n)
    BY <1>2, <1>3
  <2> QED
    BY <2>1
<1> QED
  BY <1>4

\* Of n + 1 ids one is not among n that are taken.
LEMMA SomeIdIsFree ==
  ASSUME NEW T, IsFiniteSet(T)
  PROVE  \E n \in 1..(Cardinality(T) + 1) : n \notin T /\ 1..(n - 1) \subseteq T
<1> DEFINE c == Cardinality(T)
           S == {n \in 1..(c + 1) : n \notin T}
<1>1. c \in Nat
  BY FS_CardinalityType
<1> HIDE DEF c
<1>2. S # {}
  <2> SUFFICES ASSUME S = {} PROVE FALSE
    OBVIOUS
  <2>1. 1..(c + 1) \in SUBSET T
    OBVIOUS
  <2>2. Cardinality(1..(c + 1)) <= c
    BY <2>1, FS_Subset DEF c
  <2>3. Cardinality(1..(c + 1)) = c + 1
    BY <1>1, FS_Interval
  <2> QED
    BY <1>1, <2>2, <2>3
<1>3. PICK n \in S : \A k \in S : n <= k
  <2>1. S \in SUBSET Nat
    OBVIOUS
  <2> HIDE DEF S
  <2> QED
    BY <1>2, <2>1, LeastOf
<1>4. 1..(n - 1) \subseteq T
  BY <1>1, <1>3
<1> QED
  BY <1>3, <1>4 DEF c

\* freeID gives an id that nobody has.
LEMMA FreeIdIsFree ==
  ASSUME NEW o \in Good
  PROVE  /\ FreeId(o) \in Nat
         /\ FreeId(o) \notin IdsOf(o.members) \cup IdsOf(o.invites)
<1> DEFINE T == IdsOf(o.members) \cup IdsOf(o.invites)
<1>1. IsFiniteSet(T)
  BY IdsFinite, FS_Union DEF Good
<1>2. FreeId(o) = CHOOSE n \in 1..(Cardinality(T) + 1) : n \notin T /\ 1..(n - 1) \subseteq T
  BY DEF FreeId
<1>3. Cardinality(T) \in Nat
  BY <1>1, FS_CardinalityType
<1> HIDE DEF T
<1>4. FreeId(o) \in 1..(Cardinality(T) + 1) /\ FreeId(o) \notin T
  BY <1>1, <1>2, SomeIdIsFree
<1> QED
  BY <1>3, <1>4 DEF T

-----------------------------------------------------------------------------
(* Changes.                                                                *)

\* What makes a good org.
LEMMA GoodParts ==
  ASSUME NEW o
  PROVE  o \in Good <=>
           /\ o \in Content
           /\ IsFiniteSet(o.members) /\ IsFiniteSet(o.invites)
           /\ \A m, n \in o.members : m.id = n.id => m = n
           /\ \A v, w \in o.invites : v.id = w.id => v = w
           /\ \A m \in o.members, v \in o.invites : m.id # v.id
  BY DEF Good, Sound, IdsOf

\* An org is good if its entries are a good org's, or fewer.
LEMMA FewerAreGood ==
  ASSUME NEW o \in Good, NEW M \in SUBSET o.members, NEW V \in SUBSET o.invites,
         NEW u \in BOOLEAN
  PROVE  [url |-> u, members |-> M, invites |-> V] \in Good
<1>1. IsFiniteSet(M) /\ IsFiniteSet(V)
  BY GoodParts, FS_Subset
<1> QED
  BY <1>1, GoodParts DEF Content

\* A member with an id that is not taken may join.
LEMMA OneMoreIsGood ==
  ASSUME NEW o \in Good, NEW id \in Nat, NEW t \in Tokens,
         id \notin IdsOf(o.members) \cup IdsOf(o.invites)
  PROVE  [o EXCEPT !.members = @ \cup {[id |-> id, token |-> t]}] \in Good
<1> DEFINE m == [id |-> id, token |-> t]
           M == o.members \cup {m}
           p == [o EXCEPT !.members = M]
<1>1. m \in Member /\ m.id = id
  BY DEF Member
<1>2. \A n \in o.members \cup o.invites : n.id # id
  BY DEF IdsOf
<1>3. o \in Content /\ M \in SUBSET Member
  BY <1>1, GoodParts DEF Content
<1>4. IsFiniteSet(M)
  BY GoodParts, FS_AddElement
<1> HIDE DEF m
<1>5. p \in Content /\ p.members = M /\ p.invites = o.invites
  BY <1>3 DEF Content
<1>6. \A n, k \in M : n.id = k.id => n = k
  BY <1>1, <1>2, GoodParts
<1>7. \A n \in M, v \in o.invites : n.id # v.id
  BY <1>1, <1>2, GoodParts
<1> HIDE DEF M, p
<1>8. p \in Good
  BY <1>4, <1>5, <1>6, <1>7, GoodParts
<1> QED
  BY <1>8 DEF p, M, m

\* A use changes an invite's count, and nothing it is found by.
LEMMA UsedKeeps ==
  ASSUME NEW v \in Invite
  PROVE  Used(v) \in Invite /\ Used(v).id = v.id /\ Used(v).token = v.token
<1>1. CASE v.uses = 0
  BY <1>1 DEF Used
<1>2. CASE v.uses # 0
  <2>1. v.uses - 1 \in Nat
    BY <1>2 DEF Invite
  <2>2. Used(v) = [v EXCEPT !.uses = v.uses - 1, !.spent = (v.uses = 1)]
    BY <1>2 DEF Used
  <2> QED
    BY <2>1, <2>2 DEF Invite
<1> QED
  BY <1>1, <1>2

\* One invite may be replaced by one with the same id, whatever it was.
LEMMA ReplacedIsGood ==
  ASSUME NEW o \in Good, NEW v \in Invite, v.id \notin IdsOf(o.members)
  PROVE  [o EXCEPT !.invites = {u \in @ : u.id # v.id} \cup {v}] \in Good
<1> DEFINE V == {u \in o.invites : u.id # v.id} \cup {v}
           p == [o EXCEPT !.invites = V]
<1>1. o \in Content /\ V \in SUBSET Invite
  BY GoodParts DEF Content
<1>2. IsFiniteSet(V)
  <2>1. {u \in o.invites : u.id # v.id} \in SUBSET o.invites
    OBVIOUS
  <2>2. IsFiniteSet({u \in o.invites : u.id # v.id})
    BY <2>1, GoodParts, FS_Subset
  <2> QED
    BY <2>2, FS_AddElement
<1>3. p \in Content /\ p.invites = V /\ p.members = o.members
  BY <1>1 DEF Content
<1>4. \A u, w \in V : u.id = w.id => u = w
  BY GoodParts
<1>5. \A m \in o.members, u \in V : m.id # u.id
  BY GoodParts DEF IdsOf
<1> HIDE DEF V, p
<1>6. p \in Good
  BY <1>2, <1>3, <1>4, <1>5, GoodParts
<1> QED
  BY <1>6 DEF p, V

\* What the changes carry.
LEMMA ChangeParts ==
  ASSUME NEW c \in Changes
  PROVE  /\ c.kind \in {"init", "url", "add", "claim", "invite", "remove", "withdraw"}
         /\ c.kind = "add" => c.id \in FirstIds
         /\ c.kind = "claim" => c.token \in Tokens
         /\ c.kind = "invite" => c.id \in {Team} \cup FirstIds
  BY DEF Changes

\* What each change needs in order to go through.
LEMMA AllowedByKind ==
  ASSUME NEW o, NEW c, Allowed(o, c)
  PROVE  /\ c.kind = "init" => o = NoFile
         /\ c.kind # "init" => Loads(o)
         /\ c.kind = "add" => c.id \notin IdsOf(o.members) \cup IdsOf(o.invites)
         /\ c.kind = "claim" => Claimable(o, c.token) # {}
         /\ c.kind = "invite" => c.id \notin IdsOf(o.members)
  BY DEF Allowed

\* The orgs there are before any change.
LEMMA FirstOrgsAreGood == Founded \in Good /\ Settled \in Good
<1>1. Founded \in Good
  BY FS_EmptySet DEF Founded, Good, Content, Sound, IdsOf
<1>2. Settled \in Good
  <2> DEFINE m == [id |-> 1, token |-> Founder]
             v == NewInvite(Team, Standing)
  <2>1. m \in Member /\ m.id = 1
    BY DEF Member, Tokens
  <2>2. v \in Invite /\ v.id = 0
    BY UsesAssumption DEF Invite, NewInvite, Team, Tokens
  <2> HIDE DEF m, v
  <2>3. Settled = [url |-> FALSE, members |-> {m}, invites |-> {v}]
    BY DEF Settled, m, v
  <2>4. Settled \in Content /\ Settled.members = {m} /\ Settled.invites = {v}
    BY <2>1, <2>2, <2>3 DEF Content
  <2>5. IsFiniteSet({m}) /\ IsFiniteSet({v})
    BY FS_Singleton
  <2>6. IdsOf({m}) = {1} /\ IdsOf({v}) = {0}
    <3>1. \A x : {e.id : e \in {x}} = {x.id}
      OBVIOUS
    <3> QED
      BY <2>1, <2>2, <3>1 DEF IdsOf
  <2>7. Sound(Settled)
    BY <2>4, <2>6, 0 # 1 DEF Sound
  <2> QED
    BY <2>4, <2>5, <2>7 DEF Good
<1> QED
  BY <1>1, <1>2

\* A change that goes through is made to an org that loads, but for Init.
LEMMA AllowedLoads ==
  ASSUME NEW o \in {NoFile, Torn} \cup Good, NEW c, Allowed(o, c), c.kind # "init"
  PROVE  o \in Good
  BY AllowedByKind DEF Loads

\* The invite a claim takes.
LEMMA ClaimTakes ==
  ASSUME NEW o \in Good, NEW c \in Changes, c.kind = "claim", Allowed(o, c)
  PROVE  \E v \in o.invites :
           /\ v = CHOOSE u \in Claimable(o, c.token) : TRUE
           /\ v \in Invite /\ v.token = c.token /\ ~v.spent
<1>1. Claimable(o, c.token) # {}
  BY AllowedByKind
<1> QED
  BY <1>1, GoodParts DEF Claimable, Content

\* A claim leaves an org that loads: its invite has the name it had, and its
\* member one that was free.
LEMMA ClaimedIsGood ==
  ASSUME NEW o \in Good, NEW v \in o.invites, v \in Invite, NEW w \in Writers
  PROVE  Claimed(o, v, w) \in Good
<1> DEFINE p == [o EXCEPT !.invites = {u \in @ : u.id # Used(v).id} \cup {Used(v)}]
           m == [id |-> FreeId(o), token |-> w]
<1>1. Used(v) \in Invite /\ Used(v).id = v.id
  BY UsedKeeps
<1>2. Used(v).id \notin IdsOf(o.members)
  BY <1>1, GoodParts DEF IdsOf
<1>3. p \in Good
  BY <1>1, <1>2, ReplacedIsGood
<1>4. FreeId(o) \in Nat /\ FreeId(o) \notin IdsOf(o.members) \cup IdsOf(o.invites)
  BY FreeIdIsFree
<1>5. {u \in o.invites : u.id # Used(v).id} = o.invites \ {v}
  BY <1>1, GoodParts
<1>6. o \in Content
  BY GoodParts
<1>7. p.members = o.members /\ p.invites = (o.invites \ {v}) \cup {Used(v)}
  BY <1>5, <1>6 DEF Content
<1>8. IdsOf(p.members) = IdsOf(o.members) /\ IdsOf(p.invites) = IdsOf(o.invites)
  BY <1>1, <1>7 DEF IdsOf
<1>9. Claimed(o, v, w) = [p EXCEPT !.members = @ \cup {m}]
  BY <1>5, <1>6 DEF Claimed, Content
<1> HIDE DEF p
<1> QED
  BY <1>3, <1>4, <1>8, <1>9, OneMoreIsGood DEF Tokens

\* Every change that goes through leaves an org that loads (the second validate
\* of update never finds anything, but for the cases Allowed names).
LEMMA ChangedIsGood ==
  ASSUME NEW o \in {NoFile, Torn} \cup Good, NEW c \in Changes, Allowed(o, c),
         NEW w \in Writers
  PROVE  Changed(o, c, w) \in Good
<1>1. CASE c.kind = "init"
  BY <1>1, FirstOrgsAreGood DEF Changed
<1>2. CASE c.kind # "init"
  <2>1. o \in Good
    BY <1>2, AllowedLoads
  <2>2. o = [url |-> o.url, members |-> o.members, invites |-> o.invites]
        /\ o.url \in BOOLEAN
    BY <2>1, GoodParts DEF Content
  <2>3. CASE c.kind = "url"
    <3>1. Changed(o, c, w) = [url |-> TRUE, members |-> o.members, invites |-> o.invites]
      BY <2>2, <2>3 DEF Changed
    <3> QED
      BY <2>1, <3>1, FewerAreGood
  <2>4. CASE c.kind = "add"
    <3>1. c.id \in Nat /\ c.id \notin IdsOf(o.members) \cup IdsOf(o.invites)
      BY <2>4, ChangeParts, AllowedByKind DEF FirstIds
    <3> QED
      BY <2>1, <2>4, <3>1, OneMoreIsGood DEF Changed, Added, Tokens
  <2>5. CASE c.kind = "claim"
    BY <2>1, <2>5, ClaimTakes, ClaimedIsGood DEF Changed
  <2>6. CASE c.kind = "invite"
    <3> DEFINE v == NewInvite(c.id, w)
    <3>1. v \in Invite /\ v.id = c.id
      BY <2>6, ChangeParts, UsesAssumption DEF NewInvite, Invite, Team, FirstIds, Tokens
    <3>2. c.id \notin IdsOf(o.members)
      BY <2>6, AllowedByKind
    <3> HIDE DEF v
    <3>3. [o EXCEPT !.invites = {u \in @ : u.id # v.id} \cup {v}] \in Good
      BY <2>1, <3>1, <3>2, ReplacedIsGood
    <3> QED
      BY <2>6, <3>1, <3>3 DEF Changed, Invited, v
  <2>7. CASE c.kind = "remove"
    <3> DEFINE M == {m \in o.members : m.id \notin c.ids}
    <3>1. Changed(o, c, w) = [url |-> o.url, members |-> M, invites |-> o.invites]
      BY <2>2, <2>7 DEF Changed, Removed
    <3> QED
      BY <2>1, <2>2, <3>1, FewerAreGood
  <2>8. CASE c.kind = "withdraw"
    <3> DEFINE V == {v \in o.invites : v.id \notin c.ids}
    <3>1. Changed(o, c, w) = [url |-> o.url, members |-> o.members, invites |-> V]
      BY <2>2, <2>8 DEF Changed, Withdrawn
    <3> QED
      BY <2>1, <2>2, <3>1, FewerAreGood
  <2> QED
    BY <1>2, <2>3, <2>4, <2>5, <2>6, <2>7, <2>8, ChangeParts
<1> QED
  BY <1>1, <1>2

\* The only new member a change makes carries the token of who made it.
LEMMA ChangedMembers ==
  ASSUME NEW o \in {NoFile, Torn} \cup Good, NEW c \in Changes, Allowed(o, c),
         NEW w \in Writers, NEW t \in TokensOf(Changed(o, c, w).members)
  PROVE  t = w \/ (o \in Good /\ t \in TokensOf(o.members))
<1>1. CASE c.kind = "init"
  BY <1>1 DEF Changed, Founded, TokensOf
<1>2. CASE c.kind # "init"
  <2>1. o \in Good
    BY <1>2, AllowedLoads
  <2>2. o \in Content
    BY <2>1, GoodParts
  <2> DEFINE M == Changed(o, c, w).members
  <2>3. \A m \in M : m \in o.members \/ m.token = w
    <3>1. CASE c.kind \in {"url", "invite", "withdraw"}
      <4>1. M = o.members
        BY <2>2, <3>1 DEF Changed, Invited, Withdrawn, Content
      <4> QED
        BY <4>1
    <3>2. CASE c.kind = "add"
      <4>1. M = o.members \cup {[id |-> c.id, token |-> w]}
        BY <2>2, <3>2 DEF Changed, Added, Content
      <4> QED
        BY <4>1
    <3>3. CASE c.kind = "claim"
      <4>1. M = o.members \cup {[id |-> FreeId(o), token |-> w]}
        BY <2>2, <3>3 DEF Changed, Claimed, Content
      <4> QED
        BY <4>1
    <3>4. CASE c.kind = "remove"
      <4>1. M = {m \in o.members : m.id \notin c.ids}
        BY <2>2, <3>4 DEF Changed, Removed, Content
      <4> QED
        BY <4>1
    <3> QED
      BY <1>2, <3>1, <3>2, <3>3, <3>4, ChangeParts
  <2> QED
    BY <2>1, <2>3 DEF TokensOf
<1> QED
  BY <1>1, <1>2

\* What becomes of the invites: they stay, or fewer do; one is replaced by a new
\* one; or one is used.
LEMMA ChangedInvites ==
  ASSUME NEW o \in {NoFile, Torn} \cup Good, NEW c \in Changes, Allowed(o, c),
         NEW w \in Writers
  PROVE  LET V == Changed(o, c, w).invites IN
         \/ V = {} /\ c.kind # "claim"
         \/ o \in Good /\ V \subseteq o.invites /\ c.kind # "claim"
         \/ /\ o \in Good /\ c.kind # "claim"
            /\ \E W \in SUBSET o.invites : V = W \cup {NewInvite(c.id, w)}
         \/ /\ o \in Good /\ c.kind = "claim"
            /\ \E v \in o.invites : /\ v \in Invite /\ v.token = c.token /\ ~v.spent
                                    /\ V = (o.invites \ {v}) \cup {Used(v)}
<1> DEFINE V == Changed(o, c, w).invites
<1>1. CASE c.kind = "init"
  BY <1>1 DEF Changed, Founded
<1>2. CASE c.kind # "init"
  <2>1. o \in Good
    BY <1>2, AllowedLoads
  <2>2. o \in Content
    BY <2>1, GoodParts
  <2>3. CASE c.kind \in {"url", "add", "remove"}
    <3>1. V = o.invites
      BY <2>2, <2>3 DEF Changed, Added, Removed, Content
    <3> QED
      BY <2>1, <2>3, <3>1
  <2>4. CASE c.kind = "withdraw"
    <3>1. V = {v \in o.invites : v.id \notin c.ids}
      BY <2>2, <2>4 DEF Changed, Withdrawn, Content
    <3> QED
      BY <2>1, <2>4, <3>1
  <2>5. CASE c.kind = "invite"
    <3> DEFINE W == {v \in o.invites : v.id # c.id}
    <3>1. V = W \cup {NewInvite(c.id, w)}
      BY <2>2, <2>5 DEF Changed, Invited, Content
    <3>2. W \in SUBSET o.invites
      OBVIOUS
    <3> HIDE DEF W, V
    <3> QED
      BY <2>1, <2>5, <3>1, <3>2 DEF V
  <2>6. CASE c.kind = "claim"
    <3>1. PICK v \in o.invites :
            /\ v = CHOOSE u \in Claimable(o, c.token) : TRUE
            /\ v \in Invite /\ v.token = c.token /\ ~v.spent
      BY <2>1, <2>6, ClaimTakes
    <3>2. V = (o.invites \ {v}) \cup {Used(v)}
      BY <2>2, <2>6, <3>1 DEF Changed, Claimed, Content
    <3> QED
      BY <2>1, <2>6, <3>1, <3>2
  <2> QED
    BY <1>2, <2>3, <2>4, <2>5, <2>6, ChangeParts
<1> QED
  BY <1>1, <1>2

=============================================================================
