--------------------------- MODULE MembershipProofs ---------------------------
(***************************************************************************)
(* Theorems about Membership, for any products, users and roles, and any   *)
(* number of writes: no product loses its last owner, an invitation lets a *)
(* person in once, and the store implements Register.                      *)
(***************************************************************************)
EXTENDS Membership, TLAPS

----------------------------------------------------------------------------
(* The inductive invariant *)

HasOwner(people) == Owners(people) # {}
Known(people) == \A u \in Users : people[u] # None => u \in accounts

Typed ==
    /\ TypeOK
    /\ trail \in [Products -> Seq(Act)]

\* product_members says what the blob says.
MirrorFollows == \A p \in Products : mirror[p] = rows[p].state.members

\* A live product was opened by somebody and has an owner.
LiveIsOwned ==
    \A p \in Products : Live(p) =>
        rows[p].owner \in Users /\ HasOwner(rows[p].state.members)

\* Nothing is kept of a product that is not there, and an id that was never
\* used has no history.
DormantIsEmpty ==
    \A p \in Products :
        /\ ~Live(p) => /\ rows[p].owner = None
                       /\ rows[p].state = NoState
                       /\ trail[p] = <<>>
        /\ rows[p].phase = "unused" => p \notin lapsed

\* Whoever is invited is invited to a product that is there.
InvitedToLive ==
    \A p \in Products, u \in Users : invitations[p][u].role # None => Live(p)

\* What apply_pending has read: its invitations stand, and the state it is
\* about to save back names an owner, does not name the new member, and is
\* the row's unless the version moved.
JoiningTracksRow ==
    IF Serving THEN joining = NoCall
    ELSE /\ joining.user \in accounts
         /\ \A p \in joining.todo : invitations[p][joining.user].role # None
         /\ joining.stage # "next" => joining.product \in joining.todo
         /\ joining.stage = "save" =>
               /\ HasOwner(joining.copy.members)
               /\ Known(joining.copy.members)
               /\ joining.copy.members[joining.user] = None
               /\ joining.version <= rows[joining.product].version
               /\ joining.version = rows[joining.product].version =>
                     joining.copy = rows[joining.product].state

\* What the migration has read, of a product that may be gone meanwhile.
ScriptTracksRow ==
    script # NoCopy =>
        /\ script.product \in Products
        /\ rows[script.product].phase # "unused"
        /\ HasOwner(script.copy.members)
        /\ Known(script.copy.members)
        /\ Live(script.product) =>
              /\ script.version <= rows[script.product].version
              /\ script.version = rows[script.product].version =>
                    script.copy.members = rows[script.product].state.members

IInv ==
    /\ Typed
    /\ MirrorFollows
    /\ LiveIsOwned
    /\ DormantIsEmpty
    /\ InvitedToLive
    /\ JoiningTracksRow
    /\ ScriptTracksRow

----------------------------------------------------------------------------
(* Lemmas *)

\* The state without anything, and what the two callers hold when idle.
LEMMA NothingIsTyped ==
    /\ Nobody \in People /\ NoState \in State
    /\ NoCall \in Call /\ NoCopy \in Copy
    /\ Owner \in Roles /\ Owner # None /\ Owner \notin {None}
  BY MembershipAssumption
     DEF Nobody, People, NoState, State, NoCall, Call, NoCopy, Copy, Stages, None, Owner

\* A row's parts.
LEMMA RowIsTyped ==
    ASSUME Typed, NEW p \in Products
    PROVE  /\ rows[p] \in Row
           /\ rows[p].phase \in {"unused", "live", "deleted"}
           /\ rows[p].owner \in Users \cup {None}
           /\ rows[p].state \in State
           /\ rows[p].state.members \in People
           /\ rows[p].state.placed \in BOOLEAN
           /\ rows[p].version \in 0..MaxVersion
           /\ rows[p].version \in Nat
  <1>1. rows[p] \in Row
    BY DEF Typed, TypeOK
  <1>2. rows[p].state \in State /\ rows[p].version \in 0..MaxVersion
    BY <1>1 DEF Row
  <1> QED
    BY <1>1, <1>2, MembershipAssumption DEF Row, State

\* A write replaces the state of one product, in the rows and in
\* product_members alike, and counts its version up.
LEMMA WriteKeepsRows ==
    ASSUME IInv, NEW p \in Products, NEW state \in State,
           Live(p), HasOwner(state.members), Known(state.members), Write(p, state),
           accounts' = accounts
    PROVE  /\ rows' \in [Products -> Row] /\ mirror' \in [Products -> People]
           /\ mirror' = [mirror EXCEPT ![p] = state.members]
           /\ rows'[p].state = state /\ rows'[p].version = rows[p].version + 1
           /\ \A q \in Products : rows'[q].phase = rows[q].phase
                                  /\ rows'[q].owner = rows[q].owner
           /\ \A q \in Products : q # p => rows'[q] = rows[q]
           /\ \A q \in Products : Known(rows[q].state.members)'
           /\ MirrorFollows' /\ LiveIsOwned'
  <1>1. rows \in [Products -> Row] /\ mirror \in [Products -> People]
    BY DEF IInv, Typed, TypeOK
  <1>2. /\ rows[p] \in Row
        /\ rows[p].phase \in {"unused", "live", "deleted"}
        /\ rows[p].owner \in Users \cup {None}
        /\ rows[p].version \in 0..MaxVersion
    BY RowIsTyped DEF IInv
  <1> DEFINE row == [phase |-> rows[p].phase, owner |-> rows[p].owner,
                     state |-> state, version |-> rows[p].version + 1]
  <1>3. rows' = [rows EXCEPT ![p] = row]
    BY <1>1, <1>2 DEF Write, Row
  <1>4. rows[p].version + 1 \in 0..MaxVersion
    BY <1>2, MembershipAssumption DEF Write
  <1>5. row \in Row
    BY <1>2, <1>4 DEF Row
  <1>6. rows' \in [Products -> Row] /\ rows'[p] = row
        /\ \A q \in Products : q # p => rows'[q] = rows[q]
    <2> HIDE DEF row
    <2> QED
      BY <1>1, <1>3, <1>5
  <1>7. mirror' = [mirror EXCEPT ![p] = state.members]
    BY DEF Write, Mirrored
  <1>8. state.members \in People
    BY DEF State
  <1>9. mirror' \in [Products -> People]
    BY <1>1, <1>7, <1>8
  <1>10. /\ rows'[p].state = state /\ rows'[p].version = rows[p].version + 1
         /\ rows'[p].phase = rows[p].phase /\ rows'[p].owner = rows[p].owner
    BY <1>6
  <1>11. \A q \in Products : rows'[q].phase = rows[q].phase /\ rows'[q].owner = rows[q].owner
    BY <1>6, <1>10
  <1>12. \A q \in Products : Known(rows[q].state.members)
    BY DEF IInv, Typed, TypeOK, Known
  <1>13. \A q \in Products : Known(rows[q].state.members)'
    <2> SUFFICES ASSUME NEW q \in Products PROVE Known(rows[q].state.members)'
      OBVIOUS
    <2>1. CASE q = p
      BY <1>10, <2>1 DEF Known
    <2>2. CASE q # p
      BY <1>6, <1>12, <2>2 DEF Known
    <2> QED
      BY <2>1, <2>2
  <1>14. MirrorFollows'
    BY <1>1, <1>6, <1>7, <1>10 DEF IInv, MirrorFollows
  <1>15. LiveIsOwned'
    <2> SUFFICES ASSUME NEW q \in Products, Live(q)'
                 PROVE  rows'[q].owner \in Users /\ HasOwner(rows'[q].state.members)
      BY DEF LiveIsOwned, HasOwner, Owners
    <2>1. Live(q)
      BY <1>11 DEF Live
    <2>2. rows[q].owner \in Users /\ HasOwner(rows[q].state.members)
      BY <2>1 DEF IInv, LiveIsOwned
    <2> QED
      BY <1>6, <1>10, <1>11, <2>2
  <1> QED
    BY <1>6, <1>7, <1>9, <1>10, <1>11, <1>13, <1>14, <1>15

\* The migration's copy stays behind a row another writer moved on.
LEMMA ScriptOutlivesWrite ==
    ASSUME IInv, NEW p \in Products, Live(p),
           rows'[p].version = rows[p].version + 1,
           \A q \in Products : rows'[q].phase = rows[q].phase,
           \A q \in Products : q # p => rows'[q] = rows[q],
           UNCHANGED <<script, accounts>>
    PROVE  ScriptTracksRow'
  <1> SUFFICES ASSUME script # NoCopy
               PROVE  /\ script.product \in Products
                      /\ rows'[script.product].phase # "unused"
                      /\ HasOwner(script.copy.members)
                      /\ Known(script.copy.members)
                      /\ rows'[script.product].phase = "live" =>
                            /\ script.version <= rows'[script.product].version
                            /\ script.version = rows'[script.product].version =>
                                  script.copy.members = rows'[script.product].state.members
    BY DEF ScriptTracksRow, Live, HasOwner, Owners, Known
  <1>1. /\ script.product \in Products
        /\ rows[script.product].phase # "unused"
        /\ HasOwner(script.copy.members)
        /\ Known(script.copy.members)
        /\ rows[script.product].phase = "live" =>
              /\ script.version <= rows[script.product].version
              /\ script.version = rows[script.product].version =>
                    script.copy.members = rows[script.product].state.members
    BY DEF IInv, ScriptTracksRow, Live
  <1>2. script.version \in Nat /\ rows[p].version \in Nat
    BY RowIsTyped, MembershipAssumption DEF IInv, Typed, TypeOK, Copy
  <1>3. CASE script.product = p
    BY <1>1, <1>2, <1>3 DEF Live
  <1>4. CASE script.product # p
    BY <1>1, <1>4
  <1> QED
    BY <1>1, <1>3, <1>4

----------------------------------------------------------------------------
(* Initially *)

LEMMA InitIInv == Init => IInv
  <1> SUFFICES ASSUME Init PROVE IInv
    OBVIOUS
  <1>1. PICK founders \in [Products -> Users \cup {None}] :
        /\ accounts = {founders[p] : p \in Products} \ {None}
        /\ rows = [p \in Products |->
              IF founders[p] = None
              THEN [phase |-> "unused", owner |-> None, state |-> NoState, version |-> 0]
              ELSE [phase |-> "live", owner |-> founders[p], version |-> 0,
                    state |-> [members |-> [Nobody EXCEPT ![founders[p]] = Owner],
                               placed |-> FALSE, renumbered |-> FALSE]]]
        /\ mirror = [p \in Products |-> rows[p].state.members]
        /\ exports = {}
        /\ invitations = [p \in Products |-> [u \in Users |-> NotInvited]]
        /\ trail = [p \in Products |-> <<>>]
        /\ joining = NoCall
        /\ script = NoCopy
        /\ lapsed = {}
        /\ letIn = {}
    BY DEF Init
  <1>2. ASSUME NEW p \in Products
        PROVE  /\ rows[p] \in Row
               /\ Known(rows[p].state.members)
               /\ rows[p].phase \in {"unused", "live"}
               /\ rows[p].phase = "unused" => rows[p].owner = None /\ rows[p].state = NoState
               /\ rows[p].phase = "live" =>
                     rows[p].owner \in Users /\ HasOwner(rows[p].state.members)
    <2>1. CASE founders[p] = None
      <3>1. rows[p] = [phase |-> "unused", owner |-> None, state |-> NoState, version |-> 0]
        BY <1>1, <2>1
      <3>2. 0 \in 0..MaxVersion
        BY MembershipAssumption
      <3>3. rows[p] \in Row
        BY <3>1, <3>2, NothingIsTyped DEF Row
      <3> QED
        BY <3>1, <3>3 DEF Known, NoState, Nobody
    <2>2. CASE founders[p] # None
      <3>1. founders[p] \in Users
        BY <2>2
      <3> DEFINE people == [Nobody EXCEPT ![founders[p]] = Owner]
                 state == [members |-> people, placed |-> FALSE, renumbered |-> FALSE]
      <3>2. rows[p] = [phase |-> "live", owner |-> founders[p], version |-> 0,
                       state |-> state]
        BY <1>1, <2>2
      <3>3. people \in People /\ people[founders[p]] = Owner
            /\ \A u \in Users : people[u] # None => u = founders[p]
        BY <3>1, NothingIsTyped DEF Nobody, People
      <3>4. state \in State
        BY <3>3 DEF State
      <3>5. founders[p] \in accounts
        BY <1>1, <2>2
      <3>6. 0 \in 0..MaxVersion
        BY MembershipAssumption
      <3>7. rows[p].state.members = people
        <4>1. rows[p].state = state
          <5> HIDE DEF state
          <5> QED
            BY <3>2
        <4> QED
          BY <4>1
      <3>8. rows[p] \in Row
        <4> HIDE DEF state
        <4> QED
          BY <3>1, <3>2, <3>4, <3>6 DEF Row
      <3>9. Known(rows[p].state.members) /\ HasOwner(rows[p].state.members)
        BY <3>1, <3>3, <3>5, <3>7 DEF Known, HasOwner, Owners
      <3> QED
        BY <3>1, <3>2, <3>8, <3>9
    <2> QED
      BY <2>1, <2>2
  <1>3. rows \in [Products -> Row]
    <2>1. rows = [p \in Products |-> rows[p]]
      BY <1>1
    <2> QED
      BY <1>2, <2>1
  <1>4. mirror \in [Products -> People] /\ MirrorFollows
    BY <1>1, <1>2 DEF Row, State, MirrorFollows
  <1>5. accounts \subseteq Users
    BY <1>1
  <1>6. invitations \in [Products -> [Users -> Invitation]]
    BY <1>1 DEF NotInvited, Invitation
  <1>7. trail \in [Products -> Seq(Act)]
        /\ \A p \in Products : \A i \in 1..Len(trail[p]) : trail[p][i] \in Act
    BY <1>1
  <1>8. Typed
    BY <1>1, <1>2, <1>3, <1>4, <1>5, <1>6, <1>7, NothingIsTyped DEF Typed, TypeOK, Known
  <1>9. LiveIsOwned /\ DormantIsEmpty
    BY <1>1, <1>2 DEF LiveIsOwned, DormantIsEmpty, Live
  <1>10. InvitedToLive
    BY <1>1 DEF InvitedToLive, NotInvited
  <1>11. JoiningTracksRow /\ ScriptTracksRow
    BY <1>1 DEF JoiningTracksRow, ScriptTracksRow, Serving, NoCall
  <1> QED
    BY <1>4, <1>8, <1>9, <1>10, <1>11 DEF IInv

----------------------------------------------------------------------------
(* The tools *)

\* Nothing is joining while a tool runs.
LEMMA ToolsRunAlone ==
    ASSUME IInv, Serving, UNCHANGED joining
    PROVE  joining = NoCall /\ JoiningTracksRow'
  BY DEF IInv, JoiningTracksRow, Serving

\* A tool's change under the row lock, whatever else of the state it changes,
\* as long as it leaves an owner.
LEMMA WithLockStep ==
    ASSUME IInv, Serving, NEW p \in Products, NEW state \in State, NEW acts \in Seq(Act),
           WithLock(p, state, acts),
           HasOwner(state.members), Known(state.members),
           exports' \subseteq Products,
           UNCHANGED <<accounts, invitations, joining, script, lapsed, letIn>>
    PROVE  IInv'
  <1>1. Live(p) /\ Write(p, state) /\ trail' = [trail EXCEPT ![p] = @ \o acts]
    BY DEF WithLock
  <1>2. /\ rows' \in [Products -> Row] /\ mirror' \in [Products -> People]
        /\ rows'[p].version = rows[p].version + 1
        /\ \A q \in Products : rows'[q].phase = rows[q].phase
                               /\ rows'[q].owner = rows[q].owner
        /\ \A q \in Products : q # p => rows'[q] = rows[q]
        /\ \A q \in Products : Known(rows[q].state.members)'
        /\ MirrorFollows' /\ LiveIsOwned'
    BY <1>1, WriteKeepsRows
  <1>3. trail' \in [Products -> Seq(Act)] /\ \A q \in Products : q # p => trail'[q] = trail[q]
    BY <1>1 DEF IInv, Typed
  <1>4. \A q \in Products : \A i \in 1..Len(trail'[q]) : trail'[q][i] \in Act
    BY <1>3
  <1>5. Typed'
    BY <1>2, <1>3, <1>4 DEF IInv, Typed, TypeOK, Known
  <1>6. DormantIsEmpty'
    BY <1>1, <1>2, <1>3 DEF IInv, DormantIsEmpty, Live
  <1>7. InvitedToLive'
    BY <1>2 DEF IInv, InvitedToLive, Live
  <1>8. JoiningTracksRow'
    BY ToolsRunAlone
  <1>9. ScriptTracksRow'
    BY <1>1, <1>2, ScriptOutlivesWrite
  <1> QED
    BY <1>2, <1>5, <1>6, <1>7, <1>8, <1>9 DEF IInv

\* Putting somebody in a role keeps the owners there were.
LEMMA Joined ==
    ASSUME NEW state \in State, NEW u \in Users, NEW role \in Roles,
           state.members[u] = None, HasOwner(state.members), Known(state.members),
           u \in accounts
    PROVE  /\ [state EXCEPT !.members[u] = role] \in State
           /\ [state EXCEPT !.members[u] = role].members = [state.members EXCEPT ![u] = role]
           /\ HasOwner([state.members EXCEPT ![u] = role])
           /\ Known([state.members EXCEPT ![u] = role])
  <1>1. state.members \in People
    BY DEF State
  <1> DEFINE people == [state.members EXCEPT ![u] = role]
  <1>2. people \in People /\ \A v \in Users : v # u => people[v] = state.members[v]
    BY <1>1 DEF People
  <1>3. [state EXCEPT !.members[u] = role]
          = [members |-> people, placed |-> state.placed, renumbered |-> state.renumbered]
    BY DEF State
  <1>4. [state EXCEPT !.members[u] = role] \in State
    <2> HIDE DEF people
    <2> QED
      BY <1>2, <1>3 DEF State
  <1>5. PICK v \in Users : state.members[v] = Owner
    BY DEF HasOwner, Owners
  <1>6. people[v] = Owner
    BY <1>2, <1>5, NothingIsTyped
  <1>7. HasOwner(people)
    BY <1>6 DEF HasOwner, Owners
  <1>8. Known(people)
    BY <1>2 DEF Known
  <1> QED
    BY <1>3, <1>4, <1>7, <1>8

LEMMA AddMemberStep ==
    ASSUME IInv, NEW actor \in Users, NEW p \in Products, NEW u \in Users, NEW role \in Roles,
           AddMember(actor, p, u, role)
    PROVE  IInv'
  <1> DEFINE state == [rows[p].state EXCEPT !.members[u] = role]
             acts == <<[op |-> "add_member", user |-> u, role |-> role]>>
  <1>1. /\ Serving /\ Live(p) /\ u \in accounts /\ rows[p].state.members[u] = None
        /\ WithLock(p, state, acts)
        /\ UNCHANGED <<accounts, exports, invitations, joining, script, lapsed, letIn>>
    BY DEF AddMember, MaySetMembers, Resolves
  <1>2. rows[p].state \in State /\ HasOwner(rows[p].state.members)
        /\ Known(rows[p].state.members)
    BY <1>1, RowIsTyped DEF IInv, LiveIsOwned, Typed, TypeOK, Known
  <1>3. state \in State /\ HasOwner(state.members) /\ Known(state.members)
    <2> DEFINE old == rows[p].state
    <2>1. old \in State /\ HasOwner(old.members) /\ Known(old.members)
          /\ old.members[u] = None /\ u \in accounts
      BY <1>1, <1>2
    <2> HIDE DEF old
    <2>2. /\ [old EXCEPT !.members[u] = role] \in State
          /\ HasOwner([old EXCEPT !.members[u] = role].members)
          /\ Known([old EXCEPT !.members[u] = role].members)
      BY <2>1, Joined
    <2> QED
      BY <2>2 DEF old
  <1>4. acts \in Seq(Act)
    BY DEF Act
  <1>5. exports' \subseteq Products
    BY <1>1 DEF IInv, Typed, TypeOK
  <1> QED
    BY <1>1, <1>3, <1>4, <1>5, WithLockStep

LEMMA InviteStep ==
    ASSUME IInv, NEW actor \in Users, NEW p \in Products, NEW u \in Users, NEW role \in Roles,
           Invite(actor, p, u, role)
    PROVE  IInv'
  <1>1. /\ Serving /\ Live(p)
        /\ invitations' = [invitations EXCEPT ![p][u].role = role]
        /\ UNCHANGED <<accounts, rows, mirror, exports, trail, joining, script, lapsed, letIn>>
    BY DEF Invite, MaySetMembers
  <1>2. invitations \in [Products -> [Users -> Invitation]]
    BY DEF IInv, Typed, TypeOK
  <1>3. \A q \in Products, v \in Users : invitations[q][v] \in Invitation
    BY <1>2
  <1>4. invitations' = [invitations EXCEPT ![p] = [invitations[p] EXCEPT
                           ![u] = [role |-> role, accepted |-> invitations[p][u].accepted]]]
    <2>1. [invitations[p][u] EXCEPT !.role = role]
            = [role |-> role, accepted |-> invitations[p][u].accepted]
      BY <1>3 DEF Invitation
    <2> QED
      BY <1>1, <2>1
  <1>5. [role |-> role, accepted |-> invitations[p][u].accepted] \in Invitation
    BY <1>3 DEF Invitation
  <1>6. invitations' \in [Products -> [Users -> Invitation]]
    BY <1>2, <1>4, <1>5
  <1>7. \A q \in Products, v \in Users :
            <<q, v>> # <<p, u>> => invitations'[q][v] = invitations[q][v]
    BY <1>2, <1>4
  <1>8. Typed'
    BY <1>1, <1>6 DEF IInv, Typed, TypeOK
  <1>9. InvitedToLive'
    BY <1>1, <1>7 DEF IInv, InvitedToLive, Live
  <1>10. JoiningTracksRow'
    BY <1>1, ToolsRunAlone
  <1> QED
    BY <1>1, <1>8, <1>9, <1>10 DEF IInv, MirrorFollows, LiveIsOwned, DormantIsEmpty, Live,
       ScriptTracksRow, HasOwner, Owners, Known

\* remove_member refuses the last owner, so whoever goes leaves one behind.
LEMMA AnotherOwnerStays ==
    ASSUME IInv, NEW actor \in Users, NEW p \in Products, NEW u \in Users,
           RemoveMember(actor, p, u)
    PROVE  HasOwner([rows[p].state.members EXCEPT ![u] = None])
  <1>1. /\ rows[p].state.members[actor] = Owner
        /\ Owners(rows[p].state.members) # {u}
    BY DEF RemoveMember, MaySetMembers, LastOwner
  <1>2. actor \in Owners(rows[p].state.members)
    BY <1>1 DEF Owners
  <1>3. PICK v \in Owners(rows[p].state.members) : v # u
    BY <1>1, <1>2
  <1>4. rows[p].state.members \in People
    BY RowIsTyped DEF IInv
  <1> QED
    BY <1>3, <1>4 DEF HasOwner, Owners, People

LEMMA RemoveMemberStep ==
    ASSUME IInv, NEW actor \in Users, NEW p \in Products, NEW u \in Users,
           RemoveMember(actor, p, u)
    PROVE  IInv'
  <1> DEFINE state == [rows[p].state EXCEPT !.members[u] = None]
             people == [rows[p].state.members EXCEPT ![u] = None]
             acts == <<[op |-> "remove_member", user |-> u,
                        role |-> rows[p].state.members[u]]>>
  <1>1. /\ Serving /\ Live(p) /\ rows[p].state.members[u] # None
        /\ WithLock(p, state, acts)
        /\ UNCHANGED <<accounts, exports, invitations, joining, script, lapsed, letIn>>
    BY DEF RemoveMember, MaySetMembers
  <1>2. rows[p].state \in State /\ rows[p].state.members \in People
        /\ Known(rows[p].state.members)
    BY RowIsTyped DEF IInv, Typed, TypeOK, Known
  <1>3. state = [members |-> people, placed |-> rows[p].state.placed,
                 renumbered |-> rows[p].state.renumbered]
    BY <1>2 DEF State
  <1>4. people \in People
    BY <1>2 DEF People
  <1>5. state \in State
    <2> HIDE DEF people
    <2> QED
      BY <1>2, <1>3, <1>4 DEF State
  <1>6. HasOwner(people)
    BY AnotherOwnerStays
  <1>7. Known(people)
    BY <1>2 DEF Known, People
  <1>8. HasOwner(state.members) /\ Known(state.members)
    BY <1>3, <1>6, <1>7
  <1>9. acts \in Seq(Act)
    BY <1>1, <1>2 DEF Act, People
  <1>10. exports' \subseteq Products
    BY <1>1 DEF IInv, Typed, TypeOK
  <1> QED
    BY <1>1, <1>5, <1>8, <1>9, <1>10, WithLockStep

LEMMA ExportStep ==
    ASSUME IInv, NEW p \in Products, NEW placing \in BOOLEAN, Export(p, placing)
    PROVE  IInv'
  <1> DEFINE state == [rows[p].state EXCEPT !.placed = @ \/ placing]
  <1>1. /\ Serving /\ WithLock(p, state, <<>>) /\ Live(p)
        /\ exports' = exports \cup {p}
        /\ UNCHANGED <<accounts, invitations, joining, script, lapsed, letIn>>
    BY DEF Export, WithLock
  <1>2. rows[p].state \in State /\ HasOwner(rows[p].state.members)
        /\ Known(rows[p].state.members)
    BY <1>1, RowIsTyped DEF IInv, LiveIsOwned, Typed, TypeOK, Known
  <1>3. state \in State /\ state.members = rows[p].state.members
    <2>1. rows[p].state.placed \/ placing \in BOOLEAN
      BY <1>2 DEF State
    <2> QED
      BY <1>2, <2>1 DEF State
  <1>4. <<>> \in Seq(Act) /\ exports' \subseteq Products
    BY <1>1 DEF IInv, Typed, TypeOK
  <1> QED
    BY <1>1, <1>2, <1>3, <1>4, WithLockStep

LEMMA CreateProductStep ==
    ASSUME IInv, NEW u \in Users, NEW p \in Products, CreateProduct(u, p)
    PROVE  IInv'
  <1> DEFINE people == [Nobody EXCEPT ![u] = Owner]
             state == [NoState EXCEPT !.members = people]
             row == [phase |-> "live", owner |-> u, version |-> 0, state |-> state]
  <1>1. /\ Serving /\ u \in accounts /\ rows[p].phase = "unused"
        /\ rows' = [rows EXCEPT ![p] = row]
        /\ mirror' = [mirror EXCEPT ![p] = people]
        /\ UNCHANGED <<accounts, exports, invitations, trail, joining, script, lapsed, letIn>>
    BY DEF CreateProduct
  <1>2. people \in People /\ people[u] = Owner
        /\ \A v \in Users : people[v] # None => v = u
    BY NothingIsTyped DEF Nobody, People
  <1>4. state \in State /\ state.members = people
    <2> HIDE DEF people
    <2> QED
      BY <1>2, NothingIsTyped DEF State
  <1>5. 0 \in 0..MaxVersion
    BY MembershipAssumption
  <1>6. row \in Row /\ row.phase = "live" /\ row.owner = u /\ row.state = state
    <2> HIDE DEF state
    <2> QED
      BY <1>4, <1>5 DEF Row
  <1>7. HasOwner(people) /\ Known(people)
    BY <1>1, <1>2 DEF HasOwner, Owners, Known
  <1> HIDE DEF row, state, people
  <1>8. rows \in [Products -> Row] /\ mirror \in [Products -> People]
    BY DEF IInv, Typed, TypeOK
  <1>9. rows' \in [Products -> Row] /\ mirror' \in [Products -> People]
        /\ rows'[p] = row /\ mirror'[p] = people
        /\ \A q \in Products : q # p => rows'[q] = rows[q] /\ mirror'[q] = mirror[q]
    BY <1>1, <1>2, <1>6, <1>8
  <1>10. \A q \in Products : Known(rows[q].state.members)'
    <2> SUFFICES ASSUME NEW q \in Products PROVE Known(rows[q].state.members)'
      OBVIOUS
    <2>1. CASE q = p
      BY <1>1, <1>4, <1>6, <1>7, <1>9, <2>1 DEF Known
    <2>2. CASE q # p
      BY <1>1, <1>9, <2>2 DEF Known, IInv, Typed, TypeOK
    <2> QED
      BY <2>1, <2>2
  <1>11. Typed'
    BY <1>1, <1>9, <1>10 DEF IInv, Typed, TypeOK, Known
  <1>12. MirrorFollows'
    BY <1>4, <1>6, <1>9 DEF IInv, MirrorFollows
  <1>13. LiveIsOwned'
    BY <1>4, <1>6, <1>7, <1>9 DEF IInv, LiveIsOwned, Live, HasOwner, Owners
  <1>14. DormantIsEmpty'
    BY <1>1, <1>6, <1>9 DEF IInv, DormantIsEmpty, Live
  <1>15. InvitedToLive'
    BY <1>1, <1>6, <1>9 DEF IInv, InvitedToLive, Live
  <1>16. JoiningTracksRow'
    BY <1>1, ToolsRunAlone
  <1>17. ScriptTracksRow'
    BY <1>1, <1>9 DEF IInv, ScriptTracksRow, Live, HasOwner, Owners, Known
  <1> QED
    BY <1>11, <1>12, <1>13, <1>14, <1>15, <1>16, <1>17 DEF IInv

LEMMA DeleteProductStep ==
    ASSUME IInv, NEW actor \in Users, NEW p \in Products, DeleteProduct(actor, p)
    PROVE  IInv'
  <1> DEFINE row == [phase |-> "deleted", owner |-> None, state |-> NoState, version |-> 0]
  <1>1. /\ Serving /\ Live(p)
        /\ rows' = [rows EXCEPT ![p] = row]
        /\ mirror' = [mirror EXCEPT ![p] = Nobody]
        /\ invitations' = [invitations EXCEPT ![p] = [u \in Users |-> NotInvited]]
        /\ trail' = [trail EXCEPT ![p] = <<>>]
        /\ letIn' \subseteq letIn
        /\ UNCHANGED <<accounts, exports, joining, script, lapsed>>
    BY DEF DeleteProduct, MaySetMembers
  <1>2. 0 \in 0..MaxVersion
    BY MembershipAssumption
  <1>3. row \in Row /\ row.phase = "deleted" /\ row.owner = None /\ row.state = NoState
    BY <1>2, NothingIsTyped DEF Row
  <1> HIDE DEF row
  <1>4. /\ rows \in [Products -> Row] /\ mirror \in [Products -> People]
        /\ invitations \in [Products -> [Users -> Invitation]]
        /\ trail \in [Products -> Seq(Act)]
    BY DEF IInv, Typed, TypeOK
  <1>5. /\ rows' \in [Products -> Row] /\ mirror' \in [Products -> People]
        /\ rows'[p] = row /\ mirror'[p] = Nobody
        /\ \A q \in Products : q # p => rows'[q] = rows[q] /\ mirror'[q] = mirror[q]
    BY <1>1, <1>3, <1>4, NothingIsTyped
  <1>6. /\ invitations' \in [Products -> [Users -> Invitation]]
        /\ \A q \in Products, v \in Users :
              invitations'[q][v].role # None => q # p /\ invitations[q][v].role # None
    <2>1. NotInvited \in Invitation /\ NotInvited.role = None
      BY DEF NotInvited, Invitation
    <2> QED
      BY <1>1, <1>4, <2>1
  <1>7. trail' \in [Products -> Seq(Act)] /\ trail'[p] = <<>>
        /\ \A q \in Products : q # p => trail'[q] = trail[q]
    BY <1>1, <1>4
  <1>8. \A q \in Products : Known(rows[q].state.members)'
    <2>1. NoState.members = Nobody /\ \A v \in Users : Nobody[v] = None
      BY DEF NoState, Nobody
    <2> QED
      BY <1>1, <1>3, <1>5, <2>1 DEF Known, IInv, Typed, TypeOK
  <1>9. \A q \in Products : \A i \in 1..Len(trail'[q]) : trail'[q][i] \in Act
    BY <1>7
  <1>10. Typed'
    BY <1>1, <1>5, <1>6, <1>7, <1>8, <1>9 DEF IInv, Typed, TypeOK, Known
  <1>11. MirrorFollows'
    BY <1>3, <1>5 DEF IInv, MirrorFollows, NoState
  <1>12. LiveIsOwned'
    BY <1>3, <1>5 DEF IInv, LiveIsOwned, Live, HasOwner, Owners
  <1>13. DormantIsEmpty'
    BY <1>1, <1>3, <1>5, <1>7 DEF IInv, DormantIsEmpty, Live
  <1>14. InvitedToLive'
    BY <1>5, <1>6 DEF IInv, InvitedToLive, Live
  <1>15. JoiningTracksRow'
    BY <1>1, ToolsRunAlone
  <1>16. ScriptTracksRow'
    BY <1>1, <1>3, <1>5 DEF IInv, ScriptTracksRow, Live, HasOwner, Owners, Known
  <1> QED
    BY <1>10, <1>11, <1>12, <1>13, <1>14, <1>15, <1>16 DEF IInv

----------------------------------------------------------------------------
(* The deferred joining *)

\* A step of the joining that writes nothing but the call keeps the invariant
\* if the call it leaves does.
LEMMA CallMoves ==
    ASSUME IInv, joining' \in Call, JoiningTracksRow', lapsed' \subseteq Products,
           letIn' \subseteq letIn,
           \A p \in Products : p \in lapsed' => p \in lapsed \/ Live(p),
           UNCHANGED <<accounts, rows, mirror, exports, invitations, trail, script>>
    PROVE  IInv'
  <1>1. Typed'
    BY DEF IInv, Typed, TypeOK
  <1>2. DormantIsEmpty'
    BY DEF IInv, DormantIsEmpty, Live
  <1> QED
    BY <1>1, <1>2 DEF IInv, MirrorFollows, LiveIsOwned, InvitedToLive, Live,
       ScriptTracksRow, HasOwner, Owners, Known

\* While somebody joins, the call is one of his: of the products it is at and
\* has left, each is there and he is invited to it in a role.
LEMMA CallIsTyped ==
    ASSUME IInv
    PROVE  /\ joining \in Call
           /\ joining.todo \subseteq Products
           /\ joining.version \in 0..MaxVersion
           /\ joining.copy \in State
           /\ ~Serving => joining.user \in Users
           /\ ~Serving => \A p \in joining.todo :
                             Live(p) /\ invitations[p][joining.user].role \in Roles
           /\ joining.stage # "next" =>
                 ~Serving /\ joining.product \in joining.todo
  <1>1. joining \in Call
    BY DEF IInv, Typed, TypeOK
  <1>2. joining.todo \subseteq Products /\ joining.user \in Users \cup {None}
        /\ joining.version \in 0..MaxVersion /\ joining.copy \in State
    BY <1>1 DEF Call
  <1>3. Serving => joining.stage = "next"
    BY DEF IInv, JoiningTracksRow, NoCall
  <1>4. ~Serving => joining.user \in Users
    BY <1>2 DEF Serving
  <1>5. ASSUME ~Serving, NEW p \in joining.todo
        PROVE  Live(p) /\ invitations[p][joining.user].role \in Roles
    <2>1. p \in Products /\ invitations[p][joining.user].role # None
      BY <1>2, <1>5 DEF IInv, JoiningTracksRow
    <2>2. invitations[p][joining.user] \in Invitation
      BY <1>4, <1>5, <2>1 DEF IInv, Typed, TypeOK
    <2> QED
      BY <1>4, <1>5, <2>1, <2>2 DEF IInv, InvitedToLive, Invitation
  <1> QED
    BY <1>1, <1>2, <1>3, <1>4, <1>5 DEF IInv, JoiningTracksRow

\* The call for the rest of the invitations is one that has read nothing.
LEMMA RestIsACall ==
    ASSUME IInv, ~Serving
    PROVE  /\ RestOf(joining) \in Call
           /\ RestOf(joining).stage = "next"
           /\ \/ RestOf(joining) = NoCall
              \/ /\ RestOf(joining).user = joining.user
                 /\ RestOf(joining).todo = joining.todo \ {joining.product}
  <1> DEFINE left == joining.todo \ {joining.product}
             rest == [NoCall EXCEPT !.user = joining.user, !.todo = left]
  <1>1. RestOf(joining) = IF left = {} THEN NoCall ELSE rest
    BY DEF RestOf
  <1>4. joining.user \in Users /\ left \subseteq Products
    BY CallIsTyped
  <1>5. rest \in Call /\ rest.user = joining.user /\ rest.todo = left /\ rest.stage = NoCall.stage
    <2> HIDE DEF left
    <2> QED
      BY <1>4, NothingIsTyped DEF Call
  <1>6. NoCall \in Call /\ NoCall.stage = "next"
    BY NothingIsTyped DEF NoCall
  <1> QED
    BY <1>1, <1>5, <1>6

\* From there, the call for the rest tracks the rows.
LEMMA RestTracksRow ==
    ASSUME IInv, ~Serving, joining' = RestOf(joining),
           \A p \in Products : p # joining.product =>
              invitations'[p][joining.user].role = invitations[p][joining.user].role,
           UNCHANGED accounts
    PROVE  JoiningTracksRow' /\ joining' \in Call
  <1>1. CASE joining' = NoCall
    BY <1>1, NothingIsTyped DEF JoiningTracksRow, Serving, NoCall
  <1>2. CASE joining' # NoCall
    <2>1. /\ joining'.user = joining.user /\ joining'.stage = "next"
          /\ joining'.todo = joining.todo \ {joining.product}
          /\ joining' \in Call
      BY <1>2, RestIsACall
    <2>2. /\ joining.user \in accounts
          /\ \A p \in joining.todo : invitations[p][joining.user].role # None
          /\ joining.user # None
      BY DEF IInv, JoiningTracksRow, Serving
    <2>3. \A p \in joining'.todo : invitations'[p][joining'.user].role # None
      BY <2>1, <2>2, CallIsTyped
    <2> QED
      BY <2>1, <2>2, <2>3 DEF JoiningTracksRow, Serving
  <1> QED
    BY <1>1, <1>2

LEMMA SignInStep ==
    ASSUME IInv, NEW u \in Users, SignIn(u)
    PROVE  IInv'
  <1>1. /\ Serving /\ accounts' = accounts \cup {u}
        /\ joining' = IF Pending(u) = {} THEN NoCall
                      ELSE [NoCall EXCEPT !.user = u, !.todo = Pending(u)]
        /\ UNCHANGED <<rows, mirror, exports, invitations, trail, script, lapsed, letIn>>
    BY DEF SignIn
  <1>2. Pending(u) \subseteq Products
        /\ \A p \in Pending(u) : invitations[p][u].role # None
    BY DEF Pending
  <1>3. joining' \in Call /\ JoiningTracksRow'
    <2>1. CASE Pending(u) = {}
      <3>1. joining' = NoCall /\ NoCall.user = None
        BY <1>1, <2>1 DEF NoCall
      <3> QED
        BY <3>1, NothingIsTyped DEF JoiningTracksRow, Serving
    <2>2. CASE Pending(u) # {}
      <3>1. joining' = [user |-> u, todo |-> Pending(u), stage |-> "next", product |-> None,
                        copy |-> NoState, version |-> 0]
        BY <1>1, <2>2 DEF NoCall
      <3>2. 0 \in 0..MaxVersion
        BY MembershipAssumption
      <3>3. joining' \in Call
        BY <1>2, <3>1, <3>2, NothingIsTyped DEF Call, Stages
      <3>4. u # None
        BY MembershipAssumption
      <3>5. joining'.user = u /\ joining'.todo = Pending(u) /\ joining'.stage = "next"
        BY <3>1
      <3>6. JoiningTracksRow'
        BY <1>1, <1>2, <3>4, <3>5 DEF JoiningTracksRow, Serving
      <3> QED
        BY <3>3, <3>6
    <2> QED
      BY <2>1, <2>2
  <1>4. Typed'
    BY <1>1, <1>3 DEF IInv, Typed, TypeOK
  <1>5. ScriptTracksRow'
    BY <1>1 DEF IInv, ScriptTracksRow, Live, HasOwner, Owners, Known
  <1> QED
    BY <1>1, <1>3, <1>4, <1>5 DEF IInv, MirrorFollows, LiveIsOwned, DormantIsEmpty,
       InvitedToLive, Live, HasOwner, Owners

LEMMA JoinLoadStep ==
    ASSUME IInv, NEW p \in Products, JoinLoad(p)
    PROVE  IInv'
  <1>1. /\ joining.stage = "next" /\ p \in joining.todo
        /\ joining' = IF rows[p].state.members[joining.user] # None
                      THEN [joining EXCEPT !.product = p, !.stage = "accept"]
                      ELSE [joining EXCEPT !.product = p, !.stage = "save",
                                           !.copy = rows[p].state, !.version = rows[p].version]
        /\ UNCHANGED <<accounts, rows, mirror, exports, invitations, trail, script, lapsed, letIn>>
    BY DEF JoinLoad
  <1>2. ~Serving
    BY <1>1 DEF IInv, JoiningTracksRow, NoCall
  <1>3. /\ joining.user \in accounts /\ joining.user # None
        /\ \A q \in joining.todo : invitations[q][joining.user].role # None
    BY <1>2 DEF IInv, JoiningTracksRow, Serving
  <1>4. joining \in Call /\ Live(p) /\ joining.user \in Users
    BY <1>1, <1>2, CallIsTyped
  <1>5. CASE rows[p].state.members[joining.user] # None
    <2>1. joining' = [joining EXCEPT !.product = p, !.stage = "accept"]
      BY <1>1, <1>5
    <2>2. joining' \in Call /\ joining'.user = joining.user /\ joining'.todo = joining.todo
          /\ joining'.product = p /\ joining'.stage = "accept"
      BY <1>4, <2>1 DEF Call, Stages
    <2>3. JoiningTracksRow'
      BY <1>1, <1>3, <2>2 DEF JoiningTracksRow, Serving
    <2> QED
      BY <1>1, <2>2, <2>3, CallMoves DEF IInv, Typed, TypeOK
  <1>6. CASE rows[p].state.members[joining.user] = None
    <2>1. joining' = [joining EXCEPT !.product = p, !.stage = "save",
                                     !.copy = rows[p].state, !.version = rows[p].version]
      BY <1>1, <1>6
    <2>2. rows[p].state \in State /\ rows[p].version \in 0..MaxVersion
          /\ rows[p].version \in Nat
      BY RowIsTyped DEF IInv
    <2>3. joining' \in Call /\ joining'.user = joining.user /\ joining'.todo = joining.todo
          /\ joining'.product = p /\ joining'.stage = "save"
          /\ joining'.copy = rows[p].state /\ joining'.version = rows[p].version
      BY <1>4, <2>1, <2>2 DEF Call, Stages
    <2>4. HasOwner(rows[p].state.members) /\ Known(rows[p].state.members)
      BY <1>4 DEF IInv, LiveIsOwned, Typed, TypeOK, Known
    <2>5. JoiningTracksRow'
      BY <1>1, <1>3, <1>6, <2>2, <2>3, <2>4
         DEF JoiningTracksRow, Serving, HasOwner, Owners, Known
    <2> QED
      BY <1>1, <2>3, <2>5, CallMoves DEF IInv, Typed, TypeOK
  <1> QED
    BY <1>5, <1>6

\* What the save of an invited member writes, and over what.
LEMMA JoinSaveWrites ==
    ASSUME IInv, JoinSave
    PROVE  LET p == joining.product
               people == [joining.copy.members EXCEPT ![joining.user] = Granted]
           IN  /\ p \in Products /\ Live(p) /\ ~Serving
               /\ joining.user \in Users /\ Granted \in Roles
               /\ [joining.copy EXCEPT !.members[joining.user] = Granted] \in State
               /\ [joining.copy EXCEPT !.members[joining.user] = Granted].members = people
               /\ HasOwner(people) /\ Known(people)
               /\ joining.copy.members[joining.user] = None
               /\ joining.version = rows[p].version => joining.copy = rows[p].state
  <1>1. joining.stage = "save"
    BY DEF JoinSave
  <1>2. /\ ~Serving /\ joining.product \in joining.todo
        /\ joining.todo \subseteq Products /\ joining.user \in Users
        /\ joining.copy \in State
        /\ Live(joining.product) /\ Granted \in Roles
    BY <1>1, CallIsTyped DEF Granted
  <1>3. /\ joining.user \in accounts
        /\ HasOwner(joining.copy.members)
        /\ Known(joining.copy.members)
        /\ joining.copy.members[joining.user] = None
        /\ joining.version = rows[joining.product].version =>
              joining.copy = rows[joining.product].state
    BY <1>1, <1>2 DEF IInv, JoiningTracksRow
  <1>4. /\ [joining.copy EXCEPT !.members[joining.user] = Granted] \in State
        /\ [joining.copy EXCEPT !.members[joining.user] = Granted].members
             = [joining.copy.members EXCEPT ![joining.user] = Granted]
        /\ HasOwner([joining.copy.members EXCEPT ![joining.user] = Granted])
        /\ Known([joining.copy.members EXCEPT ![joining.user] = Granted])
    BY <1>2, <1>3, Joined
  <1> QED
    BY <1>2, <1>3, <1>4

LEMMA JoinSaveStep ==
    ASSUME IInv, JoinSave
    PROVE  IInv'
  <1> DEFINE p == joining.product
             state == [joining.copy EXCEPT !.members[joining.user] = Granted]
  <1>1. /\ joining.stage = "save" /\ Write(p, state)
        /\ lapsed' = IF joining.version = rows[p].version THEN lapsed ELSE lapsed \cup {p}
        /\ joining' = [joining EXCEPT !.stage = "record", !.copy = NoState, !.version = 0]
        /\ UNCHANGED <<accounts, exports, invitations, trail, script>>
    BY DEF JoinSave
  <1>2. p \in Products /\ Live(p) /\ ~Serving /\ state \in State
        /\ HasOwner(state.members) /\ Known(state.members)
    BY JoinSaveWrites
  <1>3. /\ rows' \in [Products -> Row] /\ mirror' \in [Products -> People]
        /\ rows'[p].version = rows[p].version + 1
        /\ \A q \in Products : rows'[q].phase = rows[q].phase
                               /\ rows'[q].owner = rows[q].owner
        /\ \A q \in Products : q # p => rows'[q] = rows[q]
        /\ \A q \in Products : Known(rows[q].state.members)'
        /\ MirrorFollows' /\ LiveIsOwned'
    <2> HIDE DEF p, state
    <2> QED
      BY <1>1, <1>2, WriteKeepsRows
  <1>4. joining \in Call /\ p \in joining.todo
    BY <1>1, CallIsTyped
  <1>5. joining' \in Call /\ joining'.user = joining.user /\ joining'.todo = joining.todo
        /\ joining'.product = p /\ joining'.stage = "record"
    <2>1. 0 \in 0..MaxVersion
      BY MembershipAssumption
    <2> QED
      BY <1>1, <1>4, <2>1, NothingIsTyped DEF Call, Stages
  <1>6. Typed'
    <2>1. letIn' \subseteq Products \X Users
      BY <1>2, JoinSaveWrites DEF JoinSave, Invitee, IInv, Typed, TypeOK
    <2> QED
      BY <1>1, <1>2, <1>3, <1>5, <2>1 DEF IInv, Typed, TypeOK, Known
  <1>7. DormantIsEmpty'
    BY <1>1, <1>2, <1>3 DEF IInv, DormantIsEmpty, Live
  <1>8. InvitedToLive'
    BY <1>1, <1>3 DEF IInv, InvitedToLive, Live
  <1>9. JoiningTracksRow'
    BY <1>1, <1>2, <1>4, <1>5 DEF IInv, JoiningTracksRow, Serving
  <1>10. ScriptTracksRow'
    <2> HIDE DEF p
    <2> QED
      BY <1>1, <1>2, <1>3, ScriptOutlivesWrite
  <1> QED
    BY <1>3, <1>6, <1>7, <1>8, <1>9, <1>10 DEF IInv

LEMMA JoinRecordStep ==
    ASSUME IInv, JoinRecord
    PROVE  IInv'
  <1>1. /\ joining.stage = "record"
        /\ trail' = [trail EXCEPT ![joining.product] = Append(@, InFlight)]
        /\ joining' = [joining EXCEPT !.stage = "accept"]
        /\ UNCHANGED <<accounts, rows, mirror, exports, invitations, script, lapsed, letIn>>
    BY DEF JoinRecord
  <1>2. /\ ~Serving /\ joining.product \in joining.todo /\ joining \in Call
        /\ joining.todo \subseteq Products /\ joining.user \in Users
        /\ Live(joining.product) /\ Granted \in Roles
    BY <1>1, CallIsTyped DEF Granted
  <1>3. InFlight \in Act
    BY <1>2 DEF InFlight, Act
  <1>4. trail' \in [Products -> Seq(Act)]
        /\ \A q \in Products : q # joining.product => trail'[q] = trail[q]
    BY <1>1, <1>2, <1>3 DEF IInv, Typed
  <1>5. \A q \in Products : \A i \in 1..Len(trail'[q]) : trail'[q][i] \in Act
    BY <1>4
  <1>6. joining' \in Call /\ joining'.user = joining.user /\ joining'.todo = joining.todo
        /\ joining'.product = joining.product /\ joining'.stage = "accept"
    BY <1>1, <1>2 DEF Call, Stages
  <1>7. Typed'
    BY <1>1, <1>4, <1>5, <1>6 DEF IInv, Typed, TypeOK
  <1>8. DormantIsEmpty'
    BY <1>1, <1>2, <1>4 DEF IInv, DormantIsEmpty, Live
  <1>9. JoiningTracksRow'
    BY <1>1, <1>2, <1>6 DEF IInv, JoiningTracksRow, Serving
  <1> QED
    BY <1>1, <1>7, <1>8, <1>9 DEF IInv, MirrorFollows, LiveIsOwned, InvitedToLive, Live,
       ScriptTracksRow, HasOwner, Owners, Known

LEMMA JoinAcceptStep ==
    ASSUME IInv, JoinAccept
    PROVE  IInv'
  <1> DEFINE p == joining.product
             u == joining.user
  <1>1. /\ joining.stage = "accept"
        /\ invitations' = [invitations EXCEPT ![p][u].accepted = TRUE]
        /\ joining' = RestOf(joining)
        /\ UNCHANGED <<accounts, rows, mirror, exports, trail, script, lapsed, letIn>>
    BY DEF JoinAccept
  <1>2. ~Serving /\ p \in Products /\ u \in Users
    BY <1>1, CallIsTyped
  <1> HIDE DEF p, u
  <1>3. invitations \in [Products -> [Users -> Invitation]]
        /\ \A q \in Products, v \in Users : invitations[q][v] \in Invitation
    BY DEF IInv, Typed, TypeOK
  <1> DEFINE accepted == [invitations[p][u] EXCEPT !.accepted = TRUE]
  <1>4. accepted \in Invitation /\ accepted.role = invitations[p][u].role
    BY <1>2, <1>3 DEF Invitation
  <1>5. invitations' = [invitations EXCEPT ![p] = [invitations[p] EXCEPT ![u] = accepted]]
    BY <1>1
  <1> HIDE DEF accepted
  <1>7. invitations' \in [Products -> [Users -> Invitation]]
        /\ \A q \in Products, v \in Users : invitations'[q][v].role = invitations[q][v].role
    BY <1>2, <1>3, <1>4, <1>5
  <1>8. JoiningTracksRow' /\ joining' \in Call
    BY <1>1, <1>2, <1>7, RestTracksRow DEF u
  <1>9. Typed'
    BY <1>1, <1>7, <1>8 DEF IInv, Typed, TypeOK
  <1>10. InvitedToLive'
    BY <1>1, <1>7 DEF IInv, InvitedToLive, Live
  <1> QED
    BY <1>1, <1>8, <1>9, <1>10 DEF IInv, MirrorFollows, LiveIsOwned, DormantIsEmpty, Live,
       ScriptTracksRow, HasOwner, Owners, Known

\* A product at which a row is owed is there.
LEMMA UnrecordedIsLive ==
    ASSUME IInv
    PROVE  \A p \in Unrecorded : p \in Products /\ Live(p)
  BY CallIsTyped DEF Unrecorded

LEMMA JoinFailsStep ==
    ASSUME IInv, JoinFails
    PROVE  IInv'
  <1>1. /\ joining.stage # "next" /\ joining' = RestOf(joining)
        /\ lapsed' = lapsed \cup Unrecorded
        /\ letIn' \subseteq letIn
        /\ UNCHANGED <<accounts, rows, mirror, exports, invitations, trail, script>>
    BY DEF JoinFails
  <1>2. ~Serving
    BY <1>1, CallIsTyped
  <1>3. JoiningTracksRow' /\ joining' \in Call
    BY <1>1, <1>2, RestTracksRow
  <1> QED
    BY <1>1, <1>3, UnrecordedIsLive, CallMoves DEF IInv, Typed, TypeOK

LEMMA JoinEndsStep ==
    ASSUME IInv, JoinEnds
    PROVE  IInv'
  <1>1. /\ joining' = NoCall
        /\ lapsed' = lapsed \cup Unrecorded
        /\ letIn' \subseteq letIn
        /\ UNCHANGED <<accounts, rows, mirror, exports, invitations, trail, script>>
    BY DEF JoinEnds
  <1>2. JoiningTracksRow' /\ joining' \in Call
    BY <1>1, NothingIsTyped DEF JoiningTracksRow, Serving, NoCall
  <1> QED
    BY <1>1, <1>2, UnrecordedIsLive, CallMoves DEF IInv, Typed, TypeOK

----------------------------------------------------------------------------
(* The migration *)

LEMMA MigrateLoadStep ==
    ASSUME IInv, NEW p \in Products, MigrateLoad(p)
    PROVE  IInv'
  <1> DEFINE copied == [rows[p].state EXCEPT !.renumbered = TRUE]
  <1>1. /\ Live(p)
        /\ script' = [product |-> p, copy |-> copied, version |-> rows[p].version]
        /\ UNCHANGED <<accounts, rows, mirror, exports, invitations, trail, joining, lapsed, letIn>>
    BY DEF MigrateLoad
  <1>2. rows[p].state \in State /\ rows[p].version \in 0..MaxVersion
        /\ rows[p].version \in Nat
    BY RowIsTyped DEF IInv
  <1>3. copied \in State /\ copied.members = rows[p].state.members
    BY <1>2 DEF State
  <1>4. HasOwner(rows[p].state.members) /\ Known(rows[p].state.members)
    BY <1>1 DEF IInv, LiveIsOwned, Typed, TypeOK, Known
  <1> HIDE DEF copied
  <1>5. script' \in Copy /\ script'.product = p /\ script'.copy = copied
        /\ script'.version = rows[p].version
    BY <1>1, <1>2, <1>3 DEF Copy
  <1>6. Typed'
    BY <1>1, <1>5 DEF IInv, Typed, TypeOK
  <1>7. ScriptTracksRow'
    BY <1>1, <1>2, <1>3, <1>4, <1>5 DEF ScriptTracksRow, Live, HasOwner, Owners, Known
  <1>8. JoiningTracksRow'
    BY <1>1 DEF IInv, JoiningTracksRow, Serving, HasOwner, Owners, Known
  <1> QED
    BY <1>1, <1>6, <1>7, <1>8 DEF IInv, MirrorFollows, LiveIsOwned, DormantIsEmpty,
       InvitedToLive, Live, HasOwner, Owners

\* What is held for a joining stays true while another process writes a row
\* over: either it is not the one being joined, or its version moved on.
LEMMA JoiningOutlivesWrite ==
    ASSUME IInv, NEW p \in Products,
           Live(p) => rows'[p].version = rows[p].version + 1,
           \A q \in Products : q # p => rows'[q] = rows[q],
           UNCHANGED <<accounts, invitations, joining>>
    PROVE  JoiningTracksRow'
  <1>1. CASE Serving
    BY <1>1, ToolsRunAlone
  <1>2. CASE ~Serving
    <2>1. /\ joining.user \in accounts
          /\ \A q \in joining.todo : invitations[q][joining.user].role # None
          /\ joining.stage # "next" => joining.product \in joining.todo
      BY <1>2 DEF IInv, JoiningTracksRow
    <2>2. ASSUME joining.stage = "save"
          PROVE  /\ HasOwner(joining.copy.members)
                 /\ Known(joining.copy.members)
                 /\ joining.copy.members[joining.user] = None
                 /\ joining.version <= rows'[joining.product].version
                 /\ joining.version = rows'[joining.product].version =>
                       joining.copy = rows'[joining.product].state
      <3>1. /\ HasOwner(joining.copy.members)
            /\ Known(joining.copy.members)
            /\ joining.copy.members[joining.user] = None
            /\ joining.version <= rows[joining.product].version
            /\ joining.version = rows[joining.product].version =>
                  joining.copy = rows[joining.product].state
        BY <1>2, <2>2 DEF IInv, JoiningTracksRow
      <3>2. joining.product \in Products /\ Live(joining.product)
            /\ joining.version \in Nat
        BY <1>2, <2>2, CallIsTyped, MembershipAssumption
      <3>3. rows[joining.product].version \in Nat
        BY <3>2, RowIsTyped DEF IInv
      <3> QED
        BY <3>1, <3>2, <3>3
    <2> QED
      BY <1>2, <2>1, <2>2 DEF JoiningTracksRow, Serving, HasOwner, Owners, Known
  <1> QED
    BY <1>1, <1>2

LEMMA MigrateSaveStep ==
    ASSUME IInv, MigrateSave
    PROVE  IInv'
  <1> DEFINE p == script.product
  <1>1. /\ script # NoCopy /\ script' = NoCopy
        /\ UNCHANGED <<accounts, exports, invitations, trail, joining, letIn>>
    BY DEF MigrateSave
  <1>2. /\ p \in Products /\ rows[p].phase # "unused"
        /\ HasOwner(script.copy.members) /\ Known(script.copy.members)
    BY <1>1 DEF IInv, ScriptTracksRow
  <1>3. script.copy \in State /\ script.copy.members \in People
    BY DEF IInv, Typed, TypeOK, Copy, State
  <1>4. ScriptTracksRow'
    BY <1>1 DEF ScriptTracksRow
  <1>5. CASE Live(p)
    <2>1. /\ Write(p, script.copy)
          /\ lapsed' = IF script.version = rows[p].version THEN lapsed ELSE lapsed \cup {p}
      BY <1>5 DEF MigrateSave, Live
    <2>2. /\ rows' \in [Products -> Row] /\ mirror' \in [Products -> People]
          /\ rows'[p].version = rows[p].version + 1
          /\ \A q \in Products : rows'[q].phase = rows[q].phase
                                 /\ rows'[q].owner = rows[q].owner
          /\ \A q \in Products : q # p => rows'[q] = rows[q]
          /\ \A q \in Products : Known(rows[q].state.members)'
          /\ MirrorFollows' /\ LiveIsOwned'
      <3> HIDE DEF p
      <3> QED
        BY <1>1, <1>2, <1>3, <1>5, <2>1, WriteKeepsRows
    <2>3. Typed'
      BY <1>1, <1>2, <2>1, <2>2, NothingIsTyped DEF IInv, Typed, TypeOK, Known
    <2>4. DormantIsEmpty'
      BY <1>1, <1>2, <1>5, <2>1, <2>2 DEF IInv, DormantIsEmpty, Live
    <2>5. InvitedToLive'
      BY <1>1, <2>2 DEF IInv, InvitedToLive, Live
    <2>6. JoiningTracksRow'
      <3> HIDE DEF p
      <3> QED
        BY <1>1, <1>2, <2>2, JoiningOutlivesWrite
    <2> QED
      BY <1>4, <2>2, <2>3, <2>4, <2>5, <2>6 DEF IInv
  <1>6. CASE ~Live(p)
    <2>1. PICK o \in Owners(script.copy.members) :
            rows' = [rows EXCEPT ![p] = [phase |-> "live", owner |-> o,
                                         state |-> script.copy, version |-> 0]]
      BY <1>6 DEF MigrateSave, Live
    <2>2. mirror' = [mirror EXCEPT ![p] = script.copy.members] /\ lapsed' = lapsed \cup {p}
      BY <1>6 DEF MigrateSave, Live
    <2> DEFINE row == [phase |-> "live", owner |-> o, state |-> script.copy, version |-> 0]
    <2>3. o \in Users /\ 0 \in 0..MaxVersion
      BY MembershipAssumption DEF Owners
    <2>4. row \in Row /\ row.phase = "live" /\ row.owner = o /\ row.state = script.copy
      BY <1>3, <2>3 DEF Row
    <2> HIDE DEF row
    <2>5. rows \in [Products -> Row] /\ mirror \in [Products -> People]
      BY DEF IInv, Typed, TypeOK
    <2>6. /\ rows' \in [Products -> Row] /\ mirror' \in [Products -> People]
          /\ rows'[p] = row /\ mirror'[p] = script.copy.members
          /\ \A q \in Products : q # p => rows'[q] = rows[q] /\ mirror'[q] = mirror[q]
      BY <1>2, <1>3, <2>1, <2>2, <2>4, <2>5 DEF row
    <2>7. \A q \in Products : Known(rows[q].state.members)'
      BY <1>1, <1>2, <2>4, <2>6 DEF Known, IInv, Typed, TypeOK
    <2>8. Typed'
      BY <1>1, <1>2, <2>2, <2>6, <2>7, NothingIsTyped DEF IInv, Typed, TypeOK, Known
    <2>9. MirrorFollows'
      BY <2>4, <2>6 DEF IInv, MirrorFollows
    <2>10. LiveIsOwned'
      BY <1>2, <2>3, <2>4, <2>6 DEF IInv, LiveIsOwned, Live, HasOwner, Owners
    <2>11. DormantIsEmpty'
      BY <1>1, <2>2, <2>4, <2>6 DEF IInv, DormantIsEmpty, Live
    <2>12. InvitedToLive'
      BY <1>1, <2>4, <2>6 DEF IInv, InvitedToLive, Live
    <2>13. JoiningTracksRow'
      <3> HIDE DEF p
      <3> QED
        BY <1>1, <1>2, <1>6, <2>6, JoiningOutlivesWrite
    <2> QED
      BY <1>4, <2>8, <2>9, <2>10, <2>11, <2>12, <2>13 DEF IInv
  <1> QED
    BY <1>5, <1>6

----------------------------------------------------------------------------
(* Safety *)

LEMMA NextKeepsIInv ==
    ASSUME IInv, [Next]_vars
    PROVE  IInv'
  <1>1. ASSUME NEW u \in Users, NEW p \in Products, CreateProduct(u, p) PROVE IInv'
    BY <1>1, CreateProductStep
  <1>2. ASSUME NEW actor \in Users, NEW p \in Products, NEW u \in Users, NEW role \in Roles,
               AddMember(actor, p, u, role) \/ Invite(actor, p, u, role)
        PROVE  IInv'
    BY <1>2, AddMemberStep, InviteStep
  <1>3. ASSUME NEW actor \in Users, NEW p \in Products, NEW u \in Users,
               RemoveMember(actor, p, u)
        PROVE  IInv'
    BY <1>3, RemoveMemberStep
  <1>4. ASSUME NEW p \in Products, NEW placing \in BOOLEAN, Export(p, placing) PROVE IInv'
    BY <1>4, ExportStep
  <1>5. ASSUME NEW actor \in Users, NEW p \in Products, DeleteProduct(actor, p) PROVE IInv'
    BY <1>5, DeleteProductStep
  <1>6. CASE Tools
    BY <1>1, <1>2, <1>3, <1>4, <1>5, <1>6 DEF Tools
  <1>7. ASSUME NEW u \in Users, SignIn(u) PROVE IInv'
    BY <1>7, SignInStep
  <1>8. CASE Joining
    BY <1>8, JoinLoadStep, JoinSaveStep, JoinRecordStep, JoinAcceptStep, JoinFailsStep,
       JoinEndsStep DEF Joining
  <1>9. ASSUME NEW p \in Products, MigrateLoad(p) PROVE IInv'
    BY <1>9, MigrateLoadStep
  <1>10. CASE MigrateSave
    BY <1>10, MigrateSaveStep
  <1>11. CASE UNCHANGED vars
    BY <1>11 DEF vars, IInv, Typed, TypeOK, MirrorFollows, LiveIsOwned, DormantIsEmpty,
       InvitedToLive, JoiningTracksRow, ScriptTracksRow, Serving, Live, HasOwner, Owners, Known
  <1> QED
    BY <1>6, <1>7, <1>8, <1>9, <1>10, <1>11 DEF Next

\* The inductive invariant holds of every reachable state; with it, what
\* product_members says is what the blob says, whoever wrote last.
THEOREM Invariant == Spec => []IInv
  BY InitIInv, NextKeepsIInv, PTL DEF Spec

\* Every variable keeps its type, and every member of a product has an
\* account.
THEOREM TypesHold == Spec => []TypeOK
  <1>1. IInv => TypeOK
    BY DEF IInv, Typed
  <1> QED
    BY Invariant, <1>1, PTL

\* No product is ever without an owner: the tools refuse to remove the last
\* one, and every copy that is saved back over a change names one.
THEOREM OwnersRemain == Spec => []OwnerRemains
  <1>1. IInv => OwnerRemains
    BY DEF IInv, LiveIsOwned, HasOwner, OwnerRemains
  <1> QED
    BY Invariant, <1>1, PTL

----------------------------------------------------------------------------
(* Invitations *)

\* Whoever an invitation let in has its acceptance written, unless his join
\* is still at it; and what a sign-in has left to apply is not accepted.
JoinIsAt(p, u) ==
    joining.stage \in {"record", "accept"} /\ p = joining.product /\ u = joining.user
AcceptanceTells ==
    /\ \A p \in Products, u \in Users :
          <<p, u>> \in letIn => invitations[p][u].accepted \/ JoinIsAt(p, u)
    /\ \A p \in joining.todo : ~invitations[p][joining.user].accepted

\* Nothing is left to apply when nobody joins.
LEMMA ServingIsIdle ==
    ASSUME IInv, Serving
    PROVE  joining = NoCall /\ joining.todo = {} /\ joining.stage = "next"
  BY DEF IInv, JoiningTracksRow, NoCall

\* What a step leaves of both keeps them in line.
LEMMA UntouchedTells ==
    ASSUME AcceptanceTells, UNCHANGED <<invitations, joining, letIn>>
    PROVE  AcceptanceTells'
  BY DEF AcceptanceTells, JoinIsAt

\* An end of the call that takes the invitee off the history.
LEMMA TakenBackTells ==
    ASSUME IInv, AcceptanceTells, letIn' = letIn \ {Invitee}, UNCHANGED invitations,
           \/ joining' = NoCall
           \/ joining'.user = joining.user /\ joining'.todo \subseteq joining.todo
    PROVE  AcceptanceTells'
  <1>1. \A p \in Products, u \in Users : <<p, u>> \in letIn' => invitations'[p][u].accepted
    BY DEF AcceptanceTells, JoinIsAt, Invitee
  <1>2. \A p \in joining'.todo : ~invitations'[p][joining'.user].accepted
    BY DEF AcceptanceTells, NoCall
  <1> QED
    BY <1>1, <1>2 DEF AcceptanceTells

LEMMA InviteTells ==
    ASSUME IInv, AcceptanceTells, NEW actor \in Users, NEW p \in Products, NEW u \in Users,
           NEW role \in Roles, Invite(actor, p, u, role)
    PROVE  AcceptanceTells'
  <1>1. /\ Serving /\ UNCHANGED <<joining, letIn>>
        /\ invitations' = [invitations EXCEPT ![p][u].role = role]
    BY DEF Invite, MaySetMembers
  <1>2. invitations \in [Products -> [Users -> Invitation]]
    BY DEF IInv, Typed, TypeOK
  <1>3. \A q \in Products, v \in Users :
            invitations'[q][v].accepted = invitations[q][v].accepted
    <2>1. \A q \in Products, v \in Users : invitations[q][v] \in Invitation
      BY <1>2
    <2> QED
      BY <1>1, <1>2, <2>1 DEF Invitation
  <1> QED
    BY <1>1, <1>3, ServingIsIdle DEF AcceptanceTells, JoinIsAt

LEMMA DeleteProductTells ==
    ASSUME IInv, AcceptanceTells, NEW actor \in Users, NEW p \in Products,
           DeleteProduct(actor, p)
    PROVE  AcceptanceTells'
  <1>1. /\ Serving /\ UNCHANGED joining /\ letIn' = letIn \ ({p} \X Users)
        /\ invitations' = [invitations EXCEPT ![p] = [u \in Users |-> NotInvited]]
    BY DEF DeleteProduct, MaySetMembers
  <1>2. invitations \in [Products -> [Users -> Invitation]]
    BY DEF IInv, Typed, TypeOK
  <1>3. \A q \in Products, u \in Users :
            <<q, u>> \in letIn' => <<q, u>> \in letIn /\ invitations'[q] = invitations[q]
    BY <1>1, <1>2
  <1> QED
    BY <1>1, <1>3, ServingIsIdle DEF AcceptanceTells, JoinIsAt

LEMMA SignInTells ==
    ASSUME IInv, AcceptanceTells, NEW u \in Users, SignIn(u)
    PROVE  AcceptanceTells'
  <1>1. /\ Serving /\ UNCHANGED <<invitations, letIn>>
        /\ joining' = IF Pending(u) = {} THEN NoCall
                      ELSE [NoCall EXCEPT !.user = u, !.todo = Pending(u)]
    BY DEF SignIn
  <1>2. \/ joining'.todo = {}
        \/ joining'.user = u /\ joining'.todo = Pending(u)
    BY <1>1 DEF NoCall
  <1>3. \A p \in joining'.todo : ~invitations'[p][joining'.user].accepted
    BY <1>1, <1>2 DEF Pending
  <1>4. \A p \in Products, v \in Users : <<p, v>> \in letIn => invitations[p][v].accepted
    BY <1>1, ServingIsIdle DEF AcceptanceTells, JoinIsAt
  <1> QED
    BY <1>1, <1>3, <1>4 DEF AcceptanceTells

LEMMA JoiningTells ==
    ASSUME IInv, AcceptanceTells, Joining
    PROVE  AcceptanceTells'
  <1>1. joining \in Call /\ joining.todo \subseteq Products
    BY CallIsTyped
  <1>2. ASSUME NEW p \in Products, JoinLoad(p) PROVE AcceptanceTells'
    <2>1. joining.stage = "next" /\ UNCHANGED <<invitations, letIn>>
      BY <1>2 DEF JoinLoad
    <2>2. joining'.user = joining.user /\ joining'.todo = joining.todo
      BY <1>1, <1>2 DEF JoinLoad, Call
    <2> QED
      BY <2>1, <2>2 DEF AcceptanceTells, JoinIsAt
  <1>3. CASE JoinSave
    <2>1. joining.stage = "save" /\ letIn' = letIn \cup {Invitee} /\ UNCHANGED invitations
      BY <1>3 DEF JoinSave
    <2>2. /\ joining'.stage = "record" /\ joining'.product = joining.product
          /\ joining'.user = joining.user /\ joining'.todo = joining.todo
      BY <1>1, <1>3 DEF JoinSave, Call
    <2> QED
      BY <2>1, <2>2 DEF AcceptanceTells, JoinIsAt, Invitee
  <1>4. CASE JoinRecord
    <2>1. joining.stage = "record" /\ UNCHANGED <<invitations, letIn>>
      BY <1>4 DEF JoinRecord
    <2>2. /\ joining'.stage = "accept" /\ joining'.product = joining.product
          /\ joining'.user = joining.user /\ joining'.todo = joining.todo
      BY <1>1, <1>4 DEF JoinRecord, Call
    <2> QED
      BY <2>1, <2>2 DEF AcceptanceTells, JoinIsAt
  <1>5. CASE JoinAccept
    <2> DEFINE p == joining.product
               u == joining.user
    <2>1. /\ joining.stage = "accept" /\ joining' = RestOf(joining) /\ UNCHANGED letIn
          /\ invitations' = [invitations EXCEPT ![p][u].accepted = TRUE]
      BY <1>5 DEF JoinAccept
    <2>2. ~Serving /\ p \in Products /\ u \in Users
      BY <2>1, CallIsTyped
    <2>3. invitations \in [Products -> [Users -> Invitation]]
      BY DEF IInv, Typed, TypeOK
    <2>4. /\ invitations'[p][u].accepted
          /\ \A q \in Products, v \in Users :
                <<q, v>> # <<p, u>> => invitations'[q][v] = invitations[q][v]
      <3> HIDE DEF p, u
      <3>1. invitations[p][u] \in Invitation
        BY <2>2, <2>3
      <3> QED
        BY <2>1, <2>2, <2>3, <3>1 DEF Invitation
    <2>5. \A q \in joining'.todo : q \in joining.todo /\ q # p /\ joining'.user = u
      BY <2>1, <2>2, RestIsACall DEF NoCall
    <2> QED
      BY <1>1, <2>1, <2>2, <2>4, <2>5 DEF AcceptanceTells, JoinIsAt
  <1>6. CASE JoinFails
    <2>1. ~Serving /\ joining' = RestOf(joining)
          /\ letIn' = letIn \ {Invitee} /\ UNCHANGED invitations
      BY <1>6, CallIsTyped DEF JoinFails
    <2> QED
      BY <2>1, RestIsACall, TakenBackTells
  <1>7. CASE JoinEnds
    BY <1>7, TakenBackTells DEF JoinEnds
  <1> QED
    BY <1>2, <1>3, <1>4, <1>5, <1>6, <1>7 DEF Joining

LEMMA NextTells ==
    ASSUME IInv, AcceptanceTells, [Next]_vars
    PROVE  AcceptanceTells'
  <1>1. ASSUME NEW u \in Users, NEW p \in Products, CreateProduct(u, p)
        PROVE  AcceptanceTells'
    BY <1>1, UntouchedTells DEF CreateProduct
  <1>2. ASSUME NEW actor \in Users, NEW p \in Products, NEW u \in Users, NEW role \in Roles,
               AddMember(actor, p, u, role) \/ Invite(actor, p, u, role)
        PROVE  AcceptanceTells'
    BY <1>2, InviteTells, UntouchedTells DEF AddMember
  <1>3. ASSUME NEW actor \in Users, NEW p \in Products, NEW u \in Users,
               RemoveMember(actor, p, u)
        PROVE  AcceptanceTells'
    BY <1>3, UntouchedTells DEF RemoveMember
  <1>4. ASSUME NEW p \in Products, NEW placing \in BOOLEAN, Export(p, placing)
        PROVE  AcceptanceTells'
    BY <1>4, UntouchedTells DEF Export
  <1>5. ASSUME NEW actor \in Users, NEW p \in Products, DeleteProduct(actor, p)
        PROVE  AcceptanceTells'
    BY <1>5, DeleteProductTells
  <1>6. CASE Tools
    BY <1>1, <1>2, <1>3, <1>4, <1>5, <1>6 DEF Tools
  <1>7. CASE \E u \in Users : SignIn(u)
    BY <1>7, SignInTells
  <1>8. CASE Joining
    BY <1>8, JoiningTells
  <1>9. CASE \E p \in Products : MigrateLoad(p)
    BY <1>9, UntouchedTells DEF MigrateLoad
  <1>10. CASE MigrateSave
    BY <1>10, UntouchedTells DEF MigrateSave
  <1>11. CASE UNCHANGED vars
    BY <1>11, UntouchedTells DEF vars
  <1> QED
    BY <1>6, <1>7, <1>8, <1>9, <1>10, <1>11 DEF Next

\* An invitation lets a person in once: while its save is under way nobody
\* has been let in by it for good, so a later sign-in does not undo an
\* owner's removal.
THEOREM LetInOnce == Spec => []InvitedOnce
  <1>1. Init => AcceptanceTells
    BY DEF Init, AcceptanceTells, NoCall
  <1>2. IInv /\ AcceptanceTells => InvitedOnce
    <2> SUFFICES ASSUME IInv, AcceptanceTells, joining.stage = "save"
                 PROVE  Invitee \notin letIn
      BY DEF InvitedOnce
    <2>1. joining.product \in joining.todo /\ joining.todo \subseteq Products
          /\ joining.user \in Users
      BY CallIsTyped
    <2> QED
      BY <2>1 DEF AcceptanceTells, JoinIsAt, Invitee
  <1>3. IInv /\ AcceptanceTells /\ [Next]_vars => AcceptanceTells'
    BY NextTells
  <1> QED
    BY Invariant, <1>1, <1>2, <1>3, PTL DEF Spec

----------------------------------------------------------------------------
(* The refinement *)

\* Register's trail: the row an invited join owes counts as written, and a
\* product that lapsed has none.
Founders == [p \in Products |-> rows[p].owner]
Story == [p \in Products |->
            IF p \in lapsed THEN <<>>
            ELSE IF p \in Unrecorded THEN Append(trail[p], InFlight)
            ELSE trail[p]]
Registered == <<mirror, Founders, Story, lapsed>>

\* What is not touched in Membership is not touched in Register.
LEMMA StoryStays ==
    ASSUME UNCHANGED <<trail, lapsed>>, Unrecorded = {}, Unrecorded' = {}
    PROVE  Story' = Story
  BY DEF Story

LEMMA NothingOwed ==
    ASSUME IInv, joining.stage # "record"
    PROVE  Unrecorded = {}
  BY DEF Unrecorded

LEMMA ServingOwesNothing ==
    ASSUME IInv, Serving
    PROVE  Unrecorded = {}
  BY DEF IInv, JoiningTracksRow, NoCall, Unrecorded

\* A change of one product's people that the trail does not tell of is
\* Register's lapse, and so is any change of a product that lapsed before.
LEMMA IsLapse ==
    ASSUME IInv, NEW p \in Products, NEW u \in Users, NEW people \in People,
           HasOwner(people),
           mirror' = [mirror EXCEPT ![p] = people],
           rows'[p].owner = u,
           \A q \in Products : q # p => rows'[q].owner = rows[q].owner,
           lapsed' = lapsed \cup {p},
           \A q \in Products : q # p => Story'[q] = Story[q]
    PROVE  R!Next
  <1>1. Founders' = [Founders EXCEPT ![p] = u]
    BY DEF Founders
  <1>2. Story' = [Story EXCEPT ![p] = <<>>]
    BY DEF Story
  <1>3. R!Accountable(people)
    BY DEF HasOwner, Owners, R!Accountable, Owner, R!Owner
  <1>4. people \in [Users -> Roles \cup {R!None}]
    BY DEF People, None, R!None
  <1>5. R!Lapse(p)
    BY <1>1, <1>2, <1>3, <1>4 DEF R!Lapse, Founders, Story
  <1> QED
    BY <1>5 DEF R!Next

LEMMA RefinesInit == Init => R!Init
  <1> SUFFICES ASSUME Init PROVE R!Init
    OBVIOUS
  <1>1. PICK founders \in [Products -> Users \cup {None}] :
        /\ rows = [p \in Products |->
              IF founders[p] = None
              THEN [phase |-> "unused", owner |-> None, state |-> NoState, version |-> 0]
              ELSE [phase |-> "live", owner |-> founders[p], version |-> 0,
                    state |-> [members |-> [Nobody EXCEPT ![founders[p]] = Owner],
                               placed |-> FALSE, renumbered |-> FALSE]]]
        /\ mirror = [p \in Products |-> rows[p].state.members]
        /\ trail = [p \in Products |-> <<>>]
        /\ joining = NoCall
        /\ lapsed = {}
    BY DEF Init
  <1>2. Founders = founders
    <2>1. \A p \in Products : rows[p].owner = founders[p]
      BY <1>1
    <2> QED
      BY <2>1 DEF Founders
  <1>3. ASSUME NEW p \in Products
        PROVE  mirror[p] = [u \in Users |-> IF founders[p] = u THEN Owner ELSE None]
    <2>1. None \notin Users
      BY MembershipAssumption
    <2>2. CASE founders[p] = None
      BY <1>1, <2>1, <2>2 DEF NoState, Nobody
    <2>3. CASE founders[p] # None
      <3>1. mirror[p] = [Nobody EXCEPT ![founders[p]] = Owner]
        BY <1>1, <2>3
      <3> QED
        BY <2>1, <3>1 DEF Nobody
    <2> QED
      BY <2>2, <2>3
  <1>4. Unrecorded = {}
    BY <1>1 DEF Unrecorded, NoCall
  <1>5. Story = [p \in Products |-> <<>>]
    BY <1>1, <1>4 DEF Story
  <1>6. mirror = [p \in Products |->
                    [u \in Users |-> IF Founders[p] = u THEN Owner ELSE None]]
    <2>1. mirror = [p \in Products |-> mirror[p]]
      BY <1>1
    <2> QED
      BY <1>2, <1>3, <2>1
  <1> QED
    BY <1>1, <1>2, <1>5, <1>6 DEF R!Init, Founders, Story, None, Owner, R!None, R!Owner

\* What a write under the row lock or a save does to what Register sees.
LEMMA WriteShows ==
    ASSUME IInv, NEW p \in Products, NEW state \in State,
           Live(p), HasOwner(state.members), Known(state.members), Write(p, state),
           accounts' = accounts
    PROVE  /\ mirror' = [mirror EXCEPT ![p] = state.members]
           /\ mirror[p] = rows[p].state.members /\ state.members \in People
           /\ Founders' = Founders
           /\ rows[p].owner \in Users /\ rows'[p].owner = rows[p].owner
           /\ \A q \in Products : rows'[q].owner = rows[q].owner
           /\ HasOwner(mirror[p])
  <1>1. mirror' = [mirror EXCEPT ![p] = state.members]
        /\ \A q \in Products : rows'[q].owner = rows[q].owner
    BY WriteKeepsRows
  <1>2. Founders' = Founders
    BY <1>1 DEF Founders
  <1>3. rows[p].owner \in Users /\ mirror[p] = rows[p].state.members
        /\ HasOwner(rows[p].state.members)
    BY DEF IInv, LiveIsOwned, MirrorFollows
  <1> QED
    BY <1>1, <1>2, <1>3 DEF State

\* Somebody admitted by an act the trail is told of.
LEMMA IsAdmit ==
    ASSUME NEW p \in Products, NEW act \in Act, act.op # "remove_member",
           p \notin lapsed, HasOwner(mirror[p]), mirror[p][act.user] = None,
           mirror' = [mirror EXCEPT ![p] = [mirror[p] EXCEPT ![act.user] = act.role]],
           Story' = [Story EXCEPT ![p] = Append(@, act)],
           UNCHANGED <<Founders, lapsed>>
    PROVE  R!Next
  <1>1. R!Accountable(mirror[p])
    BY DEF HasOwner, Owners, R!Accountable, Owner, R!Owner
  <1>2. R!Admit(p, act)
    BY <1>1 DEF R!Admit, Founders, Story, None, R!None
  <1>3. act \in R!Act
    BY DEF Act, R!Act
  <1> QED
    BY <1>2, <1>3 DEF R!Next

\* Somebody dismissed by one, of whom another owner stays behind.
LEMMA IsDismiss ==
    ASSUME NEW p \in Products, NEW act \in Act, act.op = "remove_member",
           p \notin lapsed, mirror[p][act.user] = act.role,
           mirror' = [mirror EXCEPT ![p] = [mirror[p] EXCEPT ![act.user] = None]],
           HasOwner(mirror'[p]),
           Story' = [Story EXCEPT ![p] = Append(@, act)],
           UNCHANGED <<Founders, lapsed>>
    PROVE  R!Next
  <1>1. R!Accountable(mirror'[p])
    BY DEF HasOwner, Owners, R!Accountable, Owner, R!Owner
  <1>2. R!Dismiss(p, act)
    BY <1>1 DEF R!Dismiss, Founders, Story, None, R!None
  <1>3. act \in R!Act
    BY DEF Act, R!Act
  <1> QED
    BY <1>2, <1>3 DEF R!Next

\* A tool's act under the row lock is the next of the story.
LEMMA ToolTells ==
    ASSUME IInv, Serving, NEW p \in Products, NEW state, NEW act \in Act,
           WithLock(p, state, <<act>>), UNCHANGED <<joining, lapsed>>
    PROVE  /\ \A q \in Products : q # p => Story'[q] = Story[q]
           /\ p \notin lapsed => Story' = [Story EXCEPT ![p] = Append(@, act)]
  <1>1. Unrecorded = {} /\ Unrecorded' = {}
    BY ServingOwesNothing DEF Unrecorded
  <1>2. trail \in [Products -> Seq(Act)]
    BY DEF IInv, Typed
  <1>3. trail' = [trail EXCEPT ![p] = @ \o <<act>>]
    BY DEF WithLock
  <1>4. trail[p] \o <<act>> = Append(trail[p], act)
    BY <1>2
  <1>5. trail' = [trail EXCEPT ![p] = Append(trail[p], act)]
    BY <1>3, <1>4
  <1>6. \A q \in Products : q # p => trail'[q] = trail[q]
    BY <1>2, <1>5
  <1>7. trail'[p] = Append(trail[p], act)
    BY <1>2, <1>5
  <1> QED
    BY <1>1, <1>6, <1>7 DEF Story

LEMMA RefinesAddMember ==
    ASSUME IInv, NEW actor \in Users, NEW p \in Products, NEW u \in Users, NEW role \in Roles,
           AddMember(actor, p, u, role)
    PROVE  R!Next
  <1> DEFINE state == [rows[p].state EXCEPT !.members[u] = role]
             act == [op |-> "add_member", user |-> u, role |-> role]
             people == [rows[p].state.members EXCEPT ![u] = role]
  <1>1. /\ Serving /\ Live(p) /\ u \in accounts /\ rows[p].state.members[u] = None
        /\ WithLock(p, state, <<act>>) /\ Write(p, state)
        /\ UNCHANGED <<accounts, exports, invitations, joining, script, lapsed>>
    BY DEF AddMember, MaySetMembers, Resolves, WithLock
  <1>2. rows[p].state \in State /\ HasOwner(rows[p].state.members)
        /\ Known(rows[p].state.members)
    BY <1>1, RowIsTyped DEF IInv, LiveIsOwned, Typed, TypeOK, Known
  <1>3. state \in State /\ state.members = people /\ HasOwner(people) /\ Known(people)
    BY <1>1, <1>2, Joined
  <1>4. act \in Act /\ act.user = u /\ act.role = role /\ act.op # "remove_member"
    BY DEF Act
  <1> HIDE DEF state, act, people
  <1>5. /\ mirror' = [mirror EXCEPT ![p] = people]
        /\ mirror[p] = rows[p].state.members /\ people \in People
        /\ Founders' = Founders
        /\ rows[p].owner \in Users /\ rows'[p].owner = rows[p].owner
        /\ \A q \in Products : rows'[q].owner = rows[q].owner
        /\ HasOwner(mirror[p])
    BY <1>1, <1>3, WriteShows
  <1>6. /\ \A q \in Products : q # p => Story'[q] = Story[q]
        /\ p \notin lapsed => Story' = [Story EXCEPT ![p] = Append(@, act)]
    BY <1>1, <1>4, ToolTells
  <1>7. CASE p \in lapsed
    <2>1. lapsed' = lapsed \cup {p}
      BY <1>1, <1>7
    <2> QED
      BY <1>3, <1>5, <1>6, <2>1, IsLapse
  <1>8. CASE p \notin lapsed
    <2>1. mirror' = [mirror EXCEPT ![p] = [mirror[p] EXCEPT ![act.user] = act.role]]
      BY <1>4, <1>5 DEF people
    <2> QED
      BY <1>1, <1>4, <1>5, <1>6, <1>8, <2>1, IsAdmit
  <1> QED
    BY <1>7, <1>8

LEMMA RefinesRemoveMember ==
    ASSUME IInv, NEW actor \in Users, NEW p \in Products, NEW u \in Users,
           RemoveMember(actor, p, u)
    PROVE  R!Next
  <1> DEFINE state == [rows[p].state EXCEPT !.members[u] = None]
             act == [op |-> "remove_member", user |-> u, role |-> rows[p].state.members[u]]
             people == [rows[p].state.members EXCEPT ![u] = None]
  <1>1. /\ Serving /\ Live(p) /\ rows[p].state.members[u] # None
        /\ WithLock(p, state, <<act>>) /\ Write(p, state)
        /\ UNCHANGED <<accounts, exports, invitations, joining, script, lapsed>>
    BY DEF RemoveMember, MaySetMembers, WithLock
  <1>2. rows[p].state \in State /\ rows[p].state.members \in People
        /\ Known(rows[p].state.members)
    BY RowIsTyped DEF IInv, Typed, TypeOK, Known
  <1>3. people \in People /\ Known(people) /\ HasOwner(people)
    BY <1>2, AnotherOwnerStays DEF People, Known
  <1>4. state \in State /\ state.members = people
    <2> HIDE DEF people
    <2>1. state = [rows[p].state EXCEPT !.members = people]
      BY DEF people
    <2> HIDE DEF state
    <2> QED
      BY <1>2, <1>3, <2>1 DEF State
  <1>5. act \in Act /\ act.user = u /\ act.op = "remove_member"
        /\ act.role = rows[p].state.members[u]
    BY <1>1, <1>2 DEF Act, People
  <1> HIDE DEF state, act, people
  <1>6. /\ mirror' = [mirror EXCEPT ![p] = people]
        /\ mirror[p] = rows[p].state.members
        /\ Founders' = Founders
        /\ rows[p].owner \in Users /\ rows'[p].owner = rows[p].owner
        /\ \A q \in Products : rows'[q].owner = rows[q].owner
    BY <1>1, <1>3, <1>4, WriteShows
  <1>7. /\ \A q \in Products : q # p => Story'[q] = Story[q]
        /\ p \notin lapsed => Story' = [Story EXCEPT ![p] = Append(@, act)]
    BY <1>1, <1>5, ToolTells
  <1>8. CASE p \in lapsed
    <2>1. lapsed' = lapsed \cup {p}
      BY <1>1, <1>8
    <2> QED
      BY <1>3, <1>6, <1>7, <2>1, IsLapse
  <1>9. CASE p \notin lapsed
    <2>1. mirror' = [mirror EXCEPT ![p] = [mirror[p] EXCEPT ![act.user] = None]]
      BY <1>5, <1>6 DEF people
    <2>2. mirror'[p] = people
      BY <1>6 DEF IInv, Typed, TypeOK
    <2> QED
      BY <1>1, <1>3, <1>5, <1>6, <1>7, <1>9, <2>1, <2>2, IsDismiss
  <1> QED
    BY <1>8, <1>9

LEMMA RefinesExport ==
    ASSUME IInv, NEW p \in Products, NEW placing \in BOOLEAN, Export(p, placing)
    PROVE  UNCHANGED Registered
  <1> DEFINE state == [rows[p].state EXCEPT !.placed = @ \/ placing]
  <1>1. /\ Serving /\ Live(p) /\ Write(p, state)
        /\ trail' = [trail EXCEPT ![p] = @ \o <<>>]
        /\ UNCHANGED <<accounts, invitations, joining, script, lapsed>>
    BY DEF Export, WithLock
  <1>2. rows[p].state \in State /\ HasOwner(rows[p].state.members)
        /\ Known(rows[p].state.members)
    BY <1>1, RowIsTyped DEF IInv, LiveIsOwned, Typed, TypeOK, Known
  <1>3. state \in State /\ state.members = rows[p].state.members
    <2>1. rows[p].state.placed \/ placing \in BOOLEAN
      BY <1>2 DEF State
    <2> QED
      BY <1>2, <2>1 DEF State
  <1> HIDE DEF state
  <1>4. mirror' = [mirror EXCEPT ![p] = state.members] /\ mirror[p] = rows[p].state.members
        /\ Founders' = Founders
    BY <1>1, <1>2, <1>3, WriteShows
  <1>5. mirror' = mirror
    BY <1>3, <1>4 DEF IInv, Typed, TypeOK
  <1>6. trail \in [Products -> Seq(Act)]
    BY DEF IInv, Typed
  <1>7. trail' = trail
    <2>1. trail[p] \o <<>> = trail[p]
      BY <1>6
    <2> QED
      BY <1>1, <1>6, <2>1
  <1>8. Unrecorded = {} /\ Unrecorded' = {}
    BY <1>1, ServingOwesNothing DEF Unrecorded
  <1>9. Story' = Story
    BY <1>1, <1>7, <1>8, StoryStays
  <1> QED
    BY <1>1, <1>4, <1>5, <1>9 DEF Registered

LEMMA RefinesCreateProduct ==
    ASSUME IInv, NEW u \in Users, NEW p \in Products, CreateProduct(u, p)
    PROVE  R!Next
  <1> DEFINE people == [Nobody EXCEPT ![u] = Owner]
             row == [phase |-> "live", owner |-> u, version |-> 0,
                     state |-> [NoState EXCEPT !.members = people]]
  <1>1. /\ Serving /\ rows[p].phase = "unused"
        /\ rows' = [rows EXCEPT ![p] = row]
        /\ mirror' = [mirror EXCEPT ![p] = people]
        /\ UNCHANGED <<accounts, exports, invitations, trail, joining, script, lapsed>>
    BY DEF CreateProduct
  <1>2. row.owner = u
    OBVIOUS
  <1> HIDE DEF row
  <1>3. mirror[p] = Nobody /\ p \notin lapsed /\ trail[p] = <<>>
    BY <1>1 DEF IInv, MirrorFollows, DormantIsEmpty, Live, NoState
  <1>4. Unrecorded = {} /\ Unrecorded' = {}
    BY <1>1, ServingOwesNothing DEF Unrecorded
  <1>5. Story' = Story /\ Story[p] = <<>>
    BY <1>1, <1>3, <1>4, StoryStays DEF Story
  <1>6. Founders' = [Founders EXCEPT ![p] = u]
    BY <1>1, <1>2 DEF Founders, IInv, Typed, TypeOK
  <1>7. mirror' = [mirror EXCEPT ![p][u] = R!Owner]
    BY <1>1, <1>3 DEF Owner, R!Owner
  <1>8. mirror[p] = R!Nobody
    BY <1>3 DEF Nobody, R!Nobody, None, R!None
  <1>9. R!Open(p, u)
    BY <1>1, <1>3, <1>5, <1>6, <1>7, <1>8 DEF R!Open, Founders, Story
  <1> QED
    BY <1>9 DEF R!Next

LEMMA RefinesDeleteProduct ==
    ASSUME IInv, NEW actor \in Users, NEW p \in Products, DeleteProduct(actor, p)
    PROVE  R!Next
  <1>1. /\ Serving
        /\ rows' = [rows EXCEPT ![p] = [phase |-> "deleted", owner |-> None,
                                        state |-> NoState, version |-> 0]]
        /\ mirror' = [mirror EXCEPT ![p] = Nobody]
        /\ trail' = [trail EXCEPT ![p] = <<>>]
        /\ UNCHANGED <<accounts, exports, joining, script, lapsed>>
    BY DEF DeleteProduct, MaySetMembers
  <1>2. Unrecorded = {} /\ Unrecorded' = {}
    BY <1>1, ServingOwesNothing DEF Unrecorded
  <1>3. Founders' = [Founders EXCEPT ![p] = R!None]
    BY <1>1 DEF Founders, IInv, Typed, TypeOK, None, R!None
  <1>4. Story' = [Story EXCEPT ![p] = <<>>]
    BY <1>1, <1>2 DEF Story, IInv, Typed
  <1>5. mirror' = [mirror EXCEPT ![p] = R!Nobody]
    BY <1>1 DEF Nobody, R!Nobody, None, R!None
  <1>6. R!Close(p)
    BY <1>1, <1>3, <1>4, <1>5 DEF R!Close, Founders, Story
  <1> QED
    BY <1>6 DEF R!Next

\* A step that changes nobody's membership, no owner and nothing owed to the
\* trail is none of Register's.
LEMMA Stutters ==
    ASSUME UNCHANGED <<rows, mirror, trail, lapsed>>, Unrecorded = {}, Unrecorded' = {}
    PROVE  UNCHANGED Registered
  BY StoryStays DEF Registered, Founders

LEMMA RefinesQuietSteps ==
    ASSUME IInv, IInv',
           \/ \E actor \in Users, p \in Products, u \in Users, role \in Roles :
                 Invite(actor, p, u, role)
           \/ \E u \in Users : SignIn(u)
           \/ \E p \in Products : JoinLoad(p)
           \/ JoinAccept
    PROVE  UNCHANGED Registered
  <1>1. CASE \E actor \in Users, p \in Products, u \in Users, role \in Roles :
                 Invite(actor, p, u, role)
    <2>1. Serving /\ UNCHANGED <<rows, mirror, trail, lapsed, joining>>
      BY <1>1 DEF Invite, MaySetMembers
    <2> QED
      BY <2>1, ServingOwesNothing, Stutters DEF Unrecorded
  <1>2. CASE \E u \in Users : SignIn(u)
    <2>1. Serving /\ UNCHANGED <<rows, mirror, trail, lapsed>> /\ joining'.stage = "next"
      <3>1. PICK u \in Users : SignIn(u)
        BY <1>2
      <3>2. joining' = NoCall \/ joining' = [NoCall EXCEPT !.user = u, !.todo = Pending(u)]
        BY <3>1 DEF SignIn
      <3>3. NoCall \in Call /\ NoCall.stage = "next"
        BY NothingIsTyped DEF NoCall
      <3>4. joining'.stage = "next"
        BY <3>2, <3>3 DEF Call
      <3> QED
        BY <3>1, <3>4 DEF SignIn
    <2> QED
      BY <2>1, ServingOwesNothing, Stutters DEF Unrecorded
  <1>3. CASE \E p \in Products : JoinLoad(p)
    <2>1. PICK p \in Products : JoinLoad(p)
      BY <1>3
    <2>2. joining.stage = "next" /\ UNCHANGED <<rows, mirror, trail, lapsed>>
      BY <2>1 DEF JoinLoad
    <2>3. joining'.stage \in {"save", "accept"}
      <3>1. joining \in Call
        BY CallIsTyped
      <3> QED
        BY <2>1, <3>1 DEF JoinLoad, Call
    <2> QED
      BY <2>2, <2>3, Stutters DEF Unrecorded
  <1>4. CASE JoinAccept
    <2>1. joining.stage = "accept" /\ joining' = RestOf(joining)
          /\ UNCHANGED <<rows, mirror, trail, lapsed>>
      BY <1>4 DEF JoinAccept
    <2>2. joining'.stage = "next"
      BY <2>1, CallIsTyped, RestIsACall
    <2> QED
      BY <2>1, <2>2, Stutters DEF Unrecorded
  <1> QED
    BY <1>1, <1>2, <1>3, <1>4

\* An invited member's save is the act whose row is owed from then on, or a
\* lapse if it was made over somebody's change.
LEMMA RefinesJoinSave ==
    ASSUME IInv, JoinSave
    PROVE  R!Next
  <1> DEFINE p == joining.product
             u == joining.user
             people == [joining.copy.members EXCEPT ![u] = Granted]
             state == [joining.copy EXCEPT !.members[u] = Granted]
  <1>1. /\ joining.stage = "save" /\ Write(p, state)
        /\ lapsed' = IF joining.version = rows[p].version THEN lapsed ELSE lapsed \cup {p}
        /\ joining' = [joining EXCEPT !.stage = "record", !.copy = NoState, !.version = 0]
        /\ UNCHANGED <<accounts, exports, invitations, trail, script>>
    BY DEF JoinSave
  <1>2. /\ p \in Products /\ Live(p) /\ u \in Users /\ Granted \in Roles
        /\ state \in State /\ state.members = people
        /\ HasOwner(people) /\ Known(people)
        /\ joining.copy.members[u] = None
        /\ joining.version = rows[p].version => joining.copy = rows[p].state
    BY JoinSaveWrites
  <1>3. joining'.stage = "record" /\ joining'.product = p /\ joining'.user = u
    BY <1>1, CallIsTyped DEF Call
  <1> HIDE DEF p, u, people, state
  <1>4. /\ mirror' = [mirror EXCEPT ![p] = people]
        /\ mirror[p] = rows[p].state.members /\ people \in People
        /\ Founders' = Founders
        /\ rows[p].owner \in Users /\ rows'[p].owner = rows[p].owner
        /\ \A q \in Products : rows'[q].owner = rows[q].owner
        /\ HasOwner(mirror[p])
    BY <1>1, <1>2, WriteShows
  <1>5. Unrecorded = {} /\ Unrecorded' = {p}
    BY <1>1, <1>3 DEF Unrecorded
  <1>6. InFlight' = InFlight /\ InFlight.user = u /\ InFlight.role = Granted
        /\ InFlight.op # "remove_member"
    BY <1>1, <1>3 DEF InFlight, Granted, p, u
  <1>7. \A q \in Products : q # p => Story'[q] = Story[q]
    BY <1>1, <1>5 DEF Story
  <1>8. InFlight \in Act
    BY <1>2 DEF InFlight, Act, u
  <1>9. CASE p \in lapsed \/ joining.version # rows[p].version
    <2>1. lapsed' = lapsed \cup {p}
      BY <1>1, <1>9
    <2> QED
      BY <1>2, <1>4, <1>7, <2>1, IsLapse
  <1>10. CASE p \notin lapsed /\ joining.version = rows[p].version
    <2>1. lapsed' = lapsed
      BY <1>1, <1>10
    <2>2. Story'[p] = Append(Story[p], InFlight)
      BY <1>1, <1>2, <1>5, <1>6, <1>10, <2>1 DEF Story
    <2>3. Story' = [Story EXCEPT ![p] = Append(@, InFlight)]
      BY <1>7, <2>2 DEF Story
    <2>4. people = [mirror[p] EXCEPT ![u] = Granted]
      BY <1>2, <1>4, <1>10 DEF people
    <2>5. mirror' = [mirror EXCEPT ![p] = [mirror[p] EXCEPT ![InFlight.user] = InFlight.role]]
      BY <1>4, <1>6, <2>4
    <2>6. mirror[p][InFlight.user] = None
      BY <1>2, <1>4, <1>6, <1>10
    <2> QED
      BY <1>2, <1>4, <1>6, <1>8, <1>10, <2>1, <2>3, <2>5, <2>6, IsAdmit
  <1> QED
    BY <1>9, <1>10

\* The row pays what was owed: Register has it already.
LEMMA RefinesJoinRecord ==
    ASSUME IInv, JoinRecord
    PROVE  UNCHANGED Registered
  <1>1. /\ joining.stage = "record"
        /\ trail' = [trail EXCEPT ![joining.product] = Append(@, InFlight)]
        /\ joining' = [joining EXCEPT !.stage = "accept"]
        /\ UNCHANGED <<accounts, rows, mirror, exports, invitations, script, lapsed>>
    BY DEF JoinRecord
  <1>2. joining'.stage = "accept" /\ joining.product \in Products
    BY <1>1, CallIsTyped DEF Call
  <1>3. Unrecorded = {joining.product} /\ Unrecorded' = {}
    BY <1>1, <1>2 DEF Unrecorded
  <1>4. trail'[joining.product] = Append(trail[joining.product], InFlight)
        /\ \A q \in Products : q # joining.product => trail'[q] = trail[q]
    BY <1>1, <1>2 DEF IInv, Typed
  <1>5. Story' = Story
    BY <1>1, <1>3, <1>4 DEF Story
  <1> QED
    BY <1>1, <1>5 DEF Registered, Founders

\* A row that will never be written is a lapse; otherwise a joining that ends
\* leaves the register as it is.
LEMMA RefinesJoinOver ==
    ASSUME IInv, JoinFails \/ JoinEnds
    PROVE  R!Next \/ UNCHANGED Registered
  <1>1. /\ lapsed' = lapsed \cup Unrecorded
        /\ UNCHANGED <<accounts, rows, mirror, exports, invitations, trail, script>>
    BY DEF JoinFails, JoinEnds
  <1>2. joining'.stage = "next"
    <2>1. CASE JoinFails
      <3>1. joining' = RestOf(joining) /\ joining.stage # "next"
        BY <2>1 DEF JoinFails
      <3> QED
        BY <3>1, CallIsTyped, RestIsACall
    <2>2. CASE JoinEnds
      BY <2>2 DEF JoinEnds, NoCall
    <2> QED
      BY <2>1, <2>2
  <1>3. Unrecorded' = {}
    BY <1>2 DEF Unrecorded
  <1>4. CASE joining.stage = "record"
    <2> DEFINE p == joining.product
    <2>1. p \in Products /\ Live(p) /\ Unrecorded = {p}
      BY <1>4, CallIsTyped DEF Unrecorded
    <2>2. rows[p].owner \in Users /\ HasOwner(mirror[p]) /\ mirror[p] \in People
          /\ mirror' = [mirror EXCEPT ![p] = mirror[p]]
      BY <1>1, <2>1 DEF IInv, LiveIsOwned, MirrorFollows, Typed, TypeOK
    <2>3. \A q \in Products : q # p => Story'[q] = Story[q]
      BY <1>1, <1>3, <2>1 DEF Story
    <2> HIDE DEF p
    <2> QED
      BY <1>1, <2>1, <2>2, <2>3, IsLapse
  <1>5. CASE joining.stage # "record"
    <2>1. Unrecorded = {}
      BY <1>5 DEF Unrecorded
    <2> QED
      BY <1>1, <1>3, <2>1, Stutters
  <1> QED
    BY <1>4, <1>5

LEMMA RefinesMigrateLoad ==
    ASSUME IInv, NEW p \in Products, MigrateLoad(p)
    PROVE  UNCHANGED Registered
  BY DEF MigrateLoad, Registered, Founders, Story, Unrecorded, InFlight, Granted

\* The migration's save changes nobody if nothing was written since its load;
\* over somebody's change, or after the product was deleted, it is a lapse.
LEMMA RefinesMigrateSave ==
    ASSUME IInv, MigrateSave
    PROVE  R!Next \/ UNCHANGED Registered
  <1> DEFINE p == script.product
             people == script.copy.members
  <1>1. /\ script # NoCopy
        /\ UNCHANGED <<accounts, exports, invitations, trail, joining>>
    BY DEF MigrateSave
  <1>2. /\ p \in Products /\ HasOwner(people) /\ Known(people)
        /\ Live(p) => (script.version = rows[p].version => people = rows[p].state.members)
    BY <1>1 DEF IInv, ScriptTracksRow
  <1>3. script.copy \in State /\ people \in People
    BY DEF IInv, Typed, TypeOK, Copy, State
  <1>4. Unrecorded' = Unrecorded /\ InFlight' = InFlight
    BY <1>1 DEF Unrecorded, InFlight, Granted
  <1>5. mirror \in [Products -> People]
    BY DEF IInv, Typed, TypeOK
  <1>6. ASSUME lapsed' = lapsed \cup {p}
        PROVE  \A q \in Products : q # p => Story'[q] = Story[q]
    BY <1>1, <1>4, <1>6 DEF Story
  <1>7. CASE Live(p)
    <2>1. /\ Write(p, script.copy)
          /\ lapsed' = IF script.version = rows[p].version THEN lapsed ELSE lapsed \cup {p}
      BY <1>7 DEF MigrateSave, Live
    <2>2. /\ mirror' = [mirror EXCEPT ![p] = people] /\ mirror[p] = rows[p].state.members
          /\ Founders' = Founders
          /\ rows[p].owner \in Users /\ rows'[p].owner = rows[p].owner
          /\ \A q \in Products : rows'[q].owner = rows[q].owner
      <3> HIDE DEF p
      <3> QED
        BY <1>1, <1>2, <1>3, <1>7, <2>1, WriteShows
    <2>3. CASE script.version = rows[p].version
      <3>1. mirror' = mirror /\ lapsed' = lapsed
        BY <1>2, <1>5, <1>7, <2>1, <2>2, <2>3
      <3>2. Story' = Story
        BY <1>1, <1>4, <3>1 DEF Story
      <3> QED
        BY <2>2, <3>1, <3>2 DEF Registered
    <2>4. CASE script.version # rows[p].version
      <3>1. lapsed' = lapsed \cup {p}
        BY <2>1, <2>4
      <3> HIDE DEF p, people
      <3> QED
        BY <1>2, <1>3, <1>6, <2>2, <3>1, IsLapse
    <2> QED
      BY <2>3, <2>4
  <1>8. CASE ~Live(p)
    <2>1. PICK o \in Owners(people) :
            rows' = [rows EXCEPT ![p] = [phase |-> "live", owner |-> o,
                                         state |-> script.copy, version |-> 0]]
      BY <1>8 DEF MigrateSave, Live
    <2>2. mirror' = [mirror EXCEPT ![p] = people] /\ lapsed' = lapsed \cup {p}
      BY <1>8 DEF MigrateSave, Live
    <2>3. o \in Users
      BY DEF Owners
    <2>4. rows'[p].owner = o /\ \A q \in Products : q # p => rows'[q].owner = rows[q].owner
      BY <1>2, <2>1 DEF IInv, Typed, TypeOK
    <2> HIDE DEF p, people
    <2> QED
      BY <1>2, <1>3, <1>6, <2>2, <2>3, <2>4, IsLapse
  <1> QED
    BY <1>7, <1>8

LEMMA RefinesNext ==
    ASSUME IInv, IInv', [Next]_vars
    PROVE  R!Next \/ UNCHANGED Registered
  <1>1. ASSUME NEW u \in Users, NEW p \in Products, CreateProduct(u, p) PROVE R!Next
    BY <1>1, RefinesCreateProduct
  <1>2. ASSUME NEW actor \in Users, NEW p \in Products, NEW u \in Users, NEW role \in Roles,
               AddMember(actor, p, u, role) \/ Invite(actor, p, u, role)
        PROVE  R!Next \/ UNCHANGED Registered
    BY <1>2, RefinesAddMember, RefinesQuietSteps
  <1>3. ASSUME NEW actor \in Users, NEW p \in Products, NEW u \in Users,
               RemoveMember(actor, p, u)
        PROVE  R!Next
    BY <1>3, RefinesRemoveMember
  <1>4. ASSUME NEW p \in Products, NEW placing \in BOOLEAN, Export(p, placing)
        PROVE  UNCHANGED Registered
    BY <1>4, RefinesExport
  <1>5. ASSUME NEW actor \in Users, NEW p \in Products, DeleteProduct(actor, p) PROVE R!Next
    BY <1>5, RefinesDeleteProduct
  <1>6. CASE Tools
    BY <1>1, <1>2, <1>3, <1>4, <1>5, <1>6 DEF Tools
  <1>7. CASE \E u \in Users : SignIn(u)
    BY <1>7, RefinesQuietSteps
  <1>8. CASE Joining
    BY <1>8, RefinesQuietSteps, RefinesJoinSave, RefinesJoinRecord, RefinesJoinOver
       DEF Joining
  <1>9. ASSUME NEW p \in Products, MigrateLoad(p) PROVE UNCHANGED Registered
    BY <1>9, RefinesMigrateLoad
  <1>10. CASE MigrateSave
    BY <1>10, RefinesMigrateSave
  <1>11. CASE UNCHANGED vars
    BY <1>11 DEF vars, Registered, Founders, Story, Unrecorded, InFlight, Granted
  <1> QED
    BY <1>6, <1>7, <1>8, <1>9, <1>10, <1>11 DEF Next

\* The store implements Register: whoever changes product_members, by a tool,
\* a half-applied invitation or a save of something old, does what Register
\* allows, and the trail tells of it in the same step or has lapsed.
THEOREM Refinement == Spec => ImplementsRegister
  <1>1. Registered = R!registerVars
    BY DEF Registered, R!registerVars, Founders, Story
  <1>2. IInv /\ IInv' /\ [Next]_vars => [R!Next]_(R!registerVars)
    BY <1>1, RefinesNext DEF Registered, R!registerVars, Founders, Story
  <1> QED
    BY Invariant, RefinesInit, <1>2, PTL DEF Spec, ImplementsRegister, R!Spec

=============================================================================
