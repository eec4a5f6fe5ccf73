----------------------------- MODULE Membership -----------------------------
(***************************************************************************)
(* The product store and the people on a product: store_pg.py,             *)
(* store_backend.py, invitations.py, add_member and remove_member of       *)
(* scoping.py, create_product and delete_product of handlers.py, on        *)
(* Postgres.                                                               *)
(*                                                                         *)
(* The server is one process and its handlers run to their end on one      *)
(* event loop.  A tool's change is one transaction under the row lock; an  *)
(* invited sign-in is several, and the process may stop or a transaction   *)
(* fail between them.  Beside it the operator runs                         *)
(* scripts/migrate_annex_i_ids.py in a process of its own, which loads a   *)
(* product and saves it without a lock.                                    *)
(*                                                                         *)
(* The parties' static bearers, which name no user, and the file backend   *)
(* are left out.                                                           *)
(***************************************************************************)
EXTENDS SequencesExt

CONSTANTS
    Products,      \* product ids, random and never reused
    Users,         \* people, each behind an address
    Roles,         \* RBAC roles told apart: owner or less
    MaxVersion     \* bound: writes of one product's state

None == "none"
Owner == "owner"

ASSUME MembershipAssumption ==
    /\ Owner \in Roles /\ None \notin Roles \cup Users
    /\ MaxVersion \in Nat

VARIABLES
    accounts,      \* users rows
    rows,          \* products rows, with the part of the blob that matters here
    mirror,        \* product_members rows
    exports,       \* products with a statutory_exports row
    invitations,   \* product_invitations rows
    trail,         \* audit_events rows about membership
    joining,       \* the running apply_pending, if one runs
    script,        \* the migration's copy of a product
    lapsed,        \* products whose trail stopped explaining them (history)
    letIn          \* who an invitation let in, if accepted_at tells (history)

vars == <<accounts, rows, mirror, exports, invitations, trail, joining, script, lapsed,
          letIn>>

Nobody == [u \in Users |-> None]
People == [Users -> Roles \cup {None}]
Owners(people) == {u \in Users : people[u] = Owner}

State == [members : People, placed : BOOLEAN, renumbered : BOOLEAN]
Row == [phase : {"unused", "live", "deleted"}, owner : Users \cup {None},
        state : State, version : 0..MaxVersion]
NoState == [members |-> Nobody, placed |-> FALSE, renumbered |-> TRUE]
Live(p) == rows[p].phase = "live"

Act == [op : {"add_member", "accept_invitation", "remove_member"}, user : Users, role : Roles]
Invitation == [role : Roles \cup {None}, accepted : BOOLEAN]
NotInvited == [role |-> None, accepted |-> FALSE]

Stages == {"next", "save", "record", "accept"}
Call == [user : Users \cup {None}, todo : SUBSET Products, stage : Stages,
         product : Products \cup {None}, copy : State, version : 0..MaxVersion]
NoCall == [user |-> None, todo |-> {}, stage |-> "next", product |-> None,
           copy |-> NoState, version |-> 0]
Copy == [product : Products \cup {None}, copy : State, version : 0..MaxVersion]
NoCopy == [product |-> None, copy |-> NoState, version |-> 0]

TypeOK ==
    /\ accounts \subseteq Users
    /\ rows \in [Products -> Row]
    /\ \A p \in Products, u \in Users : rows[p].state.members[u] # None => u \in accounts
    /\ mirror \in [Products -> People]
    /\ exports \subseteq Products
    /\ invitations \in [Products -> [Users -> Invitation]]
    /\ \A p \in Products : \A i \in 1..Len(trail[p]) : trail[p][i] \in Act
    /\ joining \in Call
    /\ script \in Copy
    /\ lapsed \subseteq Products
    /\ letIn \subseteq Products \X Users

(* A deployment with products from before the renumbering.                 *)
Init ==
    \E founders \in [Products -> Users \cup {None}] :
        /\ accounts = {founders[p] : p \in Products} \ {None}
        /\ rows = [p \in Products |->
              IF founders[p] = None
              THEN [phase |-> "unused", owner |-> None, state |-> NoState, version |-> 0]
              ELSE [phase |-> "live", owner |-> founders[p], version |-> 0,
                    state |-> [members |-> [Nobody EXCEPT ![founders[p]] = Owner],
                               placed |-> FALSE, renumbered |-> FALSE]]]
        /\ mirror = [p \in Products |-> rows[p].state.members]
        /\ exports = {}
        /\ invitations = [p \in Products |-> [u \in Users |-> NotInvited]]
        /\ trail = [p \in Products |-> <<>>]
        /\ joining = NoCall
        /\ script = NoCopy
        /\ lapsed = {}
        /\ letIn = {}

----------------------------------------------------------------------------
(* The store.                                                              *)

(* _mirror_members: the rows follow the blob, in the same transaction.     *)
Mirrored(p, members) == members

(* The update branch of save_state, and the end of with_lock: the whole    *)
(* blob is replaced, the version counts up.  Nobody passes                 *)
(* expected_version.                                                       *)
Write(p, state) ==
    /\ rows[p].version < MaxVersion
    /\ rows' = [rows EXCEPT ![p].state = state, ![p].version = @ + 1]
    /\ mirror' = [mirror EXCEPT ![p] = Mirrored(p, state.members)]

(* with_lock: the blob is read under the lock, fn's change and the rows it *)
(* adds to the trail commit with it.                                       *)
WithLock(p, state, acts) ==
    /\ Live(p)
    /\ Write(p, state)
    /\ trail' = [trail EXCEPT ![p] = @ \o acts]

Serving == joining.user = None

----------------------------------------------------------------------------
(* The tools.                                                              *)

(* create_product.  It writes no row to the trail: the owner column is     *)
(* what remembers who opened it.                                           *)
CreateProduct(u, p) ==
    /\ Serving
    /\ u \in accounts
    /\ rows[p].phase = "unused"
    /\ LET members == [Nobody EXCEPT ![u] = Owner]
       IN  /\ rows' = [rows EXCEPT ![p] =
                 [phase |-> "live", owner |-> u, version |-> 0,
                  state |-> [NoState EXCEPT !.members = members]]]
           /\ mirror' = [mirror EXCEPT ![p] = members]
    /\ UNCHANGED <<accounts, exports, invitations, trail, joining, script, lapsed, letIn>>

MaySetMembers(actor, p) ==
    /\ Serving
    /\ Live(p)
    /\ rows[p].state.members[actor] = Owner

(* user_id_for                                                             *)
Resolves(u) == u \in accounts

(* add_member for somebody with an account                                 *)
AddMember(actor, p, u, role) ==
    /\ MaySetMembers(actor, p)
    /\ Resolves(u)
    /\ rows[p].state.members[u] = None
    /\ WithLock(p, [rows[p].state EXCEPT !.members[u] = role],
                <<[op |-> "add_member", user |-> u, role |-> role]>>)
    /\ UNCHANGED <<accounts, exports, invitations, joining, script, lapsed, letIn>>

(* add_member for an address without one: invitations.invite.  A repeated  *)
(* invitation keeps its acceptance.                                        *)
Invite(actor, p, u, role) ==
    /\ MaySetMembers(actor, p)
    /\ ~Resolves(u)
    /\ invitations' = [invitations EXCEPT ![p][u].role = role]
    /\ UNCHANGED <<accounts, rows, mirror, exports, trail, joining, script, lapsed, letIn>>

LastMember(p, u) ==  \* mutant: members counted, not owners
    {v \in Users : rows[p].state.members[v] # None} = {u}
LastOwner(p, u) == Owners(rows[p].state.members) = {u}

RemoveMember(actor, p, u) ==
    /\ MaySetMembers(actor, p)
    /\ rows[p].state.members[u] # None
    /\ ~LastOwner(p, u)
    /\ WithLock(p, [rows[p].state EXCEPT !.members[u] = None],
                <<[op |-> "remove_member", user |-> u, role |-> rows[p].state.members[u]]>>)
    /\ UNCHANGED <<accounts, exports, invitations, joining, script, lapsed, letIn>>

(* place_on_market, and the other writers of the statutory archive: the    *)
(* export row commits with the state.                                      *)
Export(p, placing) ==
    /\ Serving
    /\ WithLock(p, [rows[p].state EXCEPT !.placed = @ \/ placing], <<>>)
    /\ exports' = exports \cup {p}
    /\ UNCHANGED <<accounts, invitations, joining, script, lapsed, letIn>>

(* delete_product; the rows keyed to the product go with it.               *)
MayDelete(p) == ~rows[p].state.placed /\ p \notin exports

DeleteProduct(actor, p) ==
    /\ MaySetMembers(actor, p)
    /\ MayDelete(p)
    /\ rows' = [rows EXCEPT ![p] = [phase |-> "deleted", owner |-> None,
                                    state |-> NoState, version |-> 0]]
    /\ mirror' = [mirror EXCEPT ![p] = Nobody]
    /\ invitations' = [invitations EXCEPT ![p] = [u \in Users |-> NotInvited]]
    /\ trail' = [trail EXCEPT ![p] = <<>>]
    /\ letIn' = letIn \ ({p} \X Users)
    /\ UNCHANGED <<accounts, exports, joining, script, lapsed>>

----------------------------------------------------------------------------
(* _claim_account and what it defers: apply_pending, row by row.           *)

PendingForGood(u) ==  \* mutant: accepted_at not asked
    {p \in Products : invitations[p][u].role # None}
Pending(u) == {p \in Products : invitations[p][u].role # None /\ ~invitations[p][u].accepted}

SignIn(u) ==
    /\ Serving
    /\ accounts' = accounts \cup {u}
    /\ joining' = IF Pending(u) = {} THEN NoCall
                  ELSE [NoCall EXCEPT !.user = u, !.todo = Pending(u)]
    /\ UNCHANGED <<rows, mirror, exports, invitations, trail, script, lapsed, letIn>>

(* the call without the row it is at                                       *)
RestOf(call) ==
    LET left == call.todo \ {call.product}
    IN  IF left = {} THEN NoCall ELSE [NoCall EXCEPT !.user = call.user, !.todo = left]

(* _join's load_state                                                      *)
JoinLoad(p) ==
    /\ joining.stage = "next" /\ p \in joining.todo
    /\ joining' = IF rows[p].state.members[joining.user] # None
                  THEN [joining EXCEPT !.product = p, !.stage = "accept"]
                  ELSE [joining EXCEPT !.product = p, !.stage = "save",
                                       !.copy = rows[p].state, !.version = rows[p].version]
    /\ UNCHANGED <<accounts, rows, mirror, exports, invitations, trail, script, lapsed, letIn>>

Invitee == <<joining.product, joining.user>>
Granted == invitations[joining.product][joining.user].role

(* its save_state                                                          *)
JoinSave ==
    LET p == joining.product
    IN  /\ joining.stage = "save"
        /\ Write(p, [joining.copy EXCEPT !.members[joining.user] = Granted])
        /\ lapsed' = IF joining.version = rows[p].version THEN lapsed ELSE lapsed \cup {p}
        /\ letIn' = letIn \cup {Invitee}
        /\ joining' = [joining EXCEPT !.stage = "record", !.copy = NoState, !.version = 0]
        /\ UNCHANGED <<accounts, exports, invitations, trail, script>>

(* its audit row, in a transaction of its own                              *)
InFlight == [op |-> "accept_invitation", user |-> joining.user, role |-> Granted]

JoinRecordForgotten ==  \* mutant: the membership written, the row left out
    /\ joining.stage = "record"
    /\ joining' = [joining EXCEPT !.stage = "accept"]
    /\ UNCHANGED <<accounts, rows, mirror, exports, invitations, trail, script, lapsed, letIn>>
JoinRecord ==
    /\ joining.stage = "record"
    /\ trail' = [trail EXCEPT ![joining.product] = Append(@, InFlight)]
    /\ joining' = [joining EXCEPT !.stage = "accept"]
    /\ UNCHANGED <<accounts, rows, mirror, exports, invitations, script, lapsed, letIn>>

(* accepted_at                                                             *)
JoinAccept ==
    /\ joining.stage = "accept"
    /\ invitations' = [invitations EXCEPT ![joining.product][joining.user].accepted = TRUE]
    /\ joining' = RestOf(joining)
    /\ UNCHANGED <<accounts, rows, mirror, exports, trail, script, lapsed, letIn>>

Unrecorded == IF joining.stage = "record" THEN {joining.product} ELSE {}

(* _join raises: the next row is tried.  Here and when the loop ends       *)
(* early, an acceptance that was not written leaves the invitation as it   *)
(* was, and the next sign-in applies it.                                   *)
JoinFails ==
    /\ joining.stage \in {"save", "record"}
    /\ joining' = RestOf(joining)
    /\ lapsed' = lapsed \cup Unrecorded
    /\ letIn' = letIn \ {Invitee}
    /\ UNCHANGED <<accounts, rows, mirror, exports, invitations, trail, script>>

(* accepted_at cannot be written, which nothing catches inside the loop,   *)
(* or the process stops.                                                   *)
JoinEnds ==
    /\ ~Serving
    /\ joining' = NoCall
    /\ lapsed' = lapsed \cup Unrecorded
    /\ letIn' = letIn \ {Invitee}
    /\ UNCHANGED <<accounts, rows, mirror, exports, invitations, trail, script>>

----------------------------------------------------------------------------
(* scripts/migrate_annex_i_ids.py, beside the server.                      *)

MigrateLoad(p) ==
    /\ script = NoCopy
    /\ Live(p)
    /\ ~rows[p].state.renumbered
    /\ script' = [product |-> p, copy |-> [rows[p].state EXCEPT !.renumbered = TRUE],
                  version |-> rows[p].version]
    /\ UNCHANGED <<accounts, rows, mirror, exports, invitations, trail, joining, lapsed, letIn>>

(* save_state: over whatever was written since, and as a new row if the    *)
(* product was deleted meanwhile.                                          *)
MigrateSave ==
    LET p == script.product
    IN  /\ script # NoCopy
        /\ \/ /\ Live(p)
              /\ Write(p, script.copy)
              /\ lapsed' = IF script.version = rows[p].version THEN lapsed ELSE lapsed \cup {p}
           \/ /\ rows[p].phase = "deleted"
              /\ \E o \in Owners(script.copy.members) :
                    rows' = [rows EXCEPT ![p] = [phase |-> "live", owner |-> o,
                                                 state |-> script.copy, version |-> 0]]
              /\ mirror' = [mirror EXCEPT ![p] = script.copy.members]
              /\ lapsed' = lapsed \cup {p}
        /\ script' = NoCopy
        /\ UNCHANGED <<accounts, exports, invitations, trail, joining, letIn>>

Tools ==
    \/ \E u \in Users, p \in Products : CreateProduct(u, p)
    \/ \E actor \in Users, p \in Products, u \in Users :
          \/ \E role \in Roles : AddMember(actor, p, u, role) \/ Invite(actor, p, u, role)
          \/ RemoveMember(actor, p, u)
    \/ \E p \in Products, placing \in BOOLEAN : Export(p, placing)
    \/ \E actor \in Users, p \in Products : DeleteProduct(actor, p)

Joining ==
    \/ \E p \in Products : JoinLoad(p)
    \/ JoinSave \/ JoinRecord \/ JoinAccept \/ JoinFails \/ JoinEnds

Next ==
    \/ Tools
    \/ \E u \in Users : SignIn(u)
    \/ Joining
    \/ \E p \in Products : MigrateLoad(p)
    \/ MigrateSave

Spec == Init /\ [][Next]_vars

----------------------------------------------------------------------------
(* A product is never without an owner among its members, through          *)
(* removals, half-applied invitations, and saves over somebody's change.   *)
OwnerRemains == \A p \in Products : Live(p) => Owners(rows[p].state.members) # {}

(* An invitation lets a person in once.  Its row outlives the acceptance   *)
(* and every sign-in applies what is pending, so whoever an owner removed  *)
(* afterwards must not be a member again by signing in.  It does not say   *)
(* so of a join cut short before accepted_at: that one is applied again,   *)
(* over a removal as well.                                                 *)
InvitedOnce == joining.stage = "save" => Invitee \notin letIn

(* The store implements Register: every change of who product_members says *)
(* is on a product is one of the acts the trail is told of, in the same    *)
(* step, or a lapse; so the rows follow the blob, stale ones included.     *)
(* The row an invited join owes counts as written.                         *)
R == INSTANCE Register WITH
        members <- mirror,
        founder <- [p \in Products |-> rows[p].owner],
        trail <- [p \in Products |->
                    IF p \in lapsed THEN <<>>
                    ELSE IF p \in Unrecorded THEN Append(trail[p], InFlight)
                    ELSE trail[p]]
ImplementsRegister == R!Spec

----------------------------------------------------------------------------
(* What the documentation says of this program and the code does not do.   *)

(* "The owner is always the payer": the owner column is set once.  Whoever *)
(* opened the product goes on paying for it, and having it counted against *)
(* his plan, after another owner removed him.                              *)
PayerIsAnOwner ==
    \A p \in Products : Live(p) => rows[p].state.members[rows[p].owner] = Owner

(* "Run it once per environment", in the running server's container: a     *)
(* product deleted between the script's load and its save is there again.  *)
DeletedIsGone ==
    [][\A p \in Products : rows[p].phase = "deleted" => rows'[p].phase = "deleted"]_vars

(* "a state change nobody can evidence is worse than no state change": an  *)
(* invited member's row that could not be written is never written.        *)
EveryJoinIsRecorded ==
    joining = NoCall =>
        \A p \in Products, u \in Users :
            invitations[p][u].accepted /\ rows[p].state.members[u] # None =>
                \E i \in 1..Len(trail[p]) : trail[p][i].user = u
=============================================================================
