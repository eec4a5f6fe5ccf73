------------------------------ MODULE Register ------------------------------
(***************************************************************************)
(* What a product promises about its people: someone is accountable for    *)
(* it, and its trail says who is on it and by which act, because a change  *)
(* and its row are one step.  A product on which the promise was broken    *)
(* is in `lapsed`; nothing is promised about its trail from then on, but   *)
(* it is never without an owner.                                           *)
(***************************************************************************)
EXTENDS SequencesExt

CONSTANTS Products, Users, Roles

None == "none"
Owner == "owner"

VARIABLES
    members,    \* who is on the product, in which role
    founder,    \* who opened it
    trail,      \* what was recorded about its members
    lapsed      \* products whose trail is no longer the whole story

registerVars == <<members, founder, trail, lapsed>>

Act == [op : {"add_member", "accept_invitation", "remove_member"}, user : Users, role : Roles]
Nobody == [u \in Users |-> None]
Accountable(people) == \E u \in Users : people[u] = Owner

Init ==
    /\ founder \in [Products -> Users \cup {None}]
    /\ members = [p \in Products |->
                    [u \in Users |-> IF founder[p] = u THEN Owner ELSE None]]
    /\ trail = [p \in Products |-> <<>>]
    /\ lapsed = {}

Open(p, u) ==
    /\ p \notin lapsed
    /\ members[p] = Nobody /\ trail[p] = <<>>
    /\ members' = [members EXCEPT ![p][u] = Owner]
    /\ founder' = [founder EXCEPT ![p] = u]
    /\ UNCHANGED <<trail, lapsed>>

Admit(p, act) ==
    /\ p \notin lapsed
    /\ act.op # "remove_member"
    /\ Accountable(members[p])
    /\ members[p][act.user] = None
    /\ members' = [members EXCEPT ![p][act.user] = act.role]
    /\ trail' = [trail EXCEPT ![p] = Append(@, act)]
    /\ UNCHANGED <<founder, lapsed>>

Dismiss(p, act) ==
    /\ p \notin lapsed
    /\ act.op = "remove_member"
    /\ members[p][act.user] = act.role
    /\ members' = [members EXCEPT ![p][act.user] = None]
    /\ Accountable(members'[p])
    /\ trail' = [trail EXCEPT ![p] = Append(@, act)]
    /\ UNCHANGED <<founder, lapsed>>

Close(p) ==
    /\ members' = [members EXCEPT ![p] = Nobody]
    /\ founder' = [founder EXCEPT ![p] = None]
    /\ trail' = [trail EXCEPT ![p] = <<>>]
    /\ UNCHANGED lapsed

Lapse(p) ==
    /\ \E people \in [Users -> Roles \cup {None}], u \in Users :
         /\ Accountable(people)
         /\ members' = [members EXCEPT ![p] = people]
         /\ founder' = [founder EXCEPT ![p] = u]
    /\ trail' = [trail EXCEPT ![p] = <<>>]
    /\ lapsed' = lapsed \cup {p}

Next ==
    \E p \in Products :
        \/ \E u \in Users : Open(p, u)
        \/ \E act \in Act : Admit(p, act) \/ Dismiss(p, act)
        \/ Close(p)
        \/ Lapse(p)

Spec == Init /\ [][Next]_registerVars
=============================================================================
