------------------------------- MODULE People -------------------------------
(* The people of one firm and of one of its matters: accounts made at the  *)
(* first sign-in (core/security.py), firm members (firm_service.py), and   *)
(* the matter's stakeholders and their invitations                         *)
(* (stakeholder_service.py, accept_invite in api/v1/auth).  Removing the   *)
(* last owner or the last matter admin is refused after a count that no    *)
(* lock protects, so a removal is two steps: checked, then done.           *)
EXTENDS Naturals, FiniteSets

CONSTANTS Users,       \* people
          Founder,     \* creates the firm and the matter
          MixedCase,   \* users whose account address has capital letters
          FirmRoles,   \* FirmRole
          Roles,       \* StakeholderRole
          MaxSeats,    \* bound: stakeholder rows ever inserted
          MaxTokens,   \* bound: tokens generated for one row
          MaxRemovals, \* bound: removals under way at once
          NoUser

\* The founder owns the firm and administers the matter from the start, and no
\* account stands for no link.
PeopleAssumption == /\ Founder \in Users /\ NoUser \notin Users
                    /\ "owner" \in FirmRoles /\ "matter_admin" \in Roles
                    /\ MaxSeats \in Nat \ {0} /\ MaxTokens \in Nat \ {0}

VARIABLES account,     \* [Users -> "none", "pending" (invited) or "active"]
          member,      \* [Users -> FirmRoles \cup {"none"}]
          seats,       \* stakeholders rows
          seatCount,   \* rows inserted so far
          removing,    \* removals that passed their check and are not done
          excused      \* tables where a PATCH demoted an owner or admin, or where
                       \* two removals overlapped

vars == <<account, member, seats, seatCount, removing, excused>>

NoRole == "none"
\* An address is that of an account, or one no account has; stakeholders are
\* compared in lower case.
Address == [of: Users \cup {NoUser}, lower: BOOLEAN]
AddressOf(u) == [of |-> u, lower |-> u \notin MixedCase]
Lowered(e) == [of |-> e.of, lower |-> TRUE]

Seat == [id: 1..MaxSeats, user: Users \cup {NoUser}, email: Address,
         role: Roles, status: {"pending", "accepted"}, token: 0..MaxTokens]
Removal == [table: {"members", "stakeholders"}, id: Users \cup (1..MaxSeats)]

\* Table constraints: one row per address (uq_stakeholder_matter_email).
Distinct(rows) == \A s, t \in rows : s # t => s.email # t.email

Owners == {u \in Users : member[u] = "owner"}
SeatsOf(role) == {s \in seats : s.role = role}

\* create_firm and create_matter: the founder owns the one and administers the
\* other, under the address of the account as it is.
Init ==
  /\ account = [u \in Users |-> IF u = Founder THEN "active" ELSE "none"]
  /\ member = [u \in Users |-> IF u = Founder THEN "owner" ELSE NoRole]
  /\ seats = {[id |-> 1, user |-> Founder, email |-> AddressOf(Founder),
               role |-> "matter_admin", status |-> "accepted", token |-> 0]}
  /\ seatCount = 1 /\ removing = {} /\ excused = {}

------------------------------------------------------------------------------
(* Who may *)

\* get_current_user: a first sign-in inserts the account.  The lookup is by the
\* identity provider's subject alone, so for someone invited before
\* ("pending") the insert meets the unique address and fails, every time.
Provision(u) ==
  /\ account[u] = "none"
  /\ account' = [account EXCEPT ![u] = "active"]
  /\ UNCHANGED <<member, seats, seatCount, removing, excused>>

\* require_firm_member
IsMember(u) == account[u] = "active" /\ member[u] # NoRole

\* require_stakeholder: the user's row on the matter, and else, for a member of
\* the firm, the rights of a matter admin.  Two rows are an error, not a choice.
RowsOf(u) == {s \in seats : s.user = u}
RoleOn(u) == IF RowsOf(u) = {} THEN {"matter_admin"} ELSE {s.role : s \in RowsOf(u)}
MayManage(u) == /\ IsMember(u)
                /\ Cardinality(RowsOf(u)) <= 1
                /\ RoleOn(u) = {"matter_admin"}

------------------------------------------------------------------------------
(* Firm members *)

\* invite_firm_member: a placeholder account stands in for an unknown address.
InviteMember(actor, u, role) ==
  /\ member[actor] \in {"owner", "admin"}
  /\ member[u] = NoRole
  /\ account' = [account EXCEPT ![u] = IF @ = "none" THEN "pending" ELSE @]
  /\ member' = [member EXCEPT ![u] = role]
  /\ UNCHANGED <<seats, seatCount, removing, excused>>

\* update_member_role: owners only, any role for anybody, the last owner included.
UpdateMemberRole(actor, u, role) ==
  /\ member[actor] = "owner"
  /\ member[u] # NoRole
  /\ member' = [member EXCEPT ![u] = role]
  /\ excused' = IF member[u] = "owner" /\ role # "owner"
                THEN excused \cup {"members"} ELSE excused
  /\ UNCHANGED <<account, seats, seatCount, removing>>

\* A removal that passed its check while another one had not been done yet.
Admit(table, id) ==
  /\ Cardinality(removing) < MaxRemovals
  /\ removing' = removing \cup {[table |-> table, id |-> id]}
  /\ excused' = IF \E r \in removing : r.table = table
                THEN excused \cup {table} ELSE excused

\* Slip: any removal is admitted.
CheckRemoveAnyMember(actor, u) ==
  /\ member[actor] = "owner" /\ member[u] # NoRole
  /\ [table |-> "members", id |-> u] \notin removing
  /\ Admit("members", u)
  /\ UNCHANGED <<account, member, seats, seatCount>>
\* remove_member, up to the count of owners.
CheckRemoveMember(actor, u) ==
  /\ member[actor] = "owner" /\ member[u] # NoRole
  /\ [table |-> "members", id |-> u] \notin removing
  /\ member[u] = "owner" => Cardinality(Owners) > 1
  /\ Admit("members", u)
  /\ UNCHANGED <<account, member, seats, seatCount>>

\* remove_member, the delete and the commit.
RemoveMember(u) ==
  /\ [table |-> "members", id |-> u] \in removing
  /\ removing' = removing \ {[table |-> "members", id |-> u]}
  /\ member' = [member EXCEPT ![u] = NoRole]
  /\ UNCHANGED <<account, seats, seatCount, excused>>

\* The endpoints let any member in; the service looks at the role.
PostMember(actor, u, role) == IsMember(actor) /\ InviteMember(actor, u, role)
PatchMember(actor, u, role) == IsMember(actor) /\ UpdateMemberRole(actor, u, role)
DeleteMember(actor, u) == IsMember(actor) /\ CheckRemoveMember(actor, u)

------------------------------------------------------------------------------
(* Stakeholders *)

\* invite_stakeholder, to u's address or (NoUser) to one no account has:
\* refused when the lowered address is taken; an account with that address is
\* linked at once, anyone else gets a token.
Invite(u, role) ==
  LET e == Lowered(AddressOf(u))
      linked == u # NoUser /\ account[u] # "none"
  IN /\ seatCount < MaxSeats
     /\ \A s \in seats : Lowered(s.email) # e
     /\ seatCount' = seatCount + 1
     /\ seats' = seats \cup
          {[id |-> seatCount', user |-> IF linked THEN u ELSE NoUser,
            email |-> e, role |-> role,
            status |-> IF linked THEN "accepted" ELSE "pending",
            token |-> IF linked THEN 0 ELSE 1]}
     /\ UNCHANGED <<account, member, removing, excused>>

\* update_stakeholder: any role, the last matter admin's included.
UpdateStakeholder(s, role) ==
  /\ s.role # role
  /\ seats' = (seats \ {s}) \cup {[s EXCEPT !.role = role]}
  /\ excused' = IF s.role = "matter_admin" THEN excused \cup {"stakeholders"} ELSE excused
  /\ UNCHANGED <<account, member, seatCount, removing>>

\* remove_stakeholder, up to the count of matter admins.
CheckRemoveStakeholder(s) ==
  /\ [table |-> "stakeholders", id |-> s.id] \notin removing
  /\ s.role = "matter_admin" => Cardinality(SeatsOf("matter_admin")) > 1
  /\ Admit("stakeholders", s.id)
  /\ UNCHANGED <<account, member, seats, seatCount>>

RemoveStakeholder(s) ==
  /\ [table |-> "stakeholders", id |-> s.id] \in removing
  /\ removing' = removing \ {[table |-> "stakeholders", id |-> s.id]}
  /\ seats' = seats \ {s}
  /\ UNCHANGED <<account, member, seatCount, excused>>

\* resend_invite: a new token replaces the old one.
ResendInvite(s) ==
  /\ s.status = "pending" /\ s.token < MaxTokens
  /\ seats' = (seats \ {s}) \cup {[s EXCEPT !.token = @ + 1]}
  /\ UNCHANGED <<account, member, seatCount, removing, excused>>

\* Slip: the row keeps the address that was invited.
AcceptInviteOldAddress(u, s) ==
  /\ account[u] = "active" /\ s.token # 0 /\ s.status = "pending"
  /\ seats' = (seats \ {s}) \cup {[s EXCEPT !.user = u, !.status = "accepted"]}
  /\ UNCHANGED <<account, member, seatCount, removing, excused>>
\* accept_invite: whoever holds the token takes the seat and puts the account's
\* address on it, as it is; the constraint refuses an address twice.
AcceptInvite(u, s) ==
  LET taken == [s EXCEPT !.user = u, !.status = "accepted", !.email = AddressOf(u)] IN
  /\ account[u] = "active" /\ s.token # 0 /\ s.status = "pending"
  /\ Distinct((seats \ {s}) \cup {taken})
  /\ seats' = (seats \ {s}) \cup {taken}
  /\ UNCHANGED <<account, member, seatCount, removing, excused>>

\* The endpoints: require_permission("stakeholder:manage").
PostStakeholder(actor, u, role) == MayManage(actor) /\ Invite(u, role)
PatchStakeholder(actor, s, role) == MayManage(actor) /\ UpdateStakeholder(s, role)
DeleteStakeholder(actor, s) == MayManage(actor) /\ CheckRemoveStakeholder(s)
PostInvite(actor, s) == MayManage(actor) /\ ResendInvite(s)

Next ==
  \/ \E u \in Users : Provision(u) \/ RemoveMember(u)
  \/ \E actor, u \in Users :
       \/ \E role \in FirmRoles : PostMember(actor, u, role) \/ PatchMember(actor, u, role)
       \/ DeleteMember(actor, u)
  \/ \E actor \in Users :
       \/ \E u \in Users \cup {NoUser}, role \in Roles : PostStakeholder(actor, u, role)
       \/ \E s \in seats : \/ \E role \in Roles : PatchStakeholder(actor, s, role)
                           \/ DeleteStakeholder(actor, s)
                           \/ PostInvite(actor, s)
  \/ \E s \in seats : \/ RemoveStakeholder(s)
                      \/ \E u \in Users : AcceptInvite(u, s)

Spec == Init /\ [][Next]_vars

------------------------------------------------------------------------------
TypeOK ==
  /\ account \in [Users -> {"none", "pending", "active"}]
  /\ member \in [Users -> FirmRoles \cup {NoRole}]
  /\ seats \subseteq Seat /\ Distinct(seats)
  /\ seatCount \in 1..MaxSeats
  /\ removing \subseteq Removal
  /\ excused \subseteq {"members", "stakeholders"}

\* A user whose account address is in lower case never holds two rows of one
\* matter, whatever was invited, forwarded, accepted or removed: every request
\* on the matter looks for exactly one.
OneSeatEach == \A u \in Users \ MixedCase : Cardinality(RowsOf(u)) <= 1

\* The firm keeps an owner and the matter an administrator as long as nobody
\* is demoted by a PATCH and no two removals overlap.
SomeoneInCharge ==
  /\ Owners # {} \/ "members" \in excused
  /\ SeatsOf("matter_admin") # {} \/ "stakeholders" \in excused

\* The two together: who may act on the firm and its matter stays decidable.
SeatsInOrder == OneSeatEach /\ SomeoneInCharge
=============================================================================
