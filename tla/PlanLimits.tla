----------------------------- MODULE PlanLimits -----------------------------
(* What a firm's plan limits (services/billing_service.py): its open       *)
(* matters and its members.  A request that creates one reads the          *)
(* subscription and counts in one step and inserts in another, as its      *)
(* transaction does.  What webhooks and time do to the row (Billing) is    *)
(* any change of its tier and standing.                                    *)
EXTENDS Naturals

CONSTANTS Kinds,        \* what a plan limits: {"matter", "member"} or one of them
          Tiers,        \* the plans; "starter" is one of them
          MaxMatters,   \* [Tiers -> Nat], TIER_CONFIG's max_matters
          MaxUsers,     \* [Tiers -> Nat], TIER_CONFIG's max_users
          Requests,     \* requests in flight that create a matter or member
          MaxUsed       \* bound: matters and members

\* Every plan seats the person who founded the firm.
LimitsAssumption == /\ Kinds # {} /\ "starter" \in Tiers
                    /\ {MaxMatters, MaxUsers} \subseteq [Tiers -> Nat]
                    /\ MaxUsers["starter"] > 0 /\ MaxUsed \in Nat \ {0}

VARIABLES sub,        \* tier and standing of the subscriptions row, or NoSub
          used,       \* [Kinds -> Nat]: open matters, members
          unchecked,  \* [Kinds -> Nat]: how many of them no limit was asked about
          closed,     \* matters closed
          req,        \* [Requests -> request]
          excused     \* kinds whose requests overlapped, or whose limit moved

vars == <<sub, used, unchecked, closed, req, excused>>

\* "inactive" is canceled or unpaid, "overdue" past due after its grace period.
NoSub == [tier |-> "none"]
Sub == [tier: Tiers, standing: {"fine", "overdue", "inactive"}]
DefaultSub == [tier |-> "starter", standing |-> "fine"]
Idle == [step |-> "idle", kind |-> CHOOSE k \in Kinds : TRUE]
Request == [step: {"idle", "creating", "held", "checked"}, kind: Kinds]

TierLimit(tier, k) == IF k = "matter" THEN MaxMatters[tier] ELSE MaxUsers[tier]

Init == /\ sub = NoSub
        /\ used = [k \in Kinds |-> IF k = "member" THEN 1 ELSE 0]
        /\ unchecked = [k \in Kinds |-> 0] /\ closed = 0
        /\ req = [r \in Requests |-> Idle] /\ excused = {}

------------------------------------------------------------------------------
\* While a request holds an uncommitted insert of the row, another insert waits.
InsertFree == sub # NoSub \/ \A r \in Requests : req[r].step # "held"

\* A webhook, a page that inserts the row, or the end of a grace period.
SubscriptionChanges(s) ==
  /\ InsertFree /\ sub' = s
  /\ excused' = IF s.tier = (IF sub = NoSub THEN DefaultSub ELSE sub).tier THEN excused
                ELSE Kinds
  /\ UNCHANGED <<used, unchecked, closed, req>>

\* _check_access_allowed: is the firm shut out?
AccessAllowed(s) == s.standing \notin {"inactive", "overdue"}

\* Slip: one too many.
CheckLimitInclusive(s, k) == AccessAllowed(s) /\ used[k] <= TierLimit(s.tier, k)
\* check_matter_limit, check_user_limit: the plan has room for one more.
CheckLimit(s, k) == AccessAllowed(s) /\ used[k] < TierLimit(s.tier, k)

Overlapping(r, k) == \E o \in Requests \ {r} : req[o].step # "idle" /\ req[o].kind = k

\* The request reads the row.  Without one it is going to insert it.
BeginCreate(r, k) ==
  /\ req[r].step = "idle"
  /\ \/ /\ sub # NoSub /\ CheckLimit(sub, k)
        /\ req' = [req EXCEPT ![r] = [step |-> "checked", kind |-> k]]
     \/ /\ sub = NoSub
        /\ req' = [req EXCEPT ![r] = [step |-> "creating", kind |-> k]]
  /\ excused' = IF Overlapping(r, k) THEN excused \cup {k} ELSE excused
  /\ UNCHANGED <<sub, used, unchecked, closed>>

\* It inserts the row; when another transaction's row has meanwhile been
\* committed the unique constraint on firm_id ends the request.
InsertRow(r) ==
  /\ req[r].step = "creating" /\ InsertFree
  /\ req' = [req EXCEPT ![r] = IF sub = NoSub /\ CheckLimit(DefaultSub, req[r].kind)
                               THEN [@ EXCEPT !.step = "held"] ELSE Idle]
  /\ UNCHANGED <<sub, used, unchecked, closed, excused>>

\* The matter or member is inserted and the transaction commits.
FinishCreate(r) ==
  LET k == req[r].kind IN
  /\ req[r].step \in {"held", "checked"}
  /\ used[k] + (IF k = "matter" THEN closed ELSE 0) < MaxUsed
  /\ used' = [used EXCEPT ![k] = @ + 1]
  /\ sub' = IF req[r].step = "held" THEN DefaultSub ELSE sub
  /\ req' = [req EXCEPT ![r] = Idle]
  /\ UNCHANGED <<unchecked, closed, excused>>

Leave(k) == /\ used' = [used EXCEPT ![k] = @ - 1]
            /\ unchecked' = [unchecked EXCEPT ![k] = IF @ > 0 THEN @ - 1 ELSE @]
            /\ UNCHANGED <<sub, req, excused>>
EnterUnchecked(k) == /\ used' = [used EXCEPT ![k] = @ + 1]
                     /\ unchecked' = [unchecked EXCEPT ![k] = @ + 1]
                     /\ UNCHANGED <<sub, req, excused>>

CloseMatter == /\ "matter" \in Kinds /\ used["matter"] > 0
               /\ closed' = closed + 1 /\ Leave("matter")
RemoveMember == /\ "member" \in Kinds /\ used["member"] > 1
                /\ UNCHANGED closed /\ Leave("member")
\* PATCH /matters/{id} sets a closed matter active again and asks no limit.
UpdateMatter == /\ "matter" \in Kinds /\ closed > 0
                /\ closed' = closed - 1 /\ EnterUnchecked("matter")
\* Nor does the first sign-in of somebody from the firm's domain.
AutoProvisionSsoUser == /\ "member" \in Kinds /\ used["member"] < MaxUsed
                        /\ UNCHANGED closed /\ EnterUnchecked("member")

Next == \/ \E s \in Sub : SubscriptionChanges(s)
        \/ \E r \in Requests : \/ \E k \in Kinds : BeginCreate(r, k)
                               \/ InsertRow(r)
                               \/ FinishCreate(r)
        \/ CloseMatter \/ RemoveMember \/ UpdateMatter \/ AutoProvisionSsoUser

Spec == Init /\ [][Next]_vars

------------------------------------------------------------------------------
TypeOK == /\ sub \in Sub \cup {NoSub} /\ closed \in 0..MaxUsed
          /\ used \in [Kinds -> 0..MaxUsed] /\ unchecked \in [Kinds -> 0..MaxUsed]
          /\ req \in [Requests -> Request] /\ excused \subseteq Kinds

\* check_matter_limit and check_user_limit hold the plan's limits as long as
\* requests do not overlap and the plan stays the same: what is above the limit
\* came in where nothing is asked, by a matter opened again or by a sign-in.
LimitKept ==
  \A k \in Kinds \ excused :
    used[k] <= TierLimit(IF sub = NoSub THEN "starter" ELSE sub.tier, k) + unchecked[k]
=============================================================================
