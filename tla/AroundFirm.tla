----------------------------- MODULE AroundFirm -----------------------------
(* What happens around a firm: its subscription and what the plan limits,  *)
(* its people, their privacy and their sign-in, the services it is         *)
(* connected to, its API keys and webhooks, and the language model it      *)
(* calls.  The components share no row that either decides on, so as in    *)
(* AroundMatter `focus' picks the one that runs, and TLC explores each in  *)
(* turn.  The connection to a provider is extended, the others are         *)
(* instances.                                                              *)
EXTENDS Integrations

CONSTANTS Requests,                                                 \* of several
          Tiers, MaxSubs, MaxNotices, MaxDisorder,                  \* Billing
          Kinds, MaxMatters, MaxUsers, MaxUsed,                     \* PlanLimits
          Users, Founder, MixedCase, FirmRoles, Roles, NoUser,
          MaxSeats, MaxTokens, MaxRemovals,                         \* People
          Seats, MaxRequests, MaxPending, MaxRetries,               \* Privacy
          Keys, Limit, Window, Lag, MaxSecrets, MaxTime,            \* ApiKeys
          Hooks, MaxWebhooks, MaxFailures,                          \* Webhooks
          Estates, Assets, TrustDocs, FirmLimit, MatterLimit, Hour,
          MaxCalls, MaxEntered,                                     \* Assistant
          Accounts, Domains, DomainOf                               \* SignIn

VARIABLES focus,
          row, held, customer, firmTier, stripe, inbox, emitted, handled, late, \* Billing
          sub, taken, unchecked, closed, req, excused,              \* PlanLimits
          account, member, seats, seatCount, removing, waived,      \* People
          request, named, linked, pending, jobs, approvals, spared, \* Privacy
          key, secrets, retired, window, admitted, clock, apiCall,  \* ApiKeys
          hook, streak, hookCall, crowded, raced,                   \* Webhooks
          now, firmWindow, matterWindow, calls, aiCall, usage, trusts, entered,
          overlapped,                                               \* Assistant
          config, auth0, users, members, loginCall, exempt          \* SignIn

Plan == INSTANCE Billing WITH disturbed <- late
Limits == INSTANCE PlanLimits WITH used <- taken
Team == INSTANCE People WITH excused <- waived
Data == INSTANCE Privacy WITH excused <- spared
Api == INSTANCE ApiKeys WITH now <- clock, request <- apiCall
Outgoing == INSTANCE Webhooks WITH request <- hookCall
Ai == INSTANCE Assistant WITH request <- aiCall
Login == INSTANCE SignIn WITH pending <- loginCall

ASSUME ComponentsAssumption ==
  /\ Plan!BillingAssumption  /\ Limits!LimitsAssumption
  /\ Team!PeopleAssumption
  /\ Data!PrivacyAssumption  /\ SyncAssumption
  /\ Api!ApiAssumption       /\ Outgoing!HookAssumption
  /\ Ai!AiAssumption

planVars == <<row, held, customer, firmTier, stripe, inbox, emitted, handled, late>>
limitVars == <<sub, taken, unchecked, closed, req, excused>>
teamVars == <<account, member, seats, seatCount, removing, waived>>
dataVars == <<request, named, linked, pending, jobs, approvals, spared>>
apiVars == <<key, secrets, retired, window, admitted, clock, apiCall>>
hooksVars == <<hook, streak, hookCall, crowded, raced>>
aiVars == <<now, firmWindow, matterWindow, calls, aiCall, usage, trusts, entered, overlapped>>
loginVars == <<config, auth0, users, members, loginCall, exempt>>
allVars == <<focus, planVars, limitVars, teamVars, dataVars, vars, apiVars, hooksVars, aiVars, loginVars>>

FirmInit == /\ focus \in {"plan", "limits", "team", "data", "sync", "api", "hooks", "ai", "login"}
            /\ Plan!Init /\ Limits!Init /\ Team!Init /\ Data!Init /\ Init
            /\ Api!Init /\ Outgoing!Init /\ Ai!Init /\ Login!Init

FirmNext ==
  \/ /\ focus = "plan" /\ Plan!Next
     /\ UNCHANGED <<focus, limitVars, teamVars, dataVars, vars, apiVars, hooksVars, aiVars, loginVars>>
  \/ /\ focus = "limits" /\ Limits!Next
     /\ UNCHANGED <<focus, planVars, teamVars, dataVars, vars, apiVars, hooksVars, aiVars, loginVars>>
  \/ /\ focus = "team" /\ Team!Next
     /\ UNCHANGED <<focus, planVars, limitVars, dataVars, vars, apiVars, hooksVars, aiVars, loginVars>>
  \/ /\ focus = "data" /\ Data!Next
     /\ UNCHANGED <<focus, planVars, limitVars, teamVars, vars, apiVars, hooksVars, aiVars, loginVars>>
  \/ /\ focus = "sync" /\ Next
     /\ UNCHANGED <<focus, planVars, limitVars, teamVars, dataVars, apiVars, hooksVars, aiVars, loginVars>>
  \/ /\ focus = "api" /\ Api!Next
     /\ UNCHANGED <<focus, planVars, limitVars, teamVars, dataVars, vars, hooksVars, aiVars, loginVars>>
  \/ /\ focus = "hooks" /\ Outgoing!Next
     /\ UNCHANGED <<focus, planVars, limitVars, teamVars, dataVars, vars, apiVars, aiVars, loginVars>>
  \/ /\ focus = "ai" /\ Ai!Next
     /\ UNCHANGED <<focus, planVars, limitVars, teamVars, dataVars, vars, apiVars, hooksVars, loginVars>>
  \/ /\ focus = "login" /\ Login!Next
     /\ UNCHANGED <<focus, planVars, limitVars, teamVars, dataVars, vars, apiVars, hooksVars, aiVars>>

FirmSpec == FirmInit /\ [][FirmNext]_allVars

\* Each component keeps its types.
ComponentsTyped == CASE focus = "plan" -> Plan!TypeOK
                     [] focus = "limits" -> Limits!TypeOK
                     [] focus = "team" -> Team!TypeOK
                     [] focus = "data" -> Data!TypeOK
                     [] focus = "sync" -> TypeOK
                     [] focus = "api" -> Api!TypeOK
                     [] focus = "hooks" -> Outgoing!TypeOK
                     [] focus = "ai" -> Ai!TypeOK
                     [] focus = "login" -> Login!TypeOK

\* The components' own properties, stated and explained in their modules;
\* those of the connection (ConnectionHonest, PushedOnce) are there under their
\* own names.

\* Webhooks keep the row in step with Stripe, and a grace period with the
\* failures counted (billing service).
PlanInStep == focus = "plan" => Plan!InStep /\ Plan!DunningConsistent
\* A count read before the insert it guards holds as long as requests do not
\* overlap, a window in Redis always: the plan's limits, a firm's webhooks, AI
\* calls and trusts, requests of an API key.
ChecksHold == /\ focus = "limits" => Limits!LimitKept
              /\ focus = "hooks" => Outgoing!HooksCounted
              /\ focus = "ai" => Ai!LimitsKept /\ Ai!OneEntityPerTrust
              /\ focus = "api" => Api!WindowKept
\* A completed deletion leaves nothing, and only approved ones delete (privacy service).
DeletionIsWhole == focus = "data" => Data!DeletionIsWhole
\* Who may come in: people have one seat each and somebody is in charge (firm
\* and stakeholder services), replaced and revoked keys are refused, an
\* enforced sign-in can be used.
AccessKept == /\ focus = "team" => Team!SeatsInOrder
              /\ focus = "api" => Api!DeadKeysRefused
              /\ focus = "login" => Login!EnforcedLoginWorks
=============================================================================
