------------------------------ MODULE Webhooks ------------------------------
(* A firm's webhooks and the deliveries made to them (webhook_service.py,   *)
(* api/v1/developer).  A delivery holds its request open while it waits for *)
(* the firm's server, and then writes what it makes of the row it had read. *)
EXTENDS Naturals, FiniteSets

CONSTANTS Hooks,       \* webhooks ids
          Requests,    \* requests in flight
          MaxWebhooks, \* MAX_WEBHOOKS_PER_FIRM
          MaxFailures  \* bound: failures counted

HookAssumption == MaxWebhooks \in Nat /\ MaxFailures \in Nat

VARIABLES hook,      \* webhooks: a function on the ids of the rows there are
          streak,    \* [Hooks -> deliveries that failed since the last success]
          request,   \* [Requests -> a request in flight, or Idle]
          crowded,   \* two creations of a webhook overlapped
          raced      \* webhooks two deliveries to which overlapped

vars == <<hook, streak, request, crowded, raced>>

FirmRole == {"owner", "admin", "member", "viewer"}
Webhook == [active: BOOLEAN, secret: {"first", "rotated"}, failures: 0..MaxFailures]
Idle == [step |-> "idle"]

Init == /\ hook = <<>> /\ streak = [h \in Hooks |-> 0] /\ crowded = FALSE /\ raced = {}
        /\ request = [r \in Requests |-> Idle]

Goes(r, to) == request' = [request EXCEPT ![r] = to]

\* Every endpoint below asks for an owner or an admin of the firm.
RequireAdmin(role) == role \in {"owner", "admin"}

Delivering(h) == {r \in Requests : request[r].step = "deliver" /\ request[r].hook = h}
\* Slip: one more than the maximum.
BeginCreateWebhookInclusive(r) ==
  /\ request[r] = Idle /\ Cardinality(DOMAIN hook) <= MaxWebhooks
  /\ Goes(r, [step |-> "create"])
  /\ crowded' = (crowded \/ \E q \in Requests : request[q].step = "create")
  /\ UNCHANGED <<hook, streak, raced>>
\* POST: the firm's webhooks are counted, and fewer than the maximum ...
BeginCreateWebhook(r) ==
  /\ request[r] = Idle /\ Cardinality(DOMAIN hook) < MaxWebhooks
  /\ Goes(r, [step |-> "create"])
  /\ crowded' = (crowded \/ \E q \in Requests : request[q].step = "create")
  /\ UNCHANGED <<hook, streak, raced>>
\* ... then the row is inserted.
CreateWebhook(r, h) ==
  /\ request[r].step = "create" /\ h \notin DOMAIN hook /\ Delivering(h) = {}
  /\ hook' = [g \in DOMAIN hook \cup {h} |-> IF g = h THEN [active |-> TRUE, secret |-> "first",
                                                        failures |-> 0] ELSE hook[g]]
  /\ streak' = [streak EXCEPT ![h] = 0] /\ raced' = raced \ {h}
  /\ Goes(r, Idle) /\ UNCHANGED crowded
\* PATCH: url and events are checked, the secret cannot be set, nulls are skipped.
UpdateWebhook(h, active) ==
  /\ hook' = [hook EXCEPT ![h].active = active] /\ UNCHANGED <<streak, crowded, raced, request>>
RotateSecret(h) ==
  /\ hook' = [hook EXCEPT ![h].secret = "rotated"] /\ UNCHANGED <<streak, crowded, raced, request>>
\* Deliveries go with it; one in flight finds no row to change and fails.
DeleteWebhook(h) == /\ hook' = [g \in DOMAIN hook \ {h} |-> hook[g]]
                    /\ UNCHANGED <<streak, crowded, raced, request>>

\* POST .../test, the only delivery there is: whether or not the webhook is active,
\* the row is read and the payload, signed with its secret, is sent.
TestWebhook(r, h) ==
  /\ request[r] = Idle
  /\ Goes(r, [step |-> "deliver", hook |-> h, read |-> hook[h].failures])
  /\ raced' = IF Delivering(h) = {} THEN raced ELSE raced \cup {h}
  /\ UNCHANGED <<hook, streak, crowded>>
\* The other side answers 2xx, or something else, or not in time.  The count
\* written is made from the one read.
DeliverWebhook(r, success) ==
  /\ request[r].step = "deliver"
  /\ LET h == request[r].hook
         n == IF success THEN 0 ELSE request[r].read + 1 IN
     /\ n <= MaxFailures
     /\ IF h \in DOMAIN hook
        THEN /\ hook' = [hook EXCEPT ![h].failures = IF n = request[r].read THEN @ ELSE n]
             /\ streak' = [streak EXCEPT ![h] = IF success THEN 0
                                                ELSE IF @ < MaxFailures THEN @ + 1 ELSE @]
        ELSE UNCHANGED <<hook, streak>>
  /\ Goes(r, Idle) /\ UNCHANGED <<crowded, raced>>

------------------------------------------------------------------------------
(* The endpoints *)

PostWebhook(role, r) == RequireAdmin(role) /\ BeginCreateWebhook(r)
PatchWebhook(role, h, active) == RequireAdmin(role) /\ UpdateWebhook(h, active)
Delete(role, h) == RequireAdmin(role) /\ DeleteWebhook(h)
PostRotateSecret(role, h) == RequireAdmin(role) /\ RotateSecret(h)
PostTest(role, r, h) == RequireAdmin(role) /\ TestWebhook(r, h)

Next == \/ \E role \in FirmRole, r \in Requests :
             PostWebhook(role, r) \/ \E h \in DOMAIN hook : PostTest(role, r, h)
        \/ \E role \in FirmRole, h \in DOMAIN hook :
             \/ PostRotateSecret(role, h) \/ Delete(role, h)
             \/ \E active \in BOOLEAN : PatchWebhook(role, h, active)
        \/ \E r \in Requests, h \in Hooks : CreateWebhook(r, h)
        \/ \E r \in Requests, success \in BOOLEAN : DeliverWebhook(r, success)

Spec == Init /\ [][Next]_vars

------------------------------------------------------------------------------
TypeOK == /\ DOMAIN hook \subseteq Hooks /\ \A h \in DOMAIN hook : hook[h] \in Webhook
          /\ streak \in [Hooks -> 0..MaxFailures] /\ crowded \in BOOLEAN /\ raced \subseteq Hooks
          /\ \A r \in Requests : request[r].step \in {"idle", "create", "deliver"}

\* A firm whose creations never overlapped is within its maximum; a webhook whose
\* deliveries never overlapped counts the failures since the last success.
HooksCounted == /\ ~crowded => Cardinality(DOMAIN hook) <= MaxWebhooks
                /\ \A h \in DOMAIN hook \ raced : hook[h].failures = streak[h]
=============================================================================
