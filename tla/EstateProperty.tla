--------------------------- MODULE EstateProperty ---------------------------
(* The property of one matter: assets and their status (asset_service.py), *)
(* the entities that hold them (entity_service.py), distributions          *)
(* (distribution_service.py), and the notices and disputes about them      *)
(* (communication_service.py), which beneficiaries also reach through      *)
(* their portal (portal_service.py).  Nothing is locked between the row a  *)
(* request reads and the row it writes, so each request that decides on    *)
(* what it read is two steps: begun and finished.                          *)
EXTENDS Naturals, Sequences, FiniteSets

CONSTANTS Assets, Entities,
          Stakeholders,  \* stakeholders rows
          RoleOf,        \* [Stakeholders -> StakeholderRole]
          Staff,         \* a firm member without a row, let in as matter admin
          NoAsset,
          MaxDists,      \* bound: distributions on record
          MaxMessages,   \* bound: communications
          MaxPending     \* bound: requests in flight

EstateAssumption == /\ {MaxDists, MaxMessages} \subseteq Nat
                    /\ NoAsset \notin Assets \cup (1..MaxMessages)   \* NULL is no row's id

VARIABLES asset,      \* [Assets -> "none", AssetStatus or "gone"]
          held,       \* entity_assets: [Entities -> SUBSET Assets]; {} also when there is
                      \* no such entity
          dists,      \* distributions: [their ids -> Distribution]
          messages,   \* communications, in the order they were sent
          here,       \* stakeholders rows that exist
          pending,    \* requests that have read and not yet written
          disturbed   \* assets and messages written by overlapping requests

vars == <<asset, held, dists, messages, here, pending, disturbed>>

\* _STATUS_ORDER
StatusOrder == <<"discovered", "valued", "transferred", "distributed">>
Statuses == {StatusOrder[i] : i \in DOMAIN StatusOrder}
Index(s) == CHOOSE i \in DOMAIN StatusOrder : StatusOrder[i] = s
Exists(a) == a \in Assets /\ asset[a] \notin {"none", "gone"}

\* require_stakeholder: the row, or the stand-in of a firm member, whose id is NULL.
Actors == here \cup {Staff}
Role(s) == IF s = Staff THEN "matter_admin" ELSE RoleOf[s]
WriteRoles == {"matter_admin", "professional"}
MayWrite(s) == s \in Actors /\ Role(s) \in WriteRoles

Distribution == [asset: Assets \cup {NoAsset}, to: Stakeholders \cup {Staff}, acked: BOOLEAN]
\* acknowledged_by: the matter's endpoint adds the id of the caller's row, the
\* portal the id of their account.
Mark == {"row", "user"} \X (Stakeholders \cup {Staff})
Message == [type: {"notice", "dispute", "message"}, sender: Stakeholders, acks: SUBSET Mark,
            dispute: {"none", "open", "under_review", "resolved"}]
\* What a request has read (on) and means to write; the fields its kind does not use are blank.
Request == [op: {"patch", "value", "delete", "distribute", "acknowledge", "dispute"},
            on: Assets \cup {NoAsset} \cup (1..MaxMessages), seen: {"none"} \cup Statuses,
            acks: SUBSET Mark, mark: Mark, by: Stakeholders \cup {Staff},
            target: {"none", "open", "under_review", "resolved"} \cup Statuses,
            to: Stakeholders \cup {Staff}]
Blank == [op |-> "patch", on |-> NoAsset, seen |-> "none", acks |-> {}, mark |-> <<"row", Staff>>,
          by |-> Staff, target |-> "none", to |-> Staff]

Init == /\ asset = [a \in Assets |-> "none"]
        /\ held = [e \in Entities |-> {}]
        /\ dists = <<>> /\ messages = <<>>
        /\ here = Stakeholders /\ pending = {} /\ disturbed = {}

\* A request has read its rows and passed its checks.
Begin(r) == /\ Cardinality(pending) < MaxPending /\ r \notin pending
            /\ pending' = pending \cup {r}
            /\ UNCHANGED <<asset, held, dists, messages, here, disturbed>>

\* It writes and commits; requests that read the same row before are overtaken.
Finish(r) ==
  /\ pending' = pending \ {r}
  /\ disturbed' = IF r.on # NoAsset /\ \E o \in pending \ {r} : o.on = r.on
                  THEN disturbed \cup {r.on} ELSE disturbed
\* The row is gone or a foreign key fails: the transaction is rolled back.
Fail == UNCHANGED <<asset, held, dists, messages>>

------------------------------------------------------------------------------
(* Assets: the service, then the endpoints, which check the role *)

CreateAsset(a) ==
  /\ asset[a] = "none"
  /\ asset' = [asset EXCEPT ![a] = "discovered"]
  /\ UNCHANGED <<held, dists, messages, here, pending, disturbed>>

\* update_asset: _validate_status_transition on the status that was read.
BeginUpdate(a, target) ==
  /\ Exists(a) /\ Index(target) > Index(asset[a])
  /\ Begin([Blank EXCEPT !.op = "patch", !.on = a, !.target = target])
FinishUpdate(r) ==
  /\ r.op = "patch" /\ Finish(r)
  /\ IF Exists(r.on)
     THEN asset' = [asset EXCEPT ![r.on] = r.target] /\ UNCHANGED <<held, dists, messages>>
     ELSE Fail
  /\ UNCHANGED here

\* add_valuation, final_appraised: an asset read as discovered becomes valued.
BeginValuation(a) ==
  /\ Exists(a)
  /\ Begin([Blank EXCEPT !.op = "value", !.on = a, !.seen = asset[a]])
FinishValuation(r) ==
  /\ r.op = "value" /\ Finish(r)
  /\ IF Exists(r.on) /\ r.seen = "discovered"
     THEN asset' = [asset EXCEPT ![r.on] = "valued"] /\ UNCHANGED <<held, dists, messages>>
     ELSE Fail
  /\ UNCHANGED here

\* delete_asset: only while discovered.
BeginDelete(a) ==
  /\ Exists(a) /\ asset[a] = "discovered"
  /\ Begin([Blank EXCEPT !.op = "delete", !.on = a])
\* Links go with the row; a distribution is left without its asset.
FinishDelete(r) ==
  /\ r.op = "delete" /\ Finish(r)
  /\ asset' = [asset EXCEPT ![r.on] = "gone"]
  /\ held' = [e \in Entities |-> held[e] \ {r.on}]
  /\ dists' = [i \in DOMAIN dists |-> IF dists[i].asset = r.on
                                      THEN [dists[i] EXCEPT !.asset = NoAsset] ELSE dists[i]]
  /\ UNCHANGED <<messages, here>>

PostAsset(s, a) == MayWrite(s) /\ CreateAsset(a)
PatchAsset(s, a, target) == MayWrite(s) /\ BeginUpdate(a, target)
PostValuation(s, a) == MayWrite(s) /\ BeginValuation(a)
RemoveAsset(s, a) == MayWrite(s) /\ BeginDelete(a)

------------------------------------------------------------------------------
(* Entities *)

\* _validate_asset_ids, _set_asset_links: the links named, which must be assets
\* of the matter, replace all there were.
SetAssetLinks(e, assets) ==
  /\ \A a \in assets : Exists(a)
  /\ held' = [held EXCEPT ![e] = assets]
  /\ UNCHANGED <<asset, dists, messages, here, pending, disturbed>>
CreateEntity(e, assets) == held[e] = {} /\ SetAssetLinks(e, assets)
UpdateEntity(e, assets) == held[e] # {} /\ SetAssetLinks(e, assets)

\* delete_entity leaves the assets.
DeleteEntity(e) ==
  /\ held[e] # {}
  /\ held' = [held EXCEPT ![e] = {}]
  /\ UNCHANGED <<asset, dists, messages, here, pending, disturbed>>

\* get_entity_map
Unassigned == {a \in Assets : Exists(a) /\ \A e \in Entities : a \notin held[e]}

PostEntity(s, e, assets) == MayWrite(s) /\ CreateEntity(e, assets)
PatchEntity(s, e, assets) == MayWrite(s) /\ UpdateEntity(e, assets)
RemoveEntity(s, e) == MayWrite(s) /\ DeleteEntity(e)
\* What the endpoint shows of each entity and of the assets no entity holds.
EntityMap == [funded |-> [e \in Entities |-> Cardinality(held[e])], unassigned |-> Unassigned]

------------------------------------------------------------------------------
(* Distributions *)

BeginDistribution(s, a, to) ==
  /\ DOMAIN dists # 1..MaxDists /\ Len(messages) < MaxMessages
  /\ to \in here /\ RoleOf[to] = "beneficiary"
  /\ a = NoAsset \/ Exists(a)
  /\ Begin([Blank EXCEPT !.op = "distribute", !.on = a, !.by = s, !.to = to,
                         !.seen = IF a = NoAsset THEN "none" ELSE asset[a]])

\* A row of a new id.
FreeId == CHOOSE i \in 1..MaxDists : i \notin DOMAIN dists
Record(d) ==
  dists' = [i \in DOMAIN dists \cup {FreeId} |-> IF i = FreeId THEN d ELSE dists[i]]

\* Slip: an asset that was transferred keeps its status.
FinishDistributionTransferred(r) ==
  /\ r.op = "distribute" /\ Finish(r)
  /\ DOMAIN dists # 1..MaxDists /\ Len(messages) < MaxMessages
  /\ IF r.by \in here /\ r.to \in here /\ (r.on = NoAsset \/ Exists(r.on))
     THEN /\ Record([asset |-> r.on, to |-> r.to, acked |-> FALSE])
          /\ messages' = Append(messages, [type |-> "notice", sender |-> r.by,
                                           acks |-> {}, dispute |-> "none"])
          /\ asset' = IF r.on = NoAsset \/ r.seen \in {"transferred", "distributed"} THEN asset
                      ELSE [asset EXCEPT ![r.on] = "distributed"]
          /\ UNCHANGED held
     ELSE Fail
  /\ UNCHANGED here
\* record_distribution: the distribution, the notice (whose sender may not be
\* NULL, so Staff fails here), and the asset's status unless it read it so.
FinishDistribution(r) ==
  /\ r.op = "distribute" /\ Finish(r)
  /\ DOMAIN dists # 1..MaxDists /\ Len(messages) < MaxMessages
  /\ IF r.by \in here /\ r.to \in here /\ (r.on = NoAsset \/ Exists(r.on))
     THEN /\ Record([asset |-> r.on, to |-> r.to, acked |-> FALSE])
          /\ messages' = Append(messages, [type |-> "notice", sender |-> r.by,
                                           acks |-> {}, dispute |-> "none"])
          /\ asset' = IF r.on = NoAsset \/ r.seen = "distributed" THEN asset
                      ELSE [asset EXCEPT ![r.on] = "distributed"]
          /\ UNCHANGED held
     ELSE Fail
  /\ UNCHANGED here

\* acknowledge_receipt: the beneficiary only; again changes nothing.
AcknowledgeReceipt(s, i) ==
  /\ dists[i].to = s
  /\ dists' = [dists EXCEPT ![i].acked = TRUE]
  /\ UNCHANGED <<asset, held, messages, here, pending, disturbed>>

\* get_distribution_summary: how many a beneficiary has acknowledged, and has not.
Summary(s) ==
  LET Of(b) == Cardinality({i \in DOMAIN dists : dists[i].to = s /\ dists[i].acked = b})
  IN [acknowledged |-> Of(TRUE), pending |-> Of(FALSE)]

PostDistribution(s, a, to) == MayWrite(s) /\ BeginDistribution(s, a, to)
PostReceipt(s, i) == s \in Actors /\ AcknowledgeReceipt(s, i)
\* The endpoint shows the summary to every stakeholder, for each beneficiary.
GetSummary == [b \in here |-> Summary(b)]

------------------------------------------------------------------------------
(* Notices and disputes *)

\* The sender may not be NULL, so that Staff can send nothing.
Send(s, type, dispute) ==
  /\ s \in here /\ Len(messages) < MaxMessages
  /\ messages' = Append(messages, [type |-> type, sender |-> s, acks |-> {},
                                   dispute |-> dispute])
  /\ UNCHANGED <<asset, held, dists, here, pending, disturbed>>
\* Of any type; only a flagged dispute starts with a status.
CreateCommunication(s, type) == Send(s, type, "none")
CreateDisputeFlag(s) == Send(s, "dispute", "open")

\* acknowledge_communication reads the list of those who acknowledged ...
BeginAcknowledge(s, i, how) ==
  /\ messages[i].type = "notice" /\ <<how, s>> \notin messages[i].acks
  /\ Begin([Blank EXCEPT !.op = "acknowledge", !.on = i, !.mark = <<how, s>>,
                         !.acks = messages[i].acks])
\* Slip: the list written holds the last one only.
FinishAcknowledgeReplace(r) ==
  /\ r.op = "acknowledge" /\ Finish(r)
  /\ messages' = [messages EXCEPT ![r.on].acks = {r.mark}]
  /\ UNCHANGED <<asset, held, dists, here>>
\* ... and writes it back with one more.
FinishAcknowledge(r) ==
  /\ r.op = "acknowledge" /\ Finish(r)
  /\ messages' = [messages EXCEPT ![r.on].acks = r.acks \cup {r.mark}]
  /\ UNCHANGED <<asset, held, dists, here>>

\* _VALID_DISPUTE_TRANSITIONS; a dispute without a status counts as open.
Moves == {<<"open", "under_review">>, <<"open", "resolved">>,
          <<"under_review", "resolved">>, <<"under_review", "open">>}
\* update_dispute_status
BeginDispute(i, target) ==
  LET current == IF messages[i].dispute = "none" THEN "open" ELSE messages[i].dispute IN
  /\ messages[i].type = "dispute"
  /\ <<current, target>> \in Moves
  /\ Begin([Blank EXCEPT !.op = "dispute", !.on = i, !.target = target])
FinishDispute(r) ==
  /\ r.op = "dispute" /\ Finish(r)
  /\ messages' = [messages EXCEPT ![r.on].dispute = r.target]
  /\ UNCHANGED <<asset, held, dists, here>>

PostCommunication(s, type) == s \in Actors /\ CreateCommunication(s, type)
PostAcknowledgement(s, i) == s \in Actors /\ BeginAcknowledge(s, i, "row")
PostDisputeFlag(s) == s \in Actors /\ CreateDisputeFlag(s)
PutDispute(s, i, target) ==
  s \in Actors /\ Role(s) = "matter_admin" /\ BeginDispute(i, target)
\* list_active_disputes: a dispute never flagged, without a status, is not listed.
ActiveDisputes == {i \in DOMAIN messages : /\ messages[i].type = "dispute"
                                           /\ messages[i].dispute \in {"open", "under_review"}}

(* The portal *)

\* _get_beneficiary_stakeholder: the caller's row, which must be a beneficiary's.
Beneficiary(s) == s \in here /\ RoleOf[s] = "beneficiary"
PostBeneficiaryMessage(s) == Send(s, "message", "none")
AcknowledgeDistributionNotice(s, i) == BeginAcknowledge(s, i, "user")
\* get_portal_overview: the notices, and those the caller's account has not
\* acknowledged.
PortalOverview(s) ==
  LET notices == {i \in DOMAIN messages : messages[i].type = "notice"}
  IN [notices |-> Cardinality(notices),
      pending |-> Cardinality({i \in notices : <<"user", s>> \notin messages[i].acks})]

PostPortalMessage(s) == Beneficiary(s) /\ PostBeneficiaryMessage(s)
AcknowledgeNotice(s, i) == Beneficiary(s) /\ AcknowledgeDistributionNotice(s, i)

\* A beneficiary is removed from the matter, and the distributions to them with
\* it; somebody who sent a message cannot be (its sender may not be NULL).
RemoveBeneficiary(s, t) ==
  /\ s \in Actors /\ Role(s) = "matter_admin"
  /\ t \in here /\ RoleOf[t] = "beneficiary"
  /\ \A i \in DOMAIN messages : messages[i].sender # t
  /\ here' = here \ {t}
  /\ dists' = [i \in {j \in DOMAIN dists : dists[j].to # t} |-> dists[i]]
  /\ UNCHANGED <<asset, held, messages, pending, disturbed>>

Next ==
  \/ \E s \in Actors, a \in Assets :
       \/ PostAsset(s, a) \/ PostValuation(s, a) \/ RemoveAsset(s, a)
       \/ \E target \in {"valued", "transferred", "distributed"} : PatchAsset(s, a, target)
  \/ \E s \in Actors, e \in Entities :
       \/ \E assets \in SUBSET Assets : PostEntity(s, e, assets) \/ PatchEntity(s, e, assets)
       \/ RemoveEntity(s, e)
  \/ \E s, t \in Actors :
       \/ \E a \in Assets \cup {NoAsset} : PostDistribution(s, a, t)
       \/ RemoveBeneficiary(s, t)
  \/ \E s \in Actors :
       \/ \E i \in DOMAIN dists : PostReceipt(s, i)
       \/ \E type \in {"notice", "dispute"} : PostCommunication(s, type)
       \/ PostDisputeFlag(s) \/ PostPortalMessage(s)
       \/ \E i \in DOMAIN messages :
            \/ PostAcknowledgement(s, i) \/ AcknowledgeNotice(s, i)
            \/ \E target \in {"open", "under_review", "resolved"} : PutDispute(s, i, target)
  \/ \E r \in pending :
       \/ FinishUpdate(r)       \/ FinishValuation(r)   \/ FinishDelete(r)
       \/ FinishDistribution(r) \/ FinishAcknowledge(r) \/ FinishDispute(r)

Spec == Init /\ [][Next]_vars

------------------------------------------------------------------------------
TypeOK ==
  /\ asset \in [Assets -> {"none", "gone"} \cup Statuses]
  /\ held \in [Entities -> SUBSET Assets]
  /\ DOMAIN dists \subseteq 1..MaxDists /\ \A i \in DOMAIN dists : dists[i] \in Distribution
  /\ Len(messages) <= MaxMessages /\ \A i \in DOMAIN messages : messages[i] \in Message
  /\ here \subseteq Stakeholders /\ pending \subseteq Request
  /\ disturbed \subseteq Assets \cup (1..MaxMessages)

\* The books agree with the inventory: what was distributed stands in the
\* inventory as distributed, an entity holds no asset that is gone, and an
\* asset is unassigned or held, whichever handlers ran in which order, unless
\* requests on that asset overlapped.
BooksAgree ==
  /\ \A i \in DOMAIN dists :
       dists[i].asset \in Assets \ disturbed => asset[dists[i].asset] = "distributed"
  /\ \A a \in Assets : Exists(a) <=> \/ a \in EntityMap.unassigned
                                     \/ \E e \in Entities : a \in held[e]

\* What was recorded is not taken back, unless requests on it overlapped: an
\* asset's status never moves back and only a discovered asset is deleted,
\* nobody's acknowledgement is dropped, the portal does not ask again for one
\* it was given, a resolved dispute stays resolved.
TakesNothingBack ==
  /\ \A a \in Assets \ disturbed' :
       Exists(a) => \/ asset'[a] = "gone" /\ asset[a] = "discovered"
                    \/ asset'[a] # "gone" /\ Index(asset'[a]) >= Index(asset[a])
  /\ \A i \in (DOMAIN messages) \ disturbed' :
       /\ messages[i].acks \subseteq messages'[i].acks
       /\ messages[i].dispute = "resolved" =>
            messages'[i].dispute = "resolved" /\ i \notin ActiveDisputes'
  /\ \A s \in here \cap here' :
       /\ GetSummary'[s].acknowledged >= GetSummary[s].acknowledged
       /\ disturbed' = {} /\ PortalOverview(s)'.notices = PortalOverview(s).notices =>
            PortalOverview(s)'.pending <= PortalOverview(s).pending
NothingTakenBack == [][TakesNothingBack]_vars
=============================================================================
