------------------------------ MODULE Assistant ------------------------------
(* The AI features a user asks for on a matter (api/v1/ai): letters, task   *)
(* suggestions, anomalies and trust analysis (ai_letter_service.py,         *)
(* ai_suggestion_service.py, ai_anomaly_service.py,                         *)
(* ai_trust_analysis_service.py), within the hourly limits of the firm and  *)
(* the matter (ai_rate_limiter.py), each call booked in ai_usage_logs.      *)
(* The transaction stays open while the language model answers, and whether *)
(* it commits depends on how the call fails.                                *)
EXTENDS Naturals, FiniteSets

CONSTANTS Estates,     \* the firm's matters
          Assets,      \* those with assets
          TrustDocs,   \* those with an extracted trust document
          Requests,    \* requests in flight
          FirmLimit, MatterLimit, \* FIRM_LIMIT_PER_HOUR, MATTER_LIMIT_PER_HOUR
          Hour,        \* _WINDOW_SECONDS, in instants
          Lag,         \* how old a request's clock may be when Redis runs its script
          MaxTime,     \* bound: instants
          MaxCalls,    \* bound: usage rows of a status
          MaxEntered   \* bound: entities of a trust's name entered by hand

AiAssumption == /\ {FirmLimit, MatterLimit, Hour, Lag, MaxCalls, MaxEntered} \subseteq Nat
                /\ MaxTime \in Nat \ {0} /\ IsFiniteSet(Requests)

VARIABLES now,
          firmWindow,   \* Redis: the members of the firm's sorted set
          matterWindow, \* Redis: [Estates -> those of the matter's]
          calls,        \* the calls the script let in: matter and instant
          request,      \* [Requests -> a request in flight, or Idle]
          usage,        \* rows of ai_usage_logs, by status
          trusts,       \* [TrustDocs -> entities of its trust's name that analyses made]
          entered,      \* [TrustDocs -> those entered by hand]
          overlapped    \* matters with two analyses between lookup and commit at once

vars == <<now, firmWindow, matterWindow, calls, request, usage, trusts, entered, overlapped>>
limiter == <<now, firmWindow, matterWindow, calls>>

\* _WRITE_ROLES
WriteRoles == {"matter_admin", "professional", "executor_trustee"}
Operation == {"draft_letter", "suggest_tasks", "detect_anomalies", "trust_analysis"}
Idle == [step |-> "idle"]
\* creates: the analysis has inserted an entity, in its open transaction.
Request == [step: {"checked", "asked"}, of: Estates, op: Operation, creates: BOOLEAN]
AIUsageLog == [success: 0..MaxCalls, error: 0..MaxCalls]

Init == /\ now = 1 /\ firmWindow = {} /\ matterWindow = [m \in Estates |-> {}] /\ calls = {}
        /\ request = [r \in Requests |-> Idle]
        /\ usage = [success |-> 0, error |-> 0]
        /\ trusts = [m \in TrustDocs |-> 0] /\ entered = [m \in TrustDocs |-> 0]
        /\ overlapped = {}

------------------------------------------------------------------------------
(* The limits *)

\* A request reads its own clock and sends it to the script, which may run later
\* and after that of a request with a newer clock.
Clock(at) == at \in 1..now /\ now <= at + Lag
Live(window, at) == {t \in window : t + Hour > at}
Passes(m, at) == /\ Cardinality(Live(firmWindow, at)) < FirmLimit
                 /\ Cardinality(Live(matterWindow[m], at)) < MatterLimit
\* Slip: the firm's window is entered before the matter's is looked at.
CheckFirmThenMatter(m, at) ==
  LET enter == IF Passes(m, at) THEN {at} ELSE {} IN
  /\ firmWindow' = Live(firmWindow, at) \cup
       (IF Cardinality(Live(firmWindow, at)) < FirmLimit THEN {at} ELSE {})
  /\ matterWindow' = [matterWindow EXCEPT ![m] = Live(@, at) \cup enter]
  /\ calls' = calls \cup ({m} \X enter)
\* The script: clean both windows, enter both or neither.
Check(m, at) ==
  LET enter == IF Passes(m, at) THEN {at} ELSE {} IN
  /\ firmWindow' = Live(firmWindow, at) \cup enter
  /\ matterWindow' = [matterWindow EXCEPT ![m] = Live(@, at) \cup enter]
  /\ calls' = calls \cup ({m} \X enter)
\* check_rate_limit: a request goes on when the script lets it, and when Redis
\* cannot be asked; else it is answered 429.
CheckRateLimit(r, m, at, op) ==
  /\ request[r] = Idle /\ Clock(at)
  /\ (Passes(m, at) /\ Check(m, at)) \/ UNCHANGED <<firmWindow, matterWindow, calls>>
  /\ request' = [request EXCEPT ![r] = [step |-> "checked", of |-> m, op |-> op,
                                        creates |-> FALSE]]
  /\ UNCHANGED <<now, usage, trusts, entered, overlapped>>
Refused(r, m, at) ==
  /\ request[r] = Idle /\ Clock(at) /\ ~Passes(m, at) /\ Check(m, at)
  /\ UNCHANGED <<now, request, usage, trusts, entered, overlapped>>
\* get_usage cleans the firm's window too.
GetUsage(at) == /\ Clock(at) /\ firmWindow' = Live(firmWindow, at)
                /\ UNCHANGED <<now, matterWindow, calls, request, usage, trusts, entered,
                               overlapped>>
Tick == /\ now < MaxTime /\ now' = now + 1
        /\ UNCHANGED <<firmWindow, matterWindow, calls, request, usage, trusts, entered,
                       overlapped>>

------------------------------------------------------------------------------
(* What a request does before it asks the model *)

Gather(r, op) == request[r].step = "checked" /\ request[r].op = op
Goes(r, to) == request' = [request EXCEPT ![r] = to] /\ UNCHANGED <<limiter, usage, trusts, entered>>
Ask(r) == Goes(r, [request[r] EXCEPT !.step = "asked"]) /\ UNCHANGED overlapped

\* draft_letter writes of an asset of the matter (looked up before the limits).
DraftLetter(r, m, at) == m \in Assets /\ CheckRateLimit(r, m, at, "draft_letter")
SuggestTasks(r, m, at) == CheckRateLimit(r, m, at, "suggest_tasks")
\* Nothing to compare: an empty answer, though the call has been counted.
DetectAnomalies(r) ==
  /\ Gather(r, "detect_anomalies")
  /\ IF request[r].of \in Assets \cup TrustDocs THEN Ask(r)
     ELSE Goes(r, Idle) /\ UNCHANGED overlapped
Analyses(m) == {r \in Requests : request[r].step = "asked" /\ request[r].op = "trust_analysis"
                                 /\ request[r].of = m}
\* Slip: no look for an entity of the name.
CreateTrustAlways(r) ==
  /\ Gather(r, "trust_analysis")
  /\ Goes(r, [request[r] EXCEPT !.step = "asked", !.creates = TRUE])
  /\ overlapped' = overlapped \cup IF Analyses(request[r].of) = {} THEN {} ELSE {request[r].of}
\* analyze_trust_document creates the trust's entity unless one has its name; with
\* several of the name the lookup fails.
CreateTrust(r) ==
  /\ Gather(r, "trust_analysis")
  /\ LET m == request[r].of IN
     IF trusts[m] + entered[m] > 1 THEN Goes(r, Idle) /\ UNCHANGED overlapped
     ELSE /\ Goes(r, [request[r] EXCEPT !.step = "asked",
                                        !.creates = (trusts[m] + entered[m] = 0)])
          /\ overlapped' = overlapped \cup IF Analyses(m) = {} THEN {} ELSE {m}

\* POST and PATCH of an entity give one the trust's name and ask for no other of
\* it; DELETE and PATCH take one away.
EnterEntity(m) ==
  /\ entered[m] < MaxEntered /\ entered' = [entered EXCEPT ![m] = @ + 1]
  /\ UNCHANGED <<limiter, request, usage, trusts, overlapped>>
DropEntity(m) ==
  /\ \/ /\ entered[m] > 0 /\ entered' = [entered EXCEPT ![m] = @ - 1]
        /\ UNCHANGED trusts
     \/ /\ trusts[m] > 0 /\ trusts' = [trusts EXCEPT ![m] = @ - 1]
        /\ UNCHANGED entered
  /\ UNCHANGED <<limiter, request, usage, overlapped>>

------------------------------------------------------------------------------
(* How a call ends *)

Commit(r) ==
  /\ request[r].step = "asked"
  /\ trusts' = IF request[r].creates THEN [trusts EXCEPT ![request[r].of] = @ + 1] ELSE trusts
  /\ request' = [request EXCEPT ![r] = Idle]
  /\ UNCHANGED <<limiter, entered, overlapped>>
LogAiUsage(status) == /\ usage[status] < MaxCalls
                      /\ usage' = [usage EXCEPT ![status] = @ + 1]
Answer(r) == Commit(r) /\ LogAiUsage("success")
\* The call fails: the handler answers 503 itself, and so the row about the
\* failure is committed, and the entity.
Unavailable(r) == Commit(r) /\ LogAiUsage("error")
\* A letter without one of its parts fails the same way, unlogged.
Unusable(r) == Commit(r) /\ request[r].op = "draft_letter" /\ UNCHANGED usage
\* No tool call in the answer is a ValueError, which becomes NotFoundError: what
\* was logged is rolled back.  So it is when the process ends.
NoToolUse(r) == /\ request[r].step = "asked"
                /\ Goes(r, Idle) /\ UNCHANGED overlapped

\* get_usage_stats
UsageStats ==
  [total_calls |-> usage.success + usage.error, successful_calls |-> usage.success,
   firm_calls_this_hour |-> Cardinality(firmWindow)]

------------------------------------------------------------------------------
(* The endpoints *)

PostDraftLetter(role, r, m, at) == role \in WriteRoles /\ DraftLetter(r, m, at)
PostSuggestTasks(role, r, m, at) == role \in WriteRoles /\ SuggestTasks(r, m, at)
PostDetectAnomalies(role, r, m, at) == role \in WriteRoles /\ CheckRateLimit(r, m, at, "detect_anomalies")
\* The document must be one classified as a trust document.
PostAnalyzeTrust(role, r, m, at) ==
  role \in WriteRoles /\ m \in TrustDocs /\ CheckRateLimit(r, m, at, "trust_analysis")

\* These leave the executor out.
Managers == WriteRoles \ {"executor_trustee"}
PostEntity(role, m) == role \in Managers /\ EnterEntity(m)
DeleteEntity(role, m) == role \in Managers /\ DropEntity(m)
GetUsageStats(role, at) == role \in Managers /\ GetUsage(at)

Next == \/ \E role \in {"professional", "read_only"}, r \in Requests, m \in Estates, at \in 1..now :
             \/ PostDraftLetter(role, r, m, at) \/ PostSuggestTasks(role, r, m, at)
             \/ PostDetectAnomalies(role, r, m, at) \/ PostAnalyzeTrust(role, r, m, at)
        \/ \E r \in Requests :
             \/ (Gather(r, "draft_letter") \/ Gather(r, "suggest_tasks")) /\ Ask(r)
             \/ DetectAnomalies(r) \/ CreateTrust(r)
             \/ Answer(r) \/ Unavailable(r) \/ Unusable(r) \/ NoToolUse(r)
             \/ \E m \in Estates, at \in 1..now : Refused(r, m, at)
        \/ \E role \in {"professional", "read_only"} :
             \/ \E m \in TrustDocs : PostEntity(role, m) \/ DeleteEntity(role, m)
             \/ \E at \in 1..now : GetUsageStats(role, at)
        \/ Tick

Spec == Init /\ [][Next]_vars

------------------------------------------------------------------------------
TypeOK == /\ now \in 1..MaxTime /\ firmWindow \subseteq 1..now
          /\ calls \subseteq Estates \X (1..now)
          /\ matterWindow \in [Estates -> SUBSET (1..now)]
          /\ \A r \in Requests : request[r] = Idle \/ request[r] \in Request
          /\ usage \in AIUsageLog /\ trusts \in [TrustDocs -> 0..Cardinality(Requests)]
          /\ entered \in [TrustDocs -> 0..MaxEntered]
          /\ overlapped \subseteq TrustDocs

Within(instants, limit) ==
  \A from \in 1..now :
    Cardinality({t \in instants : from <= t /\ t + Lag < from + Hour}) <= limit
CallsOf(m) == {t \in 1..now : <<m, t>> \in calls}
\* In whatever order clocks reach Redis, no hour, less what a clock may lag, holds
\* more calls of the firm or of a matter than its limit (calls of one printed
\* instant counting once), and the two windows tell one story: a call of the last
\* hour is in the firm's exactly when it is in a matter's ("preventing asymmetric
\* state on partial failures").
LimitsKept ==
  /\ Within(UNION {CallsOf(m) : m \in Estates}, FirmLimit)
  /\ \A m \in Estates : Within(CallsOf(m), MatterLimit)
  /\ Live(firmWindow, now) = UNION {Live(matterWindow[m], now) : m \in Estates}
\* However often a trust document is analysed, however the calls end and whatever
\* is entered by hand, the analyses make one entity of its trust, provided no two
\* of them overlapped.
OneEntityPerTrust == \A m \in TrustDocs \ overlapped : trusts[m] <= 1
=============================================================================
