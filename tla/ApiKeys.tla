------------------------------- MODULE ApiKeys -------------------------------
(* API keys (api_key_service.py, api/v1/developer), the requests they       *)
(* authenticate (api_key_auth.py), and the sliding window in Redis that     *)
(* limits those (api_key_rate_limiter.py).                                  *)
EXTENDS Naturals, FiniteSets

CONSTANTS Keys,       \* api_keys ids
          Requests,   \* requests in flight
          Limit,      \* rate_limit_per_minute
          Window,     \* _WINDOW_SECONDS, in instants
          Lag,        \* how old a request's clock may be when Redis runs its script
          MaxSecrets, \* bound: raw keys generated
          MaxTime     \* bound: instants

\* Limits and spans are numbers, and there is a first instant.
ApiAssumption == /\ {Limit, Window, Lag} \subseteq Nat
                 /\ MaxSecrets \in Nat /\ MaxTime \in Nat \ {0}

VARIABLES key,      \* api_keys: a function on the ids of the rows there are
          secrets,  \* raw keys generated so far
          retired,  \* raw keys replaced, revoked or deleted
          window,   \* Redis: [Keys -> the members of the key's sorted set]
          admitted, \* [Keys -> the instants at which Redis let a request of it in]
          now,
          request   \* [Requests -> a request in flight, or Idle]

vars == <<key, secrets, retired, window, admitted, now, request>>

FirmRole == {"owner", "admin", "member", "viewer"}
\* hash: the raw key whose hash the row holds.
APIKey == [hash: 1..MaxSecrets, active: BOOLEAN, expired: BOOLEAN]
Idle == [step |-> "idle"]

Init == /\ key = <<>> /\ secrets = 0 /\ retired = {} /\ now = 1
        /\ window = [k \in Keys |-> {}] /\ admitted = [k \in Keys |-> {}]
        /\ request = [r \in Requests |-> Idle]

Goes(r, to) == request' = [request EXCEPT ![r] = to]

\* Every endpoint below asks for an owner or an admin of the firm.
RequireAdmin(role) == role \in {"owner", "admin"}

GenerateRawKey == secrets < MaxSecrets /\ secrets' = secrets + 1

\* POST: enterprise firms only, checked here and never again.  (An id that is
\* used again stands for a new one.)
CreateApiKey(k, tier) ==
  /\ k \notin DOMAIN key /\ tier = "enterprise"
  /\ \A r \in Requests : request[r].step = "limit" => request[r].key # k
  /\ GenerateRawKey
  /\ key' = [j \in DOMAIN key \cup {k} |-> IF j = k THEN [hash |-> secrets', active |-> TRUE,
                                                     expired |-> FALSE] ELSE key[j]]
  /\ window' = [window EXCEPT ![k] = {}] /\ admitted' = [admitted EXCEPT ![k] = {}]
  /\ UNCHANGED <<retired, now, request>>
\* POST .../revoke: nothing activates a key again.
RevokeApiKey(k) ==
  /\ key' = [key EXCEPT ![k].active = FALSE]
  /\ retired' = retired \cup {key[k].hash}
  /\ UNCHANGED <<secrets, window, admitted, now, request>>
\* Slip: a regenerated key is active.
RegenerateApiKeyActive(k) ==
  /\ GenerateRawKey
  /\ key' = [key EXCEPT ![k].hash = secrets', ![k].active = TRUE]
  /\ retired' = retired \cup {key[k].hash} \cup (IF key[k].active THEN {} ELSE {secrets'})
  /\ UNCHANGED <<window, admitted, now, request>>
\* POST .../regenerate: also of a revoked key, which stays revoked.
RegenerateApiKey(k) ==
  /\ GenerateRawKey
  /\ key' = [key EXCEPT ![k].hash = secrets']
  /\ retired' = retired \cup {key[k].hash} \cup (IF key[k].active THEN {} ELSE {secrets'})
  /\ UNCHANGED <<window, admitted, now, request>>
DeleteApiKey(k) ==
  /\ key' = [j \in DOMAIN key \ {k} |-> key[j]]
  /\ retired' = retired \cup {key[k].hash}
  /\ UNCHANGED <<secrets, window, admitted, now, request>>
\* expires_at passes.
Expire(k) == /\ ~key[k].expired /\ key' = [key EXCEPT ![k].expired = TRUE]
             /\ UNCHANGED <<secrets, retired, window, admitted, now, request>>

\* authenticate_api_key: the row with the hash, active and not expired.  (The
\* count of its requests is one UPDATE and left out.)
Authenticate(r, secret) ==
  request[r] = Idle /\ \E k \in DOMAIN key :
    /\ key[k].hash = secret /\ key[k].active /\ ~key[k].expired
    /\ Goes(r, [step |-> "limit", key |-> k, secret |-> secret, dead |-> retired])
    /\ UNCHANGED <<key, secrets, retired, window, admitted, now>>

\* A request reads its own clock and sends it to the script, which may run later
\* and after that of a request with a newer clock.
Clock(at) == at \in 1..now /\ now <= at + Lag
\* The script in Redis: drop what has left the window of that clock, refuse when
\* it is full, enter the clock's instant (which may be there).
Live(k, at) == {t \in window[k] : t + Window > at}
CheckRateLimit(k, at) ==
  /\ Cardinality(Live(k, at)) < Limit
  /\ window' = [window EXCEPT ![k] = Live(k, at) \cup {at}]
  /\ admitted' = [admitted EXCEPT ![k] = @ \cup {at}]
\* A full window refuses, and has been cleaned.
RateLimited(r, at) ==
  /\ request[r].step = "limit" /\ Clock(at)
  /\ LET k == request[r].key IN
     /\ Cardinality(Live(k, at)) >= Limit
     /\ window' = [window EXCEPT ![k] = Live(k, at)]
  /\ Goes(r, Idle) /\ UNCHANGED <<key, secrets, retired, admitted, now>>
\* require_api_key goes through; when Redis cannot be asked, too.
RequireApiKey(r, at) ==
  /\ request[r].step = "limit" /\ Clock(at)
  /\ CheckRateLimit(request[r].key, at) \/ UNCHANGED <<window, admitted>>
  /\ Goes(r, [request[r] EXCEPT !.step = "admitted"])
  /\ UNCHANGED <<key, secrets, retired, now>>

Tick == /\ now < MaxTime /\ now' = now + 1
        /\ UNCHANGED <<key, secrets, retired, window, admitted, request>>
Respond(r) == /\ request[r].step = "admitted" /\ Goes(r, Idle)
              /\ UNCHANGED <<key, secrets, retired, window, admitted, now>>

------------------------------------------------------------------------------
(* The endpoints *)

PostApiKey(role, k, tier) == RequireAdmin(role) /\ CreateApiKey(k, tier)
PostRevoke(role, k) == RequireAdmin(role) /\ RevokeApiKey(k)
PostRegenerate(role, k) == RequireAdmin(role) /\ RegenerateApiKey(k)
Delete(role, k) == RequireAdmin(role) /\ DeleteApiKey(k)

Next == \/ \E role \in FirmRole :
             \/ \E k \in Keys, tier \in {"professional", "enterprise"} : PostApiKey(role, k, tier)
             \/ \E k \in DOMAIN key :
                  PostRevoke(role, k) \/ PostRegenerate(role, k) \/ Delete(role, k)
        \/ \E r \in Requests : \/ \E secret \in 1..secrets : Authenticate(r, secret)
                               \/ Respond(r)
                               \/ \E at \in 1..now : RateLimited(r, at) \/ RequireApiKey(r, at)
        \/ Tick \/ \E k \in DOMAIN key : Expire(k)

Spec == Init /\ [][Next]_vars

------------------------------------------------------------------------------
TypeOK == /\ DOMAIN key \subseteq Keys /\ \A k \in DOMAIN key : key[k] \in APIKey
          /\ secrets \in 0..MaxSecrets /\ retired \subseteq 1..secrets /\ now \in 1..MaxTime
          /\ window \in [Keys -> SUBSET (1..MaxTime)] /\ admitted \in [Keys -> SUBSET (1..MaxTime)]
          /\ \A r \in Requests : request[r].step \in {"idle", "limit", "admitted"}

\* A raw key that was replaced, revoked or deleted before a request began opens
\* nothing to it, whatever happened to its row since ("old key becomes invalid
\* immediately").
DeadKeysRefused ==
  \A r \in Requests : request[r].step = "admitted" => request[r].secret \notin request[r].dead
\* However requests and the cleaning of the window interleave, and in whatever
\* order clocks reach Redis, no stretch of a window's length, less what a clock
\* may lag, lets in more instants of one key than its limit.
WindowKept ==
  \A k \in Keys, from \in 1..now :
    Cardinality({t \in admitted[k] : from <= t /\ t + Lag < from + Window}) <= Limit
==============================================================================
