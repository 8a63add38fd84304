---------------------------- MODULE Integrations ----------------------------
(* A firm's connection to one provider and one resource it synchronises    *)
(* (clio_sync_service, quickbooks_sync_service, the OAuth part of           *)
(* docusign_service, api/v1/integrations): the OAuth flow, token refresh,   *)
(* disconnection, and synchronisation, which creates at the provider what   *)
(* the row's entity_map does not list yet.                                  *)
(* Every request reads the row, talks to the provider with its transaction  *)
(* open, and then writes the columns that differ from what it read.         *)
EXTENDS Naturals, FiniteSets

CONSTANTS Items,      \* local rows of one resource (matters, time entries, ...)
          Calls,      \* requests in flight
          MaxStates,  \* bound: OAuth states generated
          MaxCopies   \* bound: copies of an item created at the provider

\* Staled(0, ...) is said of a request that does not stay in flight.
SyncAssumption == MaxStates \in Nat /\ MaxCopies \in Nat /\ 0 \notin Calls

VARIABLES conn,      \* the integration_connections row
          call,      \* [Calls -> a request in flight, or Idle]
          items,     \* local rows that exist
          copies,    \* external: [Items -> how many the provider has]
          states,    \* OAuth states generated so far
          used,      \* [1..MaxStates -> how often it led to a connection]
          lapses,    \* what left status and tokens apart: see CompleteOauth, EnsureValidToken
          disturbed  \* a request wrote from a row another had changed meanwhile

vars == <<conn, call, items, copies, states, used, lapses, disturbed>>

\* IntegrationStatus
Status == {"disconnected", "pending", "connected", "error"}
\* tokens: access_token and refresh_token are set; expired: token_expires_at has
\* passed; state: settings.oauth_state (0: none); section: entity_map has a
\* section for the resource, map: what it lists.
Connection == [status: Status, tokens: BOOLEAN, expired: BOOLEAN, state: 0..MaxStates,
               section: BOOLEAN, map: SUBSET Items]
Idle == [step |-> "idle"]
\* read: the row as the request read it; known: its copy of the map; tokens: what
\* a refresh got, if it made one; fresh: nobody wrote the row since.
Request == [step: {"callback", "refresh", "sync", "disconnect", "settings"}, read: Connection,
            known: SUBSET Items, tokens: {"kept", "new", "none"}, fresh: BOOLEAN]

\* The row exists: initiate_oauth on a firm without one unpacks the settings of an
\* object not yet in the database, None, and fails.
Init == /\ conn = [status |-> "disconnected", tokens |-> FALSE, expired |-> FALSE,
                   state |-> 0, section |-> FALSE, map |-> {}]
        /\ call = [c \in Calls |-> Idle]
        /\ items = {} /\ copies = [i \in Items |-> 0]
        /\ states = 0 /\ used = [s \in 1..MaxStates |-> 0] /\ lapses = {}
        /\ disturbed = FALSE

\* GET: the row, or null.
GetConnection == conn

\* A request has read the row.
Begin(c, step) ==
  /\ call[c] = Idle
  /\ call' = [call EXCEPT ![c] = [step |-> step, read |-> conn, known |-> conn.map,
                                  tokens |-> "kept", fresh |-> TRUE]]
  /\ UNCHANGED <<conn, items, copies, states, used, lapses, disturbed>>

\* It writes the columns that differ from what it read, and those it was given
\* new values for whatever it read (always).
Write(c, new, always) ==
  /\ conn' = [k \in DOMAIN conn |->
                IF k \in always \/ new[k] # call[c].read[k] THEN new[k] ELSE conn[k]]
  /\ disturbed' = (disturbed \/ ~call[c].fresh)
Tokens == {"tokens", "expired"}
\* The requests in flight other than c now hold an old row.
Staled(c, calls) == [d \in Calls |-> IF d # c /\ calls[d] # Idle
                                     THEN [calls[d] EXCEPT !.fresh = FALSE] ELSE calls[d]]
Finish(c, new, always) ==
  /\ Write(c, new, always) /\ call' = Staled(c, [call EXCEPT ![c] = Idle])
  /\ UNCHANGED <<items, copies, states>>

------------------------------------------------------------------------------
(* OAuth *)

\* initiate_oauth: a new state; refused while connected.
InitiateOauth ==
  /\ conn.status # "connected" /\ states < MaxStates
  /\ states' = states + 1
  /\ conn' = [conn EXCEPT !.status = "pending", !.state = states + 1]
  /\ call' = Staled(0, call)
  /\ UNCHANGED <<items, copies, used, lapses, disturbed>>
\* POST .../connect: owners and admins.
RequireAdmin(role) == role \in {"owner", "admin"}
Connect(role) == RequireAdmin(role) /\ InitiateOauth

\* The browser returns with a state: a row must hold it.
Callback(c, s) == s # 0 /\ conn.state = s /\ Begin(c, "callback")

\* complete_oauth takes the state away, exchanges the code, and asks for the
\* account: "connected" when it answers, "error" when an HTTP error does.  Any
\* other exception ("raised") is swallowed by the handler, whose redirect commits
\* the tokens under the old status.  The exchange may leave a token out.
CompleteOauth(c, answer, given) ==
  /\ call[c].step = "callback"
  /\ LET read == call[c].read IN
     /\ Finish(c, [read EXCEPT !.state = 0, !.tokens = given, !.expired = FALSE,
                               !.status = IF answer = "raised" THEN @ ELSE answer], Tokens)
     /\ used' = [used EXCEPT ![read.state] = IF @ < 2 THEN @ + 1 ELSE @]
  /\ lapses' = {l \in {"swallowed", "tokenless"} :
                  IF l = "swallowed" THEN answer = "raised" ELSE ~given}
\* The exchange fails: the handler answers with a redirect, so what was
\* flushed, the state's removal, is committed.
ExchangeFails(c) ==
  /\ call[c].step = "callback"
  /\ Finish(c, [call[c].read EXCEPT !.state = 0], {})
  /\ UNCHANGED <<used, lapses>>

\* POST .../disconnect: the provider is told (Clio), then the row is cleared.
BeginDisconnect(c, role) == RequireAdmin(role) /\ Begin(c, "disconnect")
\* Slip: the tokens stay.
DisconnectStatusOnly(c) ==
  /\ call[c].step = "disconnect"
  /\ Finish(c, [call[c].read EXCEPT !.status = "disconnected"], {})
  /\ lapses' = {} /\ UNCHANGED used
Disconnect(c) ==
  /\ call[c].step = "disconnect"
  /\ Finish(c, [call[c].read EXCEPT !.status = "disconnected", !.tokens = FALSE,
                                    !.expired = FALSE], {})
  /\ lapses' = {} /\ UNCHANGED used

\* PATCH .../settings writes the settings it read, the OAuth state among them.
UpdateSettings(c) ==
  /\ call[c].step = "settings"
  /\ Finish(c, call[c].read, {"state"})
  /\ UNCHANGED <<used, lapses>>
BeginSettings(c, role) == RequireAdmin(role) /\ Begin(c, "settings")

------------------------------------------------------------------------------
(* Synchronisation *)

\* POST .../sync: a connection without tokens is refused; an expired token is
\* refreshed first.
BeginSync(c, role) ==
  /\ RequireAdmin(role) /\ conn.tokens
  /\ Begin(c, IF conn.expired THEN "refresh" ELSE "sync")
\* _ensure_valid_token: the new tokens are flushed, which commits with the rest,
\* whether or not the answer holds an access token.
EnsureValidToken(c) ==
  /\ call[c].step = "refresh"
  /\ \E tokens \in {"new", "none"} :
       call' = [call EXCEPT ![c] = [@ EXCEPT !.step = "sync", !.tokens = tokens]]
  /\ UNCHANGED <<conn, items, copies, states, used, lapses, disturbed>>

\* Slip: the map is not looked at.
PushRegardless(c, i) ==
  /\ call[c].step = "sync" /\ call[c].tokens # "none"
  /\ i \in items /\ copies[i] < MaxCopies
  /\ copies' = [copies EXCEPT ![i] = @ + 1]
  /\ \/ call' = [call EXCEPT ![c] = [call[c] EXCEPT !.known = @ \cup {i}]]
     \/ call' = call
  /\ UNCHANGED <<conn, items, states, used, lapses, disturbed>>
\* An item its map does not list is created at the provider and listed; an
\* answer without an id leaves it out.
Push(c, i) ==
  /\ call[c].step = "sync" /\ call[c].tokens # "none"
  /\ i \in items \ call[c].known /\ copies[i] < MaxCopies
  /\ copies' = [copies EXCEPT ![i] = @ + 1]
  /\ \/ call' = [call EXCEPT ![c] = [call[c] EXCEPT !.known = @ \cup {i}]]
     \/ call' = call
  /\ UNCHANGED <<conn, items, states, used, lapses, disturbed>>

\* The map is written back.  Where the row had the section, the copy was that
\* section itself, changed in place, and the ORM sees no difference: only the
\* first map of a resource is ever saved.
Sync(c) ==
  LET k == call[c]
      saved == IF k.read.section THEN k.read ELSE [k.read EXCEPT !.section = TRUE, !.map = k.known]
  IN /\ k.step = "sync"
     /\ IF k.tokens = "kept"
        THEN /\ Finish(c, saved, IF k.read.section THEN {} ELSE {"section", "map"})
             /\ UNCHANGED lapses
        ELSE /\ Finish(c, [saved EXCEPT !.tokens = k.tokens = "new", !.expired = FALSE],
                       Tokens \cup IF k.read.section THEN {} ELSE {"section", "map"})
             /\ lapses' = IF k.tokens = "new" THEN lapses \ {"tokenless"}
                          ELSE lapses \cup {"tokenless"}
     /\ UNCHANGED used

\* The process dies, the refresh fails or the commit does.
Abandon(c) ==
  /\ call[c] # Idle
  /\ call' = [call EXCEPT ![c] = Idle]
  /\ UNCHANGED <<conn, items, copies, states, used, lapses, disturbed>>

\* Time passes; rows are inserted.
Expire == /\ conn.tokens /\ ~conn.expired
          /\ conn' = [conn EXCEPT !.expired = TRUE]
          /\ UNCHANGED <<call, items, copies, states, used, lapses, disturbed>>
Insert(i) == /\ i \notin items /\ items' = items \cup {i}
             /\ UNCHANGED <<conn, call, copies, states, used, lapses, disturbed>>
Next ==
  \/ \E role \in {"admin", "member"} :
       \/ Connect(role)
       \/ \E c \in Calls : BeginDisconnect(c, role) \/ BeginSettings(c, role) \/ BeginSync(c, role)
  \/ \E c \in Calls :
       \/ \E s \in 1..MaxStates : Callback(c, s)
       \/ \E answer \in {"connected", "error", "raised"}, given \in BOOLEAN :
            CompleteOauth(c, answer, given)
       \/ ExchangeFails(c) \/ Disconnect(c) \/ UpdateSettings(c)
       \/ EnsureValidToken(c) \/ Sync(c) \/ Abandon(c)
       \/ \E i \in Items : Push(c, i)
  \/ Expire \/ \E i \in Items : Insert(i)

Spec == Init /\ [][Next]_vars

------------------------------------------------------------------------------
TypeOK ==
  /\ conn \in Connection /\ \A c \in Calls : call[c] = Idle \/ call[c] \in Request
  /\ items \subseteq Items /\ copies \in [Items -> 0..MaxCopies]
  /\ states \in 0..MaxStates /\ used \in [1..MaxStates -> 0..2]
  /\ lapses \subseteq {"swallowed", "tokenless"} /\ disturbed \in BOOLEAN

\* Whatever requests die, fail or expire in between, as long as none of them
\* writes from a row another has changed: a disconnected firm has no tokens, but
\* those an OAuth callback kept when it swallowed an error; a connected one has
\* them, unless the provider's last answer left one out; no OAuth state leads to
\* two connections, and the map lists only what the provider has.
ConnectionHonest ==
  ~disturbed => /\ conn.status = "disconnected" /\ conn.tokens => "swallowed" \in lapses
                /\ conn.status = "connected" /\ ~conn.tokens => "tokenless" \in lapses
                /\ \A s \in 1..MaxStates : used[s] <= 1
                /\ \A i \in conn.map : copies[i] > 0

\* What the map lists is never created at the provider again, but by a
\* request that read the row before it was listed.
PushedOnce ==
  [][\A i \in conn.map : copies'[i] # copies[i] =>
       \E c \in Calls : call[c].step = "sync" /\ ~call[c].fresh]_vars
=============================================================================
