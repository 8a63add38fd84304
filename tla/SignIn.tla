------------------------------- MODULE SignIn -------------------------------
(* First logins and enterprise single sign-on (core/security.py,            *)
(* sso_service.py, api/v1/sso): the firm's SSO configuration, the           *)
(* connection it stands for at Auth0, which is made and deleted while the   *)
(* transaction is open, and accounts that log in for the first time, through *)
(* the connection or not.                                                   *)
EXTENDS Naturals, FiniteSets

CONSTANTS Accounts,   \* accounts at Auth0
          Domains,    \* e-mail domains
          DomainOf,   \* [Accounts -> e-mail domain]
          MaxPending  \* bound: requests in flight

VARIABLES config,   \* the firm's sso_configs row, or None
          auth0,    \* external: the connection of the firm's name exists at Auth0
          users,    \* accounts with a users row
          members,  \* accounts provisioned into the firm
          pending,  \* requests that have read and not yet written
          exempt    \* enabled by PATCH, or a deletion rolled back

vars == <<config, auth0, users, members, pending, exempt>>

FirmRole == {"owner", "admin", "member"}
\* connected: auth0_connection_id and _name are set.
SSOConfig == [connected: BOOLEAN, enabled: BOOLEAN, enforce: BOOLEAN, auto: BOOLEAN,
              allowed: SUBSET Domains]
None == [connected |-> FALSE]
Exists == config # None

Init == /\ config = None /\ auth0 = FALSE /\ users = {} /\ members = {}
        /\ pending = {} /\ exempt = FALSE

Begin(p) == /\ Cardinality(pending) < MaxPending /\ p \notin pending
            /\ pending' = pending \cup {p}
Drop(p) == pending' = pending \ {p}
\* The row is deleted: requests that have read it cannot write it any more.
Orphaned(ps) == {IF p.op \in {"delete", "login"} THEN [p EXCEPT !.gone = TRUE] ELSE p : p \in ps}

------------------------------------------------------------------------------
(* The configuration: owners only *)

RequireOwner(role) == role = "owner"

\* create_sso_config: enterprise firms without one.  Auth0 makes the connection, or
\* refuses (its name is taken) or does not answer, and the row goes without.
CreateSsoConfig(tier, created, enforce, auto, allowed) ==
  /\ tier = "enterprise" /\ ~Exists
  /\ created => ~auth0
  /\ auth0' = (auth0 \/ created)
  /\ Begin([op |-> "create", row |-> [connected |-> created, enabled |-> FALSE,
             enforce |-> enforce, auto |-> auto, allowed |-> allowed]])
  /\ UNCHANGED <<config, users, members, exempt>>
InsertSsoConfig(p) ==
  /\ p.op = "create" /\ Drop(p)
  /\ config' = IF Exists THEN config ELSE p.row   \* unique firm_id
  /\ UNCHANGED <<auth0, users, members, exempt>>
\* PATCH sets what it is given, enabled among it, whether or not there is a connection.
UpdateSsoConfig(enabled, enforce, auto, allowed) ==
  /\ Exists
  /\ config' = [config EXCEPT !.enabled = enabled, !.enforce = enforce, !.auto = auto,
                              !.allowed = allowed]
  /\ exempt' = (exempt \/ (enabled /\ ~config.connected))
  /\ UNCHANGED <<auth0, users, members, pending>>
\* Slip: the connection is not asked for.
EnableSsoUnconnected ==
  /\ Exists
  /\ config' = [config EXCEPT !.enabled = TRUE]
  /\ UNCHANGED <<auth0, users, members, pending, exempt>>
EnableSso ==
  /\ Exists /\ config.connected
  /\ config' = [config EXCEPT !.enabled = TRUE]
  /\ UNCHANGED <<auth0, users, members, pending, exempt>>
DisableSso ==
  /\ Exists
  /\ config' = [config EXCEPT !.enabled = FALSE, !.enforce = FALSE]
  /\ UNCHANGED <<auth0, users, members, pending, exempt>>
\* delete_sso_config: the connection goes first (or Auth0 does not answer) ...
DeleteConnection(answers) ==
  /\ Exists
  /\ auth0' = (auth0 /\ ~(config.connected /\ answers))
  /\ Begin([op |-> "delete", gone |-> FALSE])
  /\ UNCHANGED <<config, users, members, exempt>>
\* ... then the row.
DeleteSsoConfig(p) ==
  /\ p.op = "delete" /\ ~p.gone
  /\ config' = None /\ exempt' = FALSE
  /\ pending' = Orphaned(pending \ {p})
  /\ UNCHANGED <<auth0, users, members>>
\* Any request may fail before its commit, a deletion of a row that has gone must.
Fail(p) == /\ Drop(p)
           /\ exempt' = (exempt \/ (p.op = "delete" /\ ~p.gone))
           /\ UNCHANGED <<config, auth0, users, members>>

\* The login page asks for the login URL, and whether a domain must use it.
LoginUrl == Exists /\ config.enabled /\ config.connected
Enforcement(domain) == Exists /\ config.enabled /\ config.enforce /\ domain \in config.allowed

------------------------------------------------------------------------------
(* First logins *)

\* get_current_user finds no user.  Through the connection, auto_provision_sso_user
\* looks for a configuration with its name, whether or not it is enabled.
BeginLogin(a, sso) ==
  /\ a \notin users /\ (sso => auth0)
  /\ LET admitted == /\ sso /\ Exists /\ config.connected /\ config.auto
                     /\ config.allowed = {} \/ DomainOf[a] \in config.allowed IN
     Begin([op |-> "login", of |-> a, admitted |-> admitted, gone |-> FALSE])
  /\ UNCHANGED <<config, auth0, users, members, exempt>>
\* The user is inserted (auth_provider_id is unique), and the membership, and the
\* configuration's last_login_at is set.
Provision(p) ==
  /\ p.op = "login" /\ p.of \notin users /\ (p.admitted => ~p.gone)
  /\ Drop(p)
  /\ users' = users \cup {p.of}
  /\ members' = IF p.admitted THEN members \cup {p.of} ELSE members
  /\ UNCHANGED <<config, auth0, exempt>>

------------------------------------------------------------------------------
(* The endpoints *)

PostSso(role, tier, created, enforce, auto, allowed) ==
  RequireOwner(role) /\ CreateSsoConfig(tier, created, enforce, auto, allowed)
PatchSso(role, enabled, enforce, auto, allowed) ==
  RequireOwner(role) /\ UpdateSsoConfig(enabled, enforce, auto, allowed)
DeleteSso(role, answers) == RequireOwner(role) /\ DeleteConnection(answers)
PostEnable(role) == RequireOwner(role) /\ EnableSso
PostDisable(role) == RequireOwner(role) /\ DisableSso

Next == \/ \E role \in FirmRole, enforce, auto \in BOOLEAN, allowed \in SUBSET Domains :
             \/ \E tier \in {"professional", "enterprise"}, created \in BOOLEAN :
                  PostSso(role, tier, created, enforce, auto, allowed)
             \/ \E enabled \in BOOLEAN : PatchSso(role, enabled, enforce, auto, allowed)
        \/ \E role \in FirmRole : \/ PostEnable(role) \/ PostDisable(role)
                                  \/ \E answers \in BOOLEAN : DeleteSso(role, answers)
        \/ \E p \in pending : \/ InsertSsoConfig(p) \/ DeleteSsoConfig(p) \/ Fail(p) \/ Provision(p)
        \/ \E a \in Accounts, sso \in BOOLEAN : BeginLogin(a, sso)

Spec == Init /\ [][Next]_vars

------------------------------------------------------------------------------
TypeOK == /\ config = None \/ config \in SSOConfig
          /\ auth0 \in BOOLEAN /\ exempt \in BOOLEAN
          /\ users \subseteq Accounts /\ members \subseteq users
          /\ \A p \in pending : p.op \in {"create", "delete", "login"}

\* When the login page is told to send a domain to the firm's connection, Auth0 has
\* that connection and the login URL can be had, provided PATCH did not enable an
\* unconnected configuration and no deletion is under way or was rolled back.
EnforcedLoginWorks ==
  (/\ ~exempt /\ \A p \in pending : p.op = "delete" => p.gone
   /\ \E d \in Domains : Enforcement(d)) => auth0 /\ LoginUrl
=============================================================================
