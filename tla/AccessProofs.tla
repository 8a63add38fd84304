---------------------------- MODULE AccessProofs ----------------------------
(***************************************************************************)
(* Proofs about who may come in, in AroundFirm: the sign-in a firm         *)
(* enforces can be used, its people have one seat each and somebody is in  *)
(* charge, keys that are gone are refused and a key's window is kept, and  *)
(* a completed deletion leaves nothing of an account.  For any accounts,   *)
(* people, keys, rows, requests in flight and lag of a clock.              *)
(*                                                                         *)
(* All five decide on what was read before.  Each invariant says what such *)
(* a reading is still worth when it is used: LoginInv of an SSO row, which *)
(* may be switched on only after the test it stands for; TeamInv of the    *)
(* seats somebody is about to give or take; ApiInv of the counts in a      *)
(* key's window, which hold by every clock that may still arrive;          *)
(* PrivacyInv of the seats a running deletion has read.                    *)
(***************************************************************************)
EXTENDS AroundFirm, FiniteSetTheorems, SequenceTheorems, TLAPS

------------------------------------------------------------------------------
(* Single sign-on *)

\* A request that has read and not yet written: what its record holds.
LoginCall == [op: {"create"}, row: {c \in Login!SSOConfig : ~c.enabled}]
     \cup [op: {"delete"}, gone: BOOLEAN]
     \cup [op: {"login"}, of: Accounts, admitted: BOOLEAN, gone: BOOLEAN]

\* A creation that has made the connection at Auth0, and a deletion that has
\* not found its row gone.
Connecting == {p \in loginCall : p.op = "create" /\ p.row.connected}
Deleting == {p \in loginCall : p.op = "delete" /\ ~p.gone}

LoginShapes == /\ config \in Login!SSOConfig \cup {Login!None}
               /\ auth0 \in BOOLEAN /\ exempt \in BOOLEAN
               /\ users \subseteq Accounts /\ members \subseteq users
               /\ loginCall \subseteq LoginCall

\* The connection has one owner: a creation on its way, or the row.
OneConnection == /\ \A p, q \in Connecting : p = q
                 /\ Connecting # {} => auth0 /\ ~config.connected
\* What only a rolled back deletion or PATCH may break.
RowTrue == ~exempt => /\ config.connected /\ Deleting = {} => auth0
                      /\ Login!Exists /\ config.enabled => config.connected

LoginInv == LoginShapes /\ OneConnection /\ RowTrue

LEMMA LoginCallFields ==
  ASSUME LoginShapes, NEW p \in loginCall
  PROVE  /\ p.op \in {"create", "delete", "login"}
         /\ p.op = "create" => p.row \in Login!SSOConfig /\ ~p.row.enabled
         /\ p.op = "login" => p.of \in Accounts
         /\ config.connected \in BOOLEAN
<1>1. p \in LoginCall BY DEF LoginShapes
<1>2. config.connected \in BOOLEAN
  <2>1. CASE config \in Login!SSOConfig BY <2>1 DEF Login!SSOConfig
  <2>2. CASE config = Login!None
    <3>1. config.connected = FALSE BY <2>2 DEF Login!None
    <3> QED BY <3>1
  <2> QED BY <2>1, <2>2 DEF LoginShapes
<1>3. CASE p \in [op: {"create"}, row: {c \in Login!SSOConfig : ~c.enabled}]
  <2>1. p.op = "create" /\ p.row \in {c \in Login!SSOConfig : ~c.enabled} BY <1>3
  <2> QED BY <1>2, <2>1
<1>4. CASE p \in [op: {"delete"}, gone: BOOLEAN] BY <1>2, <1>4
<1>5. CASE p \in [op: {"login"}, of: Accounts, admitted: BOOLEAN, gone: BOOLEAN]
  BY <1>2, <1>5
<1> QED BY <1>1, <1>3, <1>4, <1>5 DEF LoginCall

LEMMA NewLoginCall ==
  /\ \A c \in Login!SSOConfig : ~c.enabled => [op |-> "create", row |-> c] \in LoginCall
  /\ [op |-> "delete", gone |-> FALSE] \in LoginCall
  /\ \A a \in Accounts, b \in BOOLEAN :
       [op |-> "login", of |-> a, admitted |-> b, gone |-> FALSE] \in LoginCall
  BY DEF LoginCall

LEMMA LoginInit == Login!Init => LoginInv
<1> SUFFICES ASSUME Login!Init PROVE LoginInv OBVIOUS
<1>1. LoginShapes BY DEF Login!Init, LoginShapes
<1>2. Connecting = {} BY DEF Login!Init, Connecting
<1>3. OneConnection BY <1>2 DEF OneConnection
<1>4. ~config.connected /\ ~Login!Exists BY DEF Login!Init, Login!None, Login!Exists
<1>5. RowTrue BY <1>4 DEF RowTrue
<1> QED BY <1>1, <1>3, <1>5 DEF LoginInv

LEMMA CreateSsoKeeps ==
  ASSUME LoginInv, NEW tier, NEW created \in BOOLEAN, NEW enforce \in BOOLEAN,
         NEW auto \in BOOLEAN, NEW allowed \in SUBSET Domains,
         Login!CreateSsoConfig(tier, created, enforce, auto, allowed)
  PROVE  LoginInv'
<1> DEFINE c == [connected |-> created, enabled |-> FALSE, enforce |-> enforce,
                 auto |-> auto, allowed |-> allowed]
           p == [op |-> "create", row |-> c]
<1>1. /\ ~Login!Exists /\ (created => ~auth0) /\ auth0' = (auth0 \/ created)
      /\ loginCall' = loginCall \cup {p} /\ UNCHANGED <<config, users, members, exempt>>
  BY DEF Login!CreateSsoConfig, Login!Begin
<1>2. c \in Login!SSOConfig /\ ~c.enabled /\ c.connected = created BY DEF Login!SSOConfig
<1>3. p \in LoginCall /\ p.op = "create" /\ p.row = c BY <1>2, NewLoginCall
<1>4. ~config.connected BY <1>1 DEF Login!Exists, Login!None
<1> HIDE DEF c, p
<1>5. LoginShapes' BY <1>1, <1>3 DEF LoginInv, LoginShapes
<1>6. Deleting' = Deleting BY <1>1, <1>3 DEF Deleting
<1>7. Connecting' = Connecting \cup (IF created THEN {p} ELSE {})
  BY <1>1, <1>2, <1>3 DEF Connecting
<1>8. OneConnection' BY <1>1, <1>4, <1>7 DEF LoginInv, OneConnection
<1>9. RowTrue' BY <1>1, <1>4 DEF LoginInv, RowTrue, Login!Exists
<1> QED BY <1>5, <1>8, <1>9 DEF LoginInv

LEMMA InsertSsoKeeps ==
  ASSUME LoginInv, NEW p \in loginCall, Login!InsertSsoConfig(p)
  PROVE  LoginInv'
<1>1. /\ p.op = "create" /\ loginCall' = loginCall \ {p}
      /\ config' = IF Login!Exists THEN config ELSE p.row
      /\ UNCHANGED <<auth0, users, members, exempt>>
  BY DEF Login!InsertSsoConfig, Login!Drop
<1>2. p.row \in Login!SSOConfig /\ ~p.row.enabled BY <1>1, LoginCallFields DEF LoginInv
<1>3. LoginShapes' BY <1>1, <1>2 DEF LoginInv, LoginShapes
<1>4. Deleting' = Deleting /\ Connecting' = Connecting \ {p} BY <1>1 DEF Deleting, Connecting
<1>5. p.row.connected => p \in Connecting BY <1>1 DEF Connecting
<1>6. OneConnection' BY <1>1, <1>4, <1>5 DEF LoginInv, OneConnection
<1>7. RowTrue' BY <1>1, <1>2, <1>4, <1>5 DEF LoginInv, OneConnection, RowTrue, Login!Exists
<1> QED BY <1>3, <1>6, <1>7 DEF LoginInv

\* PATCH, enabling and disabling: the connection of the row is left alone.
LEMMA ConfigWrite ==
  ASSUME LoginInv, NEW c \in Login!SSOConfig, Login!Exists, config' = c,
         c.connected = config.connected, exempt' \in BOOLEAN, exempt => exempt',
         ~exempt' /\ c.enabled => c.connected, UNCHANGED <<auth0, users, members, loginCall>>
  PROVE  LoginInv'
<1>1. Connecting' = Connecting /\ Deleting' = Deleting BY DEF Connecting, Deleting
<1>2. LoginShapes' BY DEF LoginInv, LoginShapes
<1>3. OneConnection' BY <1>1 DEF LoginInv, OneConnection
<1>4. RowTrue' BY <1>1 DEF LoginInv, RowTrue, Login!Exists
<1> QED BY <1>2, <1>3, <1>4 DEF LoginInv

LEMMA PatchSsoKeeps ==
  ASSUME LoginInv, NEW enabled \in BOOLEAN, NEW enforce \in BOOLEAN, NEW auto \in BOOLEAN,
         NEW allowed \in SUBSET Domains,
         \/ Login!UpdateSsoConfig(enabled, enforce, auto, allowed)
         \/ Login!EnableSso \/ Login!DisableSso
  PROVE  LoginInv'
<1>1. config \in Login!SSOConfig /\ Login!Exists
  BY DEF LoginInv, LoginShapes, Login!UpdateSsoConfig, Login!EnableSso, Login!DisableSso, Login!Exists
<1>2. CASE Login!UpdateSsoConfig(enabled, enforce, auto, allowed)
  <2> DEFINE c == [config EXCEPT !.enabled = enabled, !.enforce = enforce, !.auto = auto,
                                 !.allowed = allowed]
  <2>1. c \in Login!SSOConfig /\ c.connected = config.connected /\ c.enabled = enabled
    BY <1>1 DEF Login!SSOConfig
  <2>2. /\ config' = c /\ UNCHANGED <<auth0, users, members, loginCall>>
        /\ exempt' = (exempt \/ (enabled /\ ~config.connected))
    BY <1>2 DEF Login!UpdateSsoConfig
  <2> HIDE DEF c
  <2> QED BY <1>1, <2>1, <2>2, ConfigWrite
<1>3. CASE Login!EnableSso
  <2>1. [config EXCEPT !.enabled = TRUE] \in Login!SSOConfig
    BY <1>1 DEF Login!SSOConfig
  <2>2. /\ config' = [config EXCEPT !.enabled = TRUE] /\ config.connected
        /\ UNCHANGED <<auth0, users, members, loginCall, exempt>>
    BY <1>3 DEF Login!EnableSso
  <2>3. config'.connected = config.connected BY <1>1, <2>2 DEF Login!SSOConfig
  <2> QED BY <1>1, <2>1, <2>2, <2>3, ConfigWrite DEF LoginInv, LoginShapes
<1>4. CASE Login!DisableSso
  <2>1. [config EXCEPT !.enabled = FALSE, !.enforce = FALSE] \in Login!SSOConfig
    BY <1>1 DEF Login!SSOConfig
  <2>2. /\ config' = [config EXCEPT !.enabled = FALSE, !.enforce = FALSE]
        /\ UNCHANGED <<auth0, users, members, loginCall, exempt>>
    BY <1>4 DEF Login!DisableSso
  <2>3. config'.connected = config.connected /\ ~config'.enabled
    BY <1>1, <2>2 DEF Login!SSOConfig
  <2> QED BY <1>1, <2>1, <2>2, <2>3, ConfigWrite DEF LoginInv, LoginShapes
<1> QED BY <1>2, <1>3, <1>4

LEMMA DeleteConnectionKeeps ==
  ASSUME LoginInv, NEW answers \in BOOLEAN, Login!DeleteConnection(answers)
  PROVE  LoginInv'
<1> DEFINE d == [op |-> "delete", gone |-> FALSE]
<1>1. /\ auth0' = (auth0 /\ ~(config.connected /\ answers))
      /\ loginCall' = loginCall \cup {d} /\ UNCHANGED <<config, users, members, exempt>>
  BY DEF Login!DeleteConnection, Login!Begin
<1>2. d \in LoginCall /\ d.op = "delete" /\ ~d.gone BY NewLoginCall
<1> HIDE DEF d
<1>3. LoginShapes' BY <1>1, <1>2 DEF LoginInv, LoginShapes
<1>4. d \in Deleting' /\ Connecting' = Connecting BY <1>1, <1>2 DEF Deleting, Connecting
<1>5. OneConnection' BY <1>1, <1>4 DEF LoginInv, OneConnection
<1>6. RowTrue' BY <1>1, <1>4 DEF LoginInv, RowTrue, Login!Exists
<1> QED BY <1>3, <1>5, <1>6 DEF LoginInv

LEMMA DeleteSsoKeeps ==
  ASSUME LoginInv, NEW p \in loginCall, Login!DeleteSsoConfig(p)
  PROVE  LoginInv'
<1> DEFINE Orphan(q) == IF q.op \in {"delete", "login"} THEN [q EXCEPT !.gone = TRUE] ELSE q
<1>1. /\ config' = Login!None /\ exempt' = FALSE
      /\ loginCall' = {Orphan(q) : q \in loginCall \ {p}} /\ UNCHANGED <<auth0, users, members>>
  BY DEF Login!DeleteSsoConfig, Login!Orphaned
<1>2. ASSUME NEW q \in loginCall
      PROVE  /\ Orphan(q) \in LoginCall
             /\ Orphan(q).op = "create" => Orphan(q) = q
             /\ Orphan(q).op = "delete" => Orphan(q).gone
  <2>1. q \in LoginCall BY DEF LoginInv, LoginShapes
  <2>2. CASE q.op = "create" BY <2>1, <2>2
  <2>3. CASE q \in [op: {"delete"}, gone: BOOLEAN] BY <2>3 DEF LoginCall
  <2>4. CASE q \in [op: {"login"}, of: Accounts, admitted: BOOLEAN, gone: BOOLEAN]
    BY <2>4 DEF LoginCall
  <2> QED BY <2>1, <2>2, <2>3, <2>4 DEF LoginCall
<1> HIDE DEF Orphan
<1>3. LoginShapes' BY <1>1, <1>2 DEF LoginInv, LoginShapes
<1>4. Deleting' = {} BY <1>1, <1>2 DEF Deleting
<1>5. Connecting' \subseteq Connecting BY <1>1, <1>2 DEF Connecting
<1>6. ~Login!None.connected BY DEF Login!None
<1>7. OneConnection' BY <1>1, <1>5, <1>6 DEF LoginInv, OneConnection
<1>8. RowTrue' BY <1>1, <1>6 DEF RowTrue, Login!Exists
<1> QED BY <1>3, <1>7, <1>8 DEF LoginInv

LEMMA FailLoginKeeps ==
  ASSUME LoginInv, NEW p \in loginCall, Login!Fail(p)
  PROVE  LoginInv'
<1>1. /\ loginCall' = loginCall \ {p} /\ exempt' = (exempt \/ (p.op = "delete" /\ ~p.gone))
      /\ UNCHANGED <<config, auth0, users, members>>
  BY DEF Login!Fail, Login!Drop
<1>2. LoginShapes' BY <1>1 DEF LoginInv, LoginShapes
<1>3. Connecting' \subseteq Connecting BY <1>1 DEF Connecting
<1>4. exempt' \/ Deleting' = Deleting BY <1>1 DEF Deleting
<1>5. OneConnection' BY <1>1, <1>3 DEF LoginInv, OneConnection
<1>6. RowTrue' BY <1>1, <1>4 DEF LoginInv, RowTrue, Login!Exists
<1> QED BY <1>2, <1>5, <1>6 DEF LoginInv

LEMMA FirstLoginKeeps ==
  ASSUME LoginInv,
         \/ \E a \in Accounts, sso \in BOOLEAN : Login!BeginLogin(a, sso)
         \/ \E p \in loginCall : Login!Provision(p)
  PROVE  LoginInv'
<1>1. CASE \E a \in Accounts, sso \in BOOLEAN : Login!BeginLogin(a, sso)
  <2>1. PICK a \in Accounts, sso \in BOOLEAN : Login!BeginLogin(a, sso) BY <1>1
  <2>2. PICK b \in BOOLEAN :
          loginCall' = loginCall \cup {[op |-> "login", of |-> a, admitted |-> b, gone |-> FALSE]}
    BY <2>1 DEF Login!BeginLogin, Login!Begin
  <2>3. UNCHANGED <<config, auth0, users, members, exempt>> BY <2>1 DEF Login!BeginLogin
  <2>4. LoginShapes' BY <2>2, <2>3, NewLoginCall DEF LoginInv, LoginShapes
  <2>5. Connecting' = Connecting /\ Deleting' = Deleting BY <2>2 DEF Connecting, Deleting
  <2>6. OneConnection' BY <2>3, <2>5 DEF LoginInv, OneConnection
  <2>7. RowTrue' BY <2>3, <2>5 DEF LoginInv, RowTrue, Login!Exists
  <2> QED BY <2>4, <2>6, <2>7 DEF LoginInv
<1>2. CASE \E p \in loginCall : Login!Provision(p)
  <2>1. PICK p \in loginCall : Login!Provision(p) BY <1>2
  <2>2. /\ p.op = "login" /\ loginCall' = loginCall \ {p} /\ users' = users \cup {p.of}
        /\ members' = (IF p.admitted THEN members \cup {p.of} ELSE members)
        /\ UNCHANGED <<config, auth0, exempt>>
    BY <2>1 DEF Login!Provision, Login!Drop
  <2>3. p.of \in Accounts BY <2>2, LoginCallFields DEF LoginInv
  <2>4. LoginShapes' BY <2>2, <2>3 DEF LoginInv, LoginShapes
  <2>5. Connecting' = Connecting /\ Deleting' = Deleting BY <2>2 DEF Connecting, Deleting
  <2>6. OneConnection' BY <2>2, <2>5 DEF LoginInv, OneConnection
  <2>7. RowTrue' BY <2>2, <2>5 DEF LoginInv, RowTrue, Login!Exists
  <2> QED BY <2>4, <2>6, <2>7 DEF LoginInv
<1> QED BY <1>1, <1>2

LEMMA LoginNext == LoginInv /\ [Login!Next]_loginVars => LoginInv'
<1> SUFFICES ASSUME LoginInv, [Login!Next]_loginVars PROVE LoginInv' OBVIOUS
<1>1. CASE \E tier \in {"professional", "enterprise"}, created, enforce, auto \in BOOLEAN,
              allowed \in SUBSET Domains :
             Login!CreateSsoConfig(tier, created, enforce, auto, allowed)
  BY <1>1, CreateSsoKeeps
<1>2. CASE \E enabled, enforce, auto \in BOOLEAN, allowed \in SUBSET Domains :
             Login!UpdateSsoConfig(enabled, enforce, auto, allowed)
  BY <1>2, PatchSsoKeeps
<1>3. CASE Login!EnableSso \/ Login!DisableSso BY <1>3, PatchSsoKeeps
<1>4. CASE \E answers \in BOOLEAN : Login!DeleteConnection(answers) BY <1>4, DeleteConnectionKeeps
<1>5. CASE \E p \in loginCall : Login!InsertSsoConfig(p) BY <1>5, InsertSsoKeeps
<1>6. CASE \E p \in loginCall : Login!DeleteSsoConfig(p) BY <1>6, DeleteSsoKeeps
<1>7. CASE \E p \in loginCall : Login!Fail(p) BY <1>7, FailLoginKeeps
<1>8. CASE \/ \E a \in Accounts, sso \in BOOLEAN : Login!BeginLogin(a, sso)
           \/ \E p \in loginCall : Login!Provision(p)
  BY <1>8, FirstLoginKeeps
<1>9. CASE UNCHANGED loginVars
  BY <1>9 DEF loginVars, LoginInv, LoginShapes, OneConnection, RowTrue, Connecting, Deleting, Login!Exists
<1> QED BY <1>1, <1>2, <1>3, <1>4, <1>5, <1>6, <1>7, <1>8, <1>9
        DEF Login!Next, Login!PostSso, Login!PatchSso, Login!DeleteSso, Login!PostEnable,
            Login!PostDisable

LEMMA LoginImplies == LoginInv => Login!TypeOK /\ Login!EnforcedLoginWorks
<1> SUFFICES ASSUME LoginInv PROVE Login!TypeOK /\ Login!EnforcedLoginWorks OBVIOUS
<1>1. Login!TypeOK BY LoginCallFields DEF LoginInv, LoginShapes, Login!TypeOK
<1>2. Login!EnforcedLoginWorks
  BY DEF LoginInv, RowTrue, Deleting, Login!EnforcedLoginWorks, Login!Enforcement,
         Login!LoginUrl
<1> QED BY <1>1, <1>2
------------------------------------------------------------------------------
(* People *)

LEMMA TeamCardinality == ASSUME NEW S PROVE Team!Cardinality(S) = Cardinality(S)
  BY Zenon DEF Team!Cardinality, Cardinality

TeamShapes ==
  /\ account \in [Users -> {"none", "pending", "active"}]
  /\ member \in [Users -> FirmRoles \cup {Team!NoRole}]
  /\ seats \subseteq Team!Seat /\ seatCount \in 1..MaxSeats
  /\ removing \subseteq Team!Removal /\ waived \subseteq {"members", "stakeholders"}

\* A row has an id and an address of its own, and an account's is its account's,
\* in lower case or as it is.
SeatsApart == /\ \A s, t \in seats : s.id = t.id \/ s.email = t.email => s = t
              /\ \A s \in seats : s.id <= seatCount
SeatsAddressed == \A s \in seats : s.user # NoUser =>
  s.email \in {Team!AddressOf(s.user), Team!Lowered(Team!AddressOf(s.user))}

\* Unless excused there is one removal of a table under way at most, and it
\* leaves somebody else in charge.
OwnerStays == "members" \notin waived =>
  /\ Team!Owners # {}
  /\ \A q, r \in removing : q.table = "members" /\ r.table = "members" =>
       q = r /\ \E u \in Team!Owners : u # q.id
AdminStays == "stakeholders" \notin waived =>
  /\ Team!SeatsOf("matter_admin") # {}
  /\ \A q, r \in removing : q.table = "stakeholders" /\ r.table = "stakeholders" =>
       q = r /\ \E s \in Team!SeatsOf("matter_admin") : s.id # q.id

TeamInv == TeamShapes /\ SeatsApart /\ SeatsAddressed /\ OwnerStays /\ AdminStays

LEMMA AddressFacts ==
  /\ \A u \in Users \cup {NoUser} : /\ Team!AddressOf(u) \in Team!Address
                                    /\ Team!AddressOf(u).of = u
                                    /\ Team!Lowered(Team!AddressOf(u)).of = u
                                    /\ u \notin MixedCase =>
                                         Team!Lowered(Team!AddressOf(u)) = Team!AddressOf(u)
  /\ \A e \in Team!Address : /\ Team!Lowered(e) \in Team!Address
                             /\ Team!Lowered(Team!Lowered(e)) = Team!Lowered(e)
<1>1. \A e \in Team!Address : e.of \in Users \cup {NoUser} BY DEF Team!Address
<1>2. ASSUME NEW u \in Users \cup {NoUser}
      PROVE  /\ Team!AddressOf(u) \in Team!Address /\ Team!AddressOf(u).of = u
             /\ Team!Lowered(Team!AddressOf(u)) = [of |-> u, lower |-> TRUE]
             /\ u \notin MixedCase => Team!AddressOf(u) = [of |-> u, lower |-> TRUE]
  <2>1. Team!AddressOf(u) \in Team!Address /\ Team!AddressOf(u).of = u
    <3>1. (u \notin MixedCase) \in BOOLEAN OBVIOUS
    <3> QED BY <3>1 DEF Team!AddressOf, Team!Address
  <2>2. Team!Lowered(Team!AddressOf(u)) = [of |-> u, lower |-> TRUE] BY <2>1 DEF Team!Lowered
  <2>3. u \notin MixedCase => Team!AddressOf(u) = [of |-> u, lower |-> TRUE]
    BY DEF Team!AddressOf
  <2> QED BY <2>1, <2>2, <2>3
<1>3. \A x \in Users \cup {NoUser} : [of |-> x, lower |-> TRUE] \in Team!Address
  BY DEF Team!Address
<1> QED BY <1>1, <1>2, <1>3 DEF Team!Lowered

\* Two are more than one.
LEMMA AnotherOne ==
  ASSUME NEW S, NEW x, Cardinality(S) > 1
  PROVE  \E y \in S : y # x
<1> SUFFICES ASSUME \A y \in S : y = x PROVE FALSE OBVIOUS
<1>1. CASE S = {} BY <1>1, FS_EmptySet
<1>2. CASE S # {}
  <2>1. S = {x} BY <1>2
  <2> QED BY <2>1, FS_Singleton
<1> QED BY <1>1, <1>2

LEMMA AtMostOne ==
  ASSUME NEW S, \A x, y \in S : x = y
  PROVE  Cardinality(S) <= 1
<1>1. CASE S = {} BY <1>1, FS_EmptySet
<1>2. CASE S # {}
  <2>1. PICK x \in S : TRUE BY <1>2
  <2>2. S = {x} BY <2>1
  <2> QED BY <2>2, FS_Singleton
<1> QED BY <1>1, <1>2

LEMMA TeamInit == ASSUME Team!PeopleAssumption, Team!Init PROVE TeamInv
<1> DEFINE s == [id |-> 1, user |-> Founder, email |-> Team!AddressOf(Founder),
                 role |-> "matter_admin", status |-> "accepted", token |-> 0]
<1>1. seats = {s} /\ seatCount = 1 /\ removing = {} /\ waived = {} BY DEF Team!Init
<1>2. /\ s \in Team!Seat /\ s.id = 1 /\ s.user = Founder /\ s.role = "matter_admin"
      /\ s.email = Team!AddressOf(Founder)
  BY AddressFacts DEF Team!Seat, Team!PeopleAssumption
<1> HIDE DEF s
<1>3. /\ account \in [Users -> {"none", "pending", "active"}]
      /\ member \in [Users -> FirmRoles \cup {Team!NoRole}] /\ Founder \in Team!Owners
  BY DEF Team!Init, Team!PeopleAssumption, Team!Owners
<1>4. TeamShapes BY <1>1, <1>2, <1>3 DEF TeamShapes, Team!PeopleAssumption
<1>5. SeatsApart /\ SeatsAddressed BY <1>1, <1>2 DEF SeatsApart, SeatsAddressed
<1>6. OwnerStays /\ AdminStays
  BY <1>1, <1>2, <1>3 DEF OwnerStays, AdminStays, Team!SeatsOf
<1> QED BY <1>4, <1>5, <1>6 DEF TeamInv

\* What the parts of the invariant depend on.
LEMMA SeatsStand ==
  ASSUME SeatsApart, SeatsAddressed, UNCHANGED <<seats, seatCount>>
  PROVE  SeatsApart' /\ SeatsAddressed'
  BY DEF SeatsApart, SeatsAddressed
LEMMA OwnersStand ==
  ASSUME OwnerStays, Team!Owners \subseteq Team!Owners', removing' \subseteq removing, UNCHANGED waived
  PROVE  OwnerStays'
  BY DEF OwnerStays
LEMMA AdminsStand ==
  ASSUME AdminStays, UNCHANGED <<seats, waived>>, removing' \subseteq removing
  PROVE  AdminStays'
  BY DEF AdminStays, Team!SeatsOf

LEMMA MembersKeep ==
  ASSUME Team!PeopleAssumption, TeamInv, NEW actor \in Users, NEW u \in Users, NEW role \in FirmRoles,
         \/ Team!Provision(u) \/ Team!InviteMember(actor, u, role)
         \/ Team!UpdateMemberRole(actor, u, role)
  PROVE  TeamInv'
<1>1. CASE Team!Provision(u)
  <2>1. /\ account' = [account EXCEPT ![u] = "active"]
        /\ UNCHANGED <<member, seats, seatCount, removing, waived>>
    BY <1>1 DEF Team!Provision
  <2>2. TeamShapes' BY <2>1 DEF TeamInv, TeamShapes
  <2>3. Team!Owners' = Team!Owners BY <2>1 DEF Team!Owners
  <2> QED BY <2>1, <2>2, <2>3, SeatsStand, OwnersStand, AdminsStand DEF TeamInv
<1>2. CASE Team!InviteMember(actor, u, role)
  <2>1. /\ member[u] = Team!NoRole /\ member' = [member EXCEPT ![u] = role]
        /\ account' = [account EXCEPT ![u] = IF @ = "none" THEN "pending" ELSE @]
        /\ UNCHANGED <<seats, seatCount, removing, waived>>
    BY <1>2 DEF Team!InviteMember
  <2>2. TeamShapes' BY <2>1 DEF TeamInv, TeamShapes
  <2>3. Team!Owners \subseteq Team!Owners'
    BY <2>1 DEF Team!Owners, Team!NoRole, TeamInv, TeamShapes
  <2> QED BY <2>1, <2>2, <2>3, SeatsStand, OwnersStand, AdminsStand DEF TeamInv
<1>3. CASE Team!UpdateMemberRole(actor, u, role)
  <2>1. /\ member' = [member EXCEPT ![u] = role]
        /\ waived' = IF member[u] = "owner" /\ role # "owner"
                     THEN waived \cup {"members"} ELSE waived
        /\ UNCHANGED <<account, seats, seatCount, removing>>
    BY <1>3 DEF Team!UpdateMemberRole
  <2>2. TeamShapes' BY <2>1 DEF TeamInv, TeamShapes
  <2>3. AdminStays' BY <2>1 DEF TeamInv, AdminStays, Team!SeatsOf
  <2>4. OwnerStays'
    <3>1. CASE member[u] = "owner" /\ role # "owner" BY <2>1, <3>1 DEF OwnerStays
    <3>2. CASE ~(member[u] = "owner" /\ role # "owner")
      <4>1. Team!Owners \subseteq Team!Owners'
        BY <2>1, <3>2 DEF Team!Owners, TeamInv, TeamShapes
      <4> QED BY <2>1, <3>2, <4>1, OwnersStand DEF TeamInv
    <3> QED BY <3>1, <3>2
  <2> QED BY <2>1, <2>2, <2>3, <2>4, SeatsStand DEF TeamInv
<1> QED BY <1>1, <1>2, <1>3

LEMMA CheckMemberKeeps ==
  ASSUME TeamInv, NEW actor \in Users, NEW u \in Users, Team!CheckRemoveMember(actor, u)
  PROVE  TeamInv'
<1> DEFINE q == [table |-> "members", id |-> u]
<1>1. /\ member[actor] = "owner" /\ (member[u] = "owner" => Cardinality(Team!Owners) > 1)
      /\ removing' = removing \cup {q}
      /\ waived' = IF \E r \in removing : r.table = "members"
                   THEN waived \cup {"members"} ELSE waived
      /\ UNCHANGED <<account, member, seats, seatCount>>
  BY TeamCardinality DEF Team!CheckRemoveMember, Team!Admit
<1>2. q \in Team!Removal /\ q.table = "members" /\ q.id = u BY DEF Team!Removal
<1> HIDE DEF q
<1>3. Team!Owners' = Team!Owners /\ \E o \in Team!Owners : o # u
  <2>1. Team!Owners' = Team!Owners BY <1>1 DEF Team!Owners
  <2>2. CASE member[u] = "owner" BY <1>1, <2>2, AnotherOne, <2>1
  <2>3. CASE member[u] # "owner" BY <1>1, <2>1, <2>3 DEF Team!Owners
  <2> QED BY <2>1, <2>2, <2>3
<1>4. TeamShapes' BY <1>1, <1>2 DEF TeamInv, TeamShapes
<1>5. OwnerStays' BY <1>1, <1>2, <1>3 DEF TeamInv, OwnerStays
<1>6. AdminStays'
  <2>1. Team!SeatsOf("matter_admin")' = Team!SeatsOf("matter_admin") BY <1>1 DEF Team!SeatsOf
  <2> QED BY <1>1, <1>2, <2>1 DEF TeamInv, AdminStays
<1> QED BY <1>1, <1>4, <1>5, <1>6, SeatsStand DEF TeamInv

LEMMA RemoveMemberKeeps ==
  ASSUME TeamInv, NEW u \in Users, Team!RemoveMember(u)
  PROVE  TeamInv'
<1> DEFINE q == [table |-> "members", id |-> u]
<1>1. /\ q \in removing /\ removing' = removing \ {q}
      /\ member' = [member EXCEPT ![u] = Team!NoRole]
      /\ UNCHANGED <<account, seats, seatCount, waived>>
  BY DEF Team!RemoveMember
<1>2. q.table = "members" /\ q.id = u OBVIOUS
<1> HIDE DEF q
<1>3. TeamShapes' BY <1>1 DEF TeamInv, TeamShapes
<1>4. Team!Owners' = Team!Owners \ {u}
  BY <1>1 DEF Team!Owners, Team!NoRole, TeamInv, TeamShapes
<1>5. OwnerStays' BY <1>1, <1>2, <1>4 DEF TeamInv, OwnerStays
<1> QED BY <1>1, <1>3, <1>5, SeatsStand, AdminsStand DEF TeamInv

LEMMA InviteKeeps ==
  ASSUME Team!PeopleAssumption, TeamInv, NEW u \in Users \cup {NoUser}, NEW role \in Roles,
         Team!Invite(u, role)
  PROVE  TeamInv'
<1> DEFINE e == Team!Lowered(Team!AddressOf(u))
           joined == u # NoUser /\ account[u] # "none"
           s == [id |-> seatCount', user |-> IF joined THEN u ELSE NoUser,
                 email |-> e, role |-> role,
                 status |-> IF joined THEN "accepted" ELSE "pending",
                 token |-> IF joined THEN 0 ELSE 1]
<1>1. /\ seatCount < MaxSeats /\ seatCount' = seatCount + 1
      /\ \A t \in seats : Team!Lowered(t.email) # e
      /\ seats' = seats \cup {s} /\ UNCHANGED <<account, member, removing, waived>>
  BY DEF Team!Invite
<1>2. e \in Team!Address /\ Team!Lowered(e) = e BY AddressFacts
<1> HIDE DEF e
<1>3. /\ seatCount \in Nat /\ seatCount' \in 1..MaxSeats
      /\ \A t \in seats : t.id \in Nat /\ t.id <= seatCount /\ t.email # e
  BY <1>1, <1>2 DEF TeamInv, TeamShapes, SeatsApart, Team!Seat, Team!PeopleAssumption
<1>4. s \in Team!Seat
  BY <1>2, <1>3 DEF Team!Seat, Team!PeopleAssumption
<1>5. s.id = seatCount + 1 /\ s.email = e /\ s.user \in {u, NoUser} BY <1>1
<1> HIDE DEF s
<1>6. TeamShapes' BY <1>1, <1>3, <1>4 DEF TeamInv, TeamShapes
<1>7. SeatsApart' BY <1>1, <1>3, <1>5 DEF TeamInv, SeatsApart
<1>8. SeatsAddressed' BY <1>1, <1>5 DEF TeamInv, SeatsAddressed, e
<1>9. OwnerStays'
  <2>1. Team!Owners' = Team!Owners BY <1>1 DEF Team!Owners
  <2> QED BY <1>1, <2>1, OwnersStand DEF TeamInv
<1>10. AdminStays' BY <1>1 DEF TeamInv, AdminStays, Team!SeatsOf
<1> QED BY <1>6, <1>7, <1>8, <1>9, <1>10 DEF TeamInv

\* A row is replaced by one of the same id.
LEMMA SeatReplaced ==
  ASSUME TeamInv, NEW s \in seats, NEW t \in Team!Seat, t.id = s.id,
         seats' = (seats \ {s}) \cup {t}, \A r \in seats \ {s} : r.email # t.email,
         t.user # NoUser => t.email \in {Team!AddressOf(t.user), Team!Lowered(Team!AddressOf(t.user))},
         \/ s.role = "matter_admin" /\ t.role # "matter_admin" /\ waived' = waived \cup {"stakeholders"}
         \/ (s.role = "matter_admin" => t.role = "matter_admin") /\ waived' = waived,
         UNCHANGED <<account, member, seatCount, removing>>
  PROVE  TeamInv'
<1>1. TeamShapes' BY DEF TeamInv, TeamShapes
<1>2. SeatsApart' BY DEF TeamInv, SeatsApart
<1>3. SeatsAddressed' BY DEF TeamInv, SeatsAddressed
<1>4. OwnerStays'
  <2>1. Team!Owners' = Team!Owners BY DEF Team!Owners
  <2> QED BY <2>1 DEF TeamInv, OwnerStays
<1>5. AdminStays'
  <2>1. CASE waived' = waived \cup {"stakeholders"} BY <2>1 DEF AdminStays
  <2>2. CASE waived' = waived /\ (s.role = "matter_admin" => t.role = "matter_admin")
    <3>1. \A r \in Team!SeatsOf("matter_admin") :
            \E q \in Team!SeatsOf("matter_admin")' : q.id = r.id
      BY <2>2 DEF Team!SeatsOf
    <3> QED BY <2>2, <3>1 DEF TeamInv, AdminStays
  <2> QED BY <2>1, <2>2
<1> QED BY <1>1, <1>2, <1>3, <1>4, <1>5 DEF TeamInv

LEMMA SeatWritten ==
  ASSUME Team!PeopleAssumption, TeamInv, NEW s \in seats,
         \/ \E role \in Roles : Team!UpdateStakeholder(s, role)
         \/ Team!ResendInvite(s)
         \/ \E u \in Users : Team!AcceptInvite(u, s)
  PROVE  TeamInv'
<1>1. /\ s \in Team!Seat /\ \A r \in seats \ {s} : r.email # s.email
      /\ s.user # NoUser =>
           s.email \in {Team!AddressOf(s.user), Team!Lowered(Team!AddressOf(s.user))}
  BY DEF TeamInv, TeamShapes, SeatsApart, SeatsAddressed
<1>2. CASE \E role \in Roles : Team!UpdateStakeholder(s, role)
  <2>1. PICK role \in Roles : Team!UpdateStakeholder(s, role) BY <1>2
  <2> DEFINE t == [s EXCEPT !.role = role]
  <2>2. /\ t \in Team!Seat /\ t.id = s.id /\ t.email = s.email /\ t.user = s.user /\ t.role = role
    BY <1>1 DEF Team!Seat
  <2>3. /\ s.role # role /\ seats' = (seats \ {s}) \cup {t}
        /\ waived' = IF s.role = "matter_admin" THEN waived \cup {"stakeholders"} ELSE waived
        /\ UNCHANGED <<account, member, seatCount, removing>>
    BY <2>1 DEF Team!UpdateStakeholder
  <2> HIDE DEF t
  <2> QED BY <1>1, <2>2, <2>3, SeatReplaced
<1>3. CASE Team!ResendInvite(s)
  <2> DEFINE t == [s EXCEPT !.token = @ + 1]
  <2>1. /\ s.token < MaxTokens /\ seats' = (seats \ {s}) \cup {t}
        /\ UNCHANGED <<account, member, seatCount, removing, waived>>
    BY <1>3 DEF Team!ResendInvite
  <2>2. /\ t \in Team!Seat /\ t.id = s.id /\ t.email = s.email /\ t.user = s.user /\ t.role = s.role
    BY <1>1, <2>1 DEF Team!Seat, Team!PeopleAssumption
  <2> HIDE DEF t
  <2> QED BY <1>1, <2>1, <2>2, SeatReplaced
<1>4. CASE \E u \in Users : Team!AcceptInvite(u, s)
  <2>1. PICK u \in Users : Team!AcceptInvite(u, s) BY <1>4
  <2> DEFINE t == [s EXCEPT !.user = u, !.status = "accepted", !.email = Team!AddressOf(u)]
  <2>2. /\ Team!Distinct((seats \ {s}) \cup {t}) /\ seats' = (seats \ {s}) \cup {t}
        /\ UNCHANGED <<account, member, seatCount, removing, waived>>
    BY <2>1 DEF Team!AcceptInvite
  <2>3. /\ t \in Team!Seat /\ t.id = s.id /\ t.email = Team!AddressOf(u) /\ t.user = u
        /\ t.role = s.role
    BY <1>1, AddressFacts DEF Team!Seat
  <2> HIDE DEF t
  <2>4. \A r \in seats \ {s} : r.email # t.email
    <3>1. \A r \in seats \ {s} : r # t BY <2>3 DEF TeamInv, SeatsApart
    <3> QED BY <2>2, <3>1 DEF Team!Distinct
  <2> QED BY <2>2, <2>3, <2>4, SeatReplaced
<1> QED BY <1>2, <1>3, <1>4

LEMMA RemoveSeatKeeps ==
  ASSUME TeamInv, NEW s \in seats,
         Team!CheckRemoveStakeholder(s) \/ Team!RemoveStakeholder(s)
  PROVE  TeamInv'
<1> DEFINE q == [table |-> "stakeholders", id |-> s.id]
<1>1. s \in Team!Seat /\ q \in Team!Removal /\ q.table = "stakeholders" /\ q.id = s.id
  BY DEF TeamInv, TeamShapes, Team!Seat, Team!Removal
<1>2. CASE Team!CheckRemoveStakeholder(s)
  <2>1. /\ s.role = "matter_admin" => Cardinality(Team!SeatsOf("matter_admin")) > 1
        /\ removing' = removing \cup {q}
        /\ waived' = IF \E r \in removing : r.table = "stakeholders"
                     THEN waived \cup {"stakeholders"} ELSE waived
        /\ UNCHANGED <<account, member, seats, seatCount>>
    BY <1>2, TeamCardinality DEF Team!CheckRemoveStakeholder, Team!Admit
  <2> HIDE DEF q
  <2>2. TeamShapes' BY <1>1, <2>1 DEF TeamInv, TeamShapes
  <2>3. Team!Owners' = Team!Owners /\ Team!SeatsOf("matter_admin")' = Team!SeatsOf("matter_admin")
    BY <2>1 DEF Team!Owners, Team!SeatsOf
  <2>4. OwnerStays' BY <1>1, <2>1, <2>3 DEF TeamInv, OwnerStays
  <2>5. Team!SeatsOf("matter_admin") # {} => \E t \in Team!SeatsOf("matter_admin") : t.id # s.id
    <3>1. CASE s.role = "matter_admin"
      <4>1. \E t \in Team!SeatsOf("matter_admin") : t # s BY <2>1, <3>1, AnotherOne
      <4> QED BY <4>1 DEF TeamInv, SeatsApart, Team!SeatsOf
    <3>2. CASE s.role # "matter_admin" BY <3>2 DEF TeamInv, SeatsApart, Team!SeatsOf
    <3> QED BY <3>1, <3>2
  <2>6. AdminStays' BY <1>1, <2>1, <2>3, <2>5 DEF TeamInv, AdminStays
  <2> QED BY <2>1, <2>2, <2>4, <2>6, SeatsStand DEF TeamInv
<1>3. CASE Team!RemoveStakeholder(s)
  <2>1. /\ q \in removing /\ removing' = removing \ {q} /\ seats' = seats \ {s}
        /\ UNCHANGED <<account, member, seatCount, waived>>
    BY <1>3 DEF Team!RemoveStakeholder
  <2> HIDE DEF q
  <2>2. TeamShapes' BY <2>1 DEF TeamInv, TeamShapes
  <2>3. SeatsApart' /\ SeatsAddressed' BY <2>1 DEF TeamInv, SeatsApart, SeatsAddressed
  <2>4. Team!Owners' = Team!Owners BY <2>1 DEF Team!Owners
  <2>5. OwnerStays' BY <2>1, <2>4, OwnersStand DEF TeamInv
  <2>6. AdminStays' BY <1>1, <2>1 DEF TeamInv, AdminStays, Team!SeatsOf
  <2> QED BY <2>2, <2>3, <2>5, <2>6 DEF TeamInv
<1> QED BY <1>2, <1>3

LEMMA TeamNext == ASSUME Team!PeopleAssumption, TeamInv, [Team!Next]_teamVars PROVE TeamInv'
<1>1. CASE \E u \in Users : Team!Provision(u)
  <2>1. PICK u \in Users : Team!Provision(u) BY <1>1
  <2> QED BY <2>1, MembersKeep DEF Team!PeopleAssumption
<1>2. CASE \E u \in Users : Team!RemoveMember(u) BY <1>2, RemoveMemberKeeps
<1>3. CASE \E actor, u \in Users, role \in FirmRoles :
             Team!InviteMember(actor, u, role) \/ Team!UpdateMemberRole(actor, u, role)
  BY <1>3, MembersKeep
<1>4. CASE \E actor, u \in Users : Team!CheckRemoveMember(actor, u) BY <1>4, CheckMemberKeeps
<1>5. CASE \E u \in Users \cup {NoUser}, role \in Roles : Team!Invite(u, role) BY <1>5, InviteKeeps
<1>6. CASE \E s \in seats : \/ \E role \in Roles : Team!UpdateStakeholder(s, role)
                            \/ Team!ResendInvite(s)
                            \/ \E u \in Users : Team!AcceptInvite(u, s)
  BY <1>6, SeatWritten
<1>7. CASE \E s \in seats : Team!CheckRemoveStakeholder(s) \/ Team!RemoveStakeholder(s)
  BY <1>7, RemoveSeatKeeps
<1>8. CASE UNCHANGED teamVars
  <2>1. UNCHANGED <<account, member, seats, seatCount, removing, waived>> BY <1>8 DEF teamVars
  <2>2. Team!Owners' = Team!Owners BY <2>1 DEF Team!Owners
  <2>3. TeamShapes' BY <2>1 DEF TeamInv, TeamShapes
  <2> QED BY <2>1, <2>2, <2>3, SeatsStand, OwnersStand, AdminsStand DEF TeamInv
<1> QED BY <1>1, <1>2, <1>3, <1>4, <1>5, <1>6, <1>7, <1>8
        DEF Team!Next, Team!PostMember, Team!PatchMember, Team!DeleteMember, Team!PostStakeholder,
            Team!PatchStakeholder, Team!DeleteStakeholder, Team!PostInvite

LEMMA TeamImplies ==
  ASSUME Team!PeopleAssumption, TeamInv
  PROVE  Team!TypeOK /\ Team!SeatsInOrder
<1>1. Team!TypeOK BY DEF TeamInv, TeamShapes, SeatsApart, Team!TypeOK, Team!Distinct
<1>2. Team!OneSeatEach
  <2> SUFFICES ASSUME NEW u \in Users \ MixedCase PROVE Cardinality(Team!RowsOf(u)) <= 1
    BY TeamCardinality DEF Team!OneSeatEach
  <2>1. \A s \in Team!RowsOf(u) : s \in seats /\ s.email = Team!AddressOf(u)
    BY AddressFacts DEF TeamInv, SeatsAddressed, Team!RowsOf, Team!PeopleAssumption
  <2>2. \A s, t \in Team!RowsOf(u) : s = t BY <2>1 DEF TeamInv, SeatsApart
  <2> QED BY <2>2, AtMostOne
<1>3. Team!SomeoneInCharge BY DEF TeamInv, OwnerStays, AdminStays, Team!SomeoneInCharge
<1> QED BY <1>1, <1>2, <1>3 DEF Team!SeatsInOrder
------------------------------------------------------------------------------
(* API keys *)

(* Sliding windows: the API keys' and the AI features' limits are one argument. *)

\* The instants of a stretch of time, shorter by what clocks may lag, and the
\* promise that none holds too many.
Stretch(instants, from, span, lag) == {t \in instants : from <= t /\ t + lag < from + span}
KeptWithin(instants, span, lag, limit, n) ==
  \A from \in 1..n : Cardinality(Stretch(instants, from, span, lag)) <= limit

LEMMA NumberedFinite ==
  ASSUME NEW n \in Nat, NEW S \in SUBSET (1..n)
  PROVE  IsFiniteSet(S) /\ Cardinality(S) \in Nat
<1>1. IsFiniteSet(1..n) BY FS_Interval
<1> QED BY <1>1, FS_Subset, FS_CardinalityType

\* A script that counts what is live by a clock and finds room lets that instant
\* in: a stretch that holds it holds only what is live, besides it.
LEMMA EnterKeepsWithin ==
  ASSUME NEW n \in Nat \ {0}, NEW span \in Nat, NEW lag \in Nat, NEW limit \in Nat,
         NEW instants \in SUBSET (1..n), NEW live \in SUBSET (1..n), NEW at \in 1..n,
         \A t \in instants : t + span > at + lag => t \in live,
         Cardinality(live) < limit, KeptWithin(instants, span, lag, limit, n)
  PROVE  KeptWithin(instants \cup {at}, span, lag, limit, n)
<1> SUFFICES ASSUME NEW from \in 1..n
             PROVE  Cardinality(Stretch(instants \cup {at}, from, span, lag)) <= limit
  BY DEF KeptWithin
<1>1. CASE from <= at /\ at + lag < from + span
  <2>1. Stretch(instants \cup {at}, from, span, lag) \subseteq live \cup {at}
    <3> SUFFICES ASSUME NEW t \in instants, from <= t PROVE t \in live BY DEF Stretch
    <3>1. t \in Nat /\ t + span > at + lag BY <1>1
    <3> QED BY <3>1
  <2>2. IsFiniteSet(live) /\ Cardinality(live) \in Nat BY NumberedFinite
  <2>3. IsFiniteSet(live \cup {at}) /\ Cardinality(live \cup {at}) <= Cardinality(live) + 1
    BY <2>2, FS_AddElement
  <2>4. Cardinality(Stretch(instants \cup {at}, from, span, lag)) <= Cardinality(live \cup {at})
    BY <2>1, <2>3, FS_Subset
  <2>5. Stretch(instants \cup {at}, from, span, lag) \in SUBSET (1..n) BY DEF Stretch
  <2>6. live \cup {at} \in SUBSET (1..n) OBVIOUS
  <2>7. /\ Cardinality(Stretch(instants \cup {at}, from, span, lag)) \in Nat
        /\ Cardinality(live \cup {at}) \in Nat
    BY <2>5, <2>6, NumberedFinite
  <2> QED BY <2>2, <2>3, <2>4, <2>7
<1>2. CASE ~(from <= at /\ at + lag < from + span)
  <2>1. Stretch(instants \cup {at}, from, span, lag) = Stretch(instants, from, span, lag)
    BY <1>2 DEF Stretch
  <2> QED BY <2>1 DEF KeptWithin
<1> QED BY <1>1, <1>2

\* When time passes, the stretch that starts at the new instant is still empty.
LEMMA TickKeepsWithin ==
  ASSUME NEW n \in Nat, NEW span \in Nat, NEW lag \in Nat, NEW limit \in Nat,
         NEW instants \in SUBSET (1..n), KeptWithin(instants, span, lag, limit, n)
  PROVE  KeptWithin(instants, span, lag, limit, n + 1)
<1> SUFFICES ASSUME NEW from \in 1..(n + 1)
             PROVE  Cardinality(Stretch(instants, from, span, lag)) <= limit
  BY DEF KeptWithin
<1>1. CASE from \in 1..n BY <1>1 DEF KeptWithin
<1>2. CASE from = n + 1
  <2>1. \A t \in instants : ~(from <= t) BY <1>2
  <2>2. Stretch(instants, from, span, lag) = {} BY <2>1 DEF Stretch
  <2> QED BY <2>2, FS_EmptySet
<1> QED BY <1>1, <1>2

LEMMA EmptyKept ==
  ASSUME NEW n \in Nat, NEW span \in Nat, NEW lag \in Nat, NEW limit \in Nat
  PROVE  KeptWithin({}, span, lag, limit, n)
<1>1. \A from \in 1..n : Stretch({}, from, span, lag) = {} BY DEF Stretch
<1> QED BY <1>1, FS_EmptySet DEF KeptWithin

------------------------------------------------------------------------------
(* ApiKeys *)

LEMMA ApiCardinality == ASSUME NEW S PROVE Api!Cardinality(S) = Cardinality(S)
  BY Zenon DEF Api!Cardinality, Cardinality

ApiCall == {Api!Idle} \cup [step: {"limit", "admitted"}, key: Keys, secret: 1..MaxSecrets,
                            dead: SUBSET (1..MaxSecrets)]
ApiShapes == /\ DOMAIN key \subseteq Keys /\ \A k \in DOMAIN key : key[k] \in Api!APIKey
             /\ secrets \in 0..MaxSecrets /\ retired \subseteq 1..secrets /\ clock \in 1..MaxTime
             /\ window \in [Keys -> SUBSET (1..clock)] /\ admitted \in [Keys -> SUBSET (1..clock)]
             /\ apiCall \in [Requests -> ApiCall]

\* Raw keys are handed out once, and one that opens a row was not retired.
HashesOwned == \A j, k \in DOMAIN key : /\ key[k].hash <= secrets
                                        /\ key[j].hash = key[k].hash => j = k
ActiveAlive == \A k \in DOMAIN key : key[k].active => key[k].hash \notin retired
CallsAlive == \A r \in Requests : apiCall[r] # Api!Idle => apiCall[r].secret \notin apiCall[r].dead

\* What still counts of the instants let in, by the newest clock and so by any,
\* is in the window.
WindowsTell == \A k \in Keys : /\ \A t \in admitted[k] : t + Window > clock => t \in window[k]
                               /\ KeptWithin(admitted[k], Window, Lag, Limit, clock)

ApiInv == ApiShapes /\ HashesOwned /\ ActiveAlive /\ CallsAlive /\ WindowsTell

\* Steps that leave the rows of the keys, or the window, or the calls alone.
LEMMA KeysStand ==
  ASSUME HashesOwned, ActiveAlive, UNCHANGED <<key, secrets, retired>>
  PROVE  HashesOwned' /\ ActiveAlive'
  BY DEF HashesOwned, ActiveAlive
LEMMA CallsStand ==
  ASSUME CallsAlive, UNCHANGED apiCall
  PROVE  CallsAlive'
  BY DEF CallsAlive
LEMMA WindowsStand ==
  ASSUME WindowsTell, UNCHANGED <<window, admitted, clock>>
  PROVE  WindowsTell'
  BY DEF WindowsTell

LEMMA ApiInit == ASSUME Api!ApiAssumption, Api!Init PROVE ApiInv
<1>1. key = <<>> /\ DOMAIN key = {} BY DEF Api!Init
<1>2. secrets = 0 /\ retired = {} /\ clock = 1 BY DEF Api!Init
<1>3. \A k \in Keys : window[k] = {} /\ admitted[k] = {} BY DEF Api!Init
<1>4. apiCall = [r \in Requests |-> Api!Idle] BY DEF Api!Init
<1>5. ApiShapes
  <2>1. window \in [Keys -> SUBSET (1..clock)] /\ admitted \in [Keys -> SUBSET (1..clock)]
    BY DEF Api!Init
  <2>2. apiCall \in [Requests -> ApiCall] BY <1>4 DEF ApiCall
  <2> QED BY <1>1, <1>2, <2>1, <2>2 DEF ApiShapes, Api!ApiAssumption
<1>6. HashesOwned /\ ActiveAlive BY <1>1 DEF HashesOwned, ActiveAlive
<1>7. CallsAlive BY <1>4 DEF CallsAlive
<1>8. WindowsTell
  <2>1. KeptWithin({}, Window, Lag, Limit, clock) BY <1>2, EmptyKept DEF Api!ApiAssumption
  <2> QED BY <1>3, <2>1 DEF WindowsTell
<1> QED BY <1>5, <1>6, <1>7, <1>8 DEF ApiInv

LEMMA CreateApiKeyKeeps ==
  ASSUME Api!ApiAssumption, ApiInv, NEW k \in Keys, NEW tier, Api!CreateApiKey(k, tier)
  PROVE  ApiInv'
<1> DEFINE new == [hash |-> secrets', active |-> TRUE, expired |-> FALSE]
<1>1. /\ k \notin DOMAIN key /\ secrets < MaxSecrets /\ secrets' = secrets + 1
      /\ key' = [j \in DOMAIN key \cup {k} |-> IF j = k THEN new ELSE key[j]]
      /\ window' = [window EXCEPT ![k] = {}] /\ admitted' = [admitted EXCEPT ![k] = {}]
      /\ UNCHANGED <<retired, clock, apiCall>>
  BY DEF Api!CreateApiKey, Api!GenerateRawKey
<1>2. new \in Api!APIKey /\ new.hash = secrets + 1 /\ new.active
  BY <1>1 DEF ApiInv, ApiShapes, Api!APIKey, Api!ApiAssumption
<1> HIDE DEF new
<1>3. DOMAIN key' = DOMAIN key \cup {k} /\ key'[k] = new /\ \A j \in DOMAIN key : key'[j] = key[j]
  BY <1>1
<1>4. ApiShapes'
  <2>1. window' \in [Keys -> SUBSET (1..clock)] /\ admitted' \in [Keys -> SUBSET (1..clock)]
    BY <1>1 DEF ApiInv, ApiShapes
  <2> QED BY <1>1, <1>2, <1>3, <2>1 DEF ApiInv, ApiShapes, Api!ApiAssumption
<1>5. HashesOwned'
  BY <1>1, <1>2, <1>3 DEF ApiInv, ApiShapes, HashesOwned, Api!APIKey, Api!ApiAssumption
<1>6. ActiveAlive' BY <1>1, <1>2, <1>3 DEF ApiInv, ApiShapes, ActiveAlive, Api!ApiAssumption
<1>7. CallsAlive' BY <1>1, CallsStand DEF ApiInv
<1>8. WindowsTell'
  <2>1. KeptWithin({}, Window, Lag, Limit, clock) BY EmptyKept DEF ApiInv, ApiShapes, Api!ApiAssumption
  <2>2. \A j \in Keys : /\ admitted'[j] = IF j = k THEN {} ELSE admitted[j]
                        /\ window'[j] = IF j = k THEN {} ELSE window[j]
    BY <1>1 DEF ApiInv, ApiShapes
  <2>3. clock' = clock BY <1>1
  <2> QED BY <2>1, <2>2, <2>3 DEF ApiInv, WindowsTell
<1> QED BY <1>4, <1>5, <1>6, <1>7, <1>8 DEF ApiInv

\* Revoking, regenerating, deleting and expiring: what a row may become.
LEMMA RowStep ==
  ASSUME Api!ApiAssumption, ApiInv, secrets' \in 0..MaxSecrets, secrets <= secrets',
         retired' \subseteq 1..secrets', UNCHANGED <<window, admitted, clock, apiCall>>,
         DOMAIN key' \subseteq DOMAIN key,
         \A k \in DOMAIN key' :
           /\ key'[k] \in Api!APIKey
           /\ \/ key'[k].hash = key[k].hash /\ (key'[k].active => key[k].active)
                 /\ (key'[k].active => key[k].hash \notin retired' \ retired)
              \/ /\ key'[k].hash = secrets + 1 /\ secrets' = secrets + 1
                 /\ key'[k].active => secrets + 1 \notin retired'
                 /\ \A j \in DOMAIN key' : j # k => key'[j].hash = key[j].hash
  PROVE  ApiInv'
<1>1. ApiShapes' BY DEF ApiInv, ApiShapes
<1>2. HashesOwned' BY DEF ApiInv, ApiShapes, HashesOwned, Api!APIKey, Api!ApiAssumption
<1>3. ActiveAlive' BY DEF ApiInv, ActiveAlive
<1> QED BY <1>1, <1>2, <1>3, CallsStand, WindowsStand DEF ApiInv

LEMMA RevokeKeeps ==
  ASSUME Api!ApiAssumption, ApiInv, NEW k \in DOMAIN key,
         \/ Api!RevokeApiKey(k) \/ Api!RegenerateApiKey(k) \/ Api!DeleteApiKey(k) \/ Api!Expire(k)
  PROVE  ApiInv'
<1>1. /\ key[k] \in Api!APIKey /\ key[k].hash \in 1..secrets
      /\ secrets \in 0..MaxSecrets /\ retired \subseteq 1..secrets
      /\ \A j \in DOMAIN key : key[j] \in Api!APIKey /\ (j # k => key[j].hash # key[k].hash)
  BY DEF ApiInv, ApiShapes, HashesOwned, Api!APIKey, Api!ApiAssumption
<1>6. /\ key[k].hash \in 1..secrets /\ secrets \in 0..MaxSecrets /\ secrets \in Nat
      /\ retired \subseteq 1..secrets
  BY <1>1 DEF Api!ApiAssumption
<1>2. CASE Api!RevokeApiKey(k)
  <2>1. /\ key' = [key EXCEPT ![k].active = FALSE] /\ retired' = retired \cup {key[k].hash}
        /\ UNCHANGED <<secrets, window, admitted, clock, apiCall>>
    BY <1>2 DEF Api!RevokeApiKey
  <2>2. DOMAIN key' = DOMAIN key /\ \A j \in DOMAIN key : j # k => key'[j] = key[j] BY <2>1
  <2>3. key'[k] \in Api!APIKey /\ key'[k].hash = key[k].hash /\ ~key'[k].active
    BY <1>1, <2>1 DEF Api!APIKey
  <2>4. secrets' \in 0..MaxSecrets /\ secrets <= secrets' /\ retired' \subseteq 1..secrets'
    BY <1>1, <2>1 DEF Api!ApiAssumption
  <2>5. \A j \in DOMAIN key : j # k => key[j].hash \notin retired' \ retired BY <1>1, <2>1
  <2> QED BY <1>1, <2>1, <2>2, <2>3, <2>4, <2>5, RowStep
<1>3. CASE Api!RegenerateApiKey(k)
  <2>1. /\ secrets < MaxSecrets /\ secrets' = secrets + 1
        /\ key' = [key EXCEPT ![k].hash = secrets']
        /\ retired' = retired \cup {key[k].hash} \cup (IF key[k].active THEN {} ELSE {secrets'})
        /\ UNCHANGED <<window, admitted, clock, apiCall>>
    BY <1>3 DEF Api!RegenerateApiKey, Api!GenerateRawKey
  <2>2. DOMAIN key' = DOMAIN key /\ \A j \in DOMAIN key : j # k => key'[j] = key[j] BY <2>1
  <2>3. key'[k] \in Api!APIKey /\ key'[k].hash = secrets + 1 /\ key'[k].active = key[k].active
    BY <1>1, <2>1 DEF Api!APIKey, Api!ApiAssumption
  <2>4. key'[k].active => secrets + 1 \notin retired' BY <1>1, <2>1, <2>3 DEF Api!ApiAssumption
  <2>5. \A j \in DOMAIN key : j # k => key[j].hash \notin retired' \ retired
    <3>1. \A j \in DOMAIN key : key[j].hash # secrets'
      BY <2>1, <1>1 DEF ApiInv, HashesOwned, Api!APIKey, Api!ApiAssumption
    <3> QED BY <1>1, <2>1, <3>1
  <2>6. secrets' \in 0..MaxSecrets /\ secrets <= secrets' /\ retired' \subseteq 1..secrets'
    BY <1>1, <2>1 DEF Api!ApiAssumption
  <2> QED BY <1>1, <2>1, <2>2, <2>3, <2>4, <2>5, <2>6, RowStep
<1>4. CASE Api!DeleteApiKey(k)
  <2>1. /\ key' = [j \in DOMAIN key \ {k} |-> key[j]] /\ retired' = retired \cup {key[k].hash}
        /\ UNCHANGED <<secrets, window, admitted, clock, apiCall>>
    BY <1>4 DEF Api!DeleteApiKey
  <2>2. DOMAIN key' = DOMAIN key \ {k} /\ \A j \in DOMAIN key' : key'[j] = key[j] BY <2>1
  <2>3. secrets' = secrets /\ retired' = retired \cup {key[k].hash} BY <2>1
  <2>4. secrets' \in 0..MaxSecrets /\ secrets <= secrets' /\ retired' \subseteq 1..secrets'
    <3>1. retired' \subseteq 1..secrets BY <1>6, <2>3
    <3> QED BY <1>6, <2>3, <3>1
  <2>5. \A j \in DOMAIN key' : key[j].hash \notin retired' \ retired BY <1>1, <2>1, <2>2
  <2>6. DOMAIN key' \subseteq DOMAIN key BY <2>2
  <2> QED BY <1>1, <2>1, <2>2, <2>4, <2>5, <2>6, RowStep
<1>5. CASE Api!Expire(k)
  <2>1. /\ key' = [key EXCEPT ![k].expired = TRUE]
        /\ UNCHANGED <<secrets, retired, window, admitted, clock, apiCall>>
    BY <1>5 DEF Api!Expire
  <2>2. DOMAIN key' = DOMAIN key /\ \A j \in DOMAIN key : j # k => key'[j] = key[j] BY <2>1
  <2>3. key'[k] \in Api!APIKey /\ key'[k].hash = key[k].hash /\ key'[k].active = key[k].active
    BY <1>1, <2>1 DEF Api!APIKey
  <2>4. secrets' \in 0..MaxSecrets /\ secrets <= secrets' /\ retired' \subseteq 1..secrets'
    BY <1>1, <2>1 DEF Api!ApiAssumption
  <2>5. \A j \in DOMAIN key : j # k => key[j].hash \notin retired' \ retired BY <1>1, <2>1
  <2> QED BY <1>1, <2>1, <2>2, <2>3, <2>4, <2>5, RowStep
<1> QED BY <1>2, <1>3, <1>4, <1>5

LEMMA AuthenticateKeeps ==
  ASSUME Api!ApiAssumption, ApiInv, NEW r \in Requests, NEW secret \in 1..secrets,
         Api!Authenticate(r, secret)
  PROVE  ApiInv'
<1>1. PICK k \in DOMAIN key :
        /\ key[k].hash = secret /\ key[k].active
        /\ apiCall' = [apiCall EXCEPT ![r] = [step |-> "limit", key |-> k, secret |-> secret,
                                              dead |-> retired]]
        /\ UNCHANGED <<key, secrets, retired, window, admitted, clock>>
  BY DEF Api!Authenticate, Api!Goes
<1> DEFINE c == [step |-> "limit", key |-> k, secret |-> secret, dead |-> retired]
<1>2. c \in ApiCall /\ c.secret \notin c.dead
  BY <1>1 DEF ApiInv, ApiShapes, ActiveAlive, ApiCall, Api!ApiAssumption
<1>3. apiCall' = [apiCall EXCEPT ![r] = c] BY <1>1
<1> HIDE DEF c
<1>4. ApiShapes' BY <1>1, <1>2, <1>3 DEF ApiInv, ApiShapes
<1>5. CallsAlive' BY <1>2, <1>3 DEF ApiInv, ApiShapes, CallsAlive
<1> QED BY <1>1, <1>4, <1>5, KeysStand, WindowsStand DEF ApiInv

\* Requests that are not idle, and what a step on their way makes of them.
LEMMA CallsMove ==
  ASSUME ApiInv, NEW r \in Requests, apiCall[r] # Api!Idle,
         \/ apiCall' = [apiCall EXCEPT ![r] = Api!Idle]
         \/ apiCall' = [apiCall EXCEPT ![r] = [apiCall[r] EXCEPT !.step = "admitted"]]
  PROVE  apiCall' \in [Requests -> ApiCall] /\ CallsAlive'
<1>1. apiCall[r] \in [step: {"limit", "admitted"}, key: Keys, secret: 1..MaxSecrets,
                      dead: SUBSET (1..MaxSecrets)]
  BY DEF ApiInv, ApiShapes, ApiCall
<1> DEFINE c == [apiCall[r] EXCEPT !.step = "admitted"]
<1>2. c \in ApiCall /\ c.secret = apiCall[r].secret /\ c.dead = apiCall[r].dead
  BY <1>1 DEF ApiCall
<1>3. Api!Idle \in ApiCall BY DEF ApiCall
<1>4. apiCall' = [apiCall EXCEPT ![r] = Api!Idle] \/ apiCall' = [apiCall EXCEPT ![r] = c] OBVIOUS
<1> HIDE DEF c
<1> QED BY <1>2, <1>3, <1>4 DEF ApiInv, ApiShapes, CallsAlive

LEMMA LimitKeeps ==
  ASSUME Api!ApiAssumption, ApiInv, NEW r \in Requests, NEW at,
         Api!RateLimited(r, at) \/ Api!RequireApiKey(r, at)
  PROVE  ApiInv'
<1> DEFINE k == apiCall[r].key
<1>1. apiCall[r] # Api!Idle /\ k \in Keys
  <2>1. apiCall[r].step = "limit" BY DEF Api!RateLimited, Api!RequireApiKey
  <2> QED BY <2>1 DEF ApiInv, ApiShapes, ApiCall, Api!Idle
<1> HIDE DEF k
<1>2. /\ apiCall' \in [Requests -> ApiCall] /\ CallsAlive'
      /\ UNCHANGED <<key, secrets, retired, clock>>
  <2>1. \/ apiCall' = [apiCall EXCEPT ![r] = Api!Idle]
        \/ apiCall' = [apiCall EXCEPT ![r] = [apiCall[r] EXCEPT !.step = "admitted"]]
    BY DEF Api!RateLimited, Api!RequireApiKey, Api!Goes
  <2> QED BY <1>1, <2>1, CallsMove DEF Api!RateLimited, Api!RequireApiKey
<1>3. /\ clock \in Nat \ {0} /\ Window \in Nat /\ Limit \in Nat /\ Lag \in Nat
      /\ at \in 1..clock /\ clock <= at + Lag
      /\ window \in [Keys -> SUBSET (1..clock)] /\ admitted \in [Keys -> SUBSET (1..clock)]
      /\ Api!Live(k, at) \subseteq window[k]
      /\ \A t \in admitted[k] : t + Window > clock => t \in Api!Live(k, at)
      /\ \A t \in admitted[k] : t + Window > at + Lag => t \in Api!Live(k, at)
  BY <1>1 DEF ApiInv, ApiShapes, Api!ApiAssumption, WindowsTell, Api!Live, Api!Clock,
              Api!RateLimited, Api!RequireApiKey
<1>4. CASE UNCHANGED <<window, admitted>>
  BY <1>2, <1>4, KeysStand, WindowsStand DEF ApiInv, ApiShapes
<1>5. CASE Api!RateLimited(r, at)
  <2>1. window' = [window EXCEPT ![k] = Api!Live(k, at)] /\ admitted' = admitted
    BY <1>5 DEF Api!RateLimited, k
  <2>2. window' \in [Keys -> SUBSET (1..clock)] BY <1>1, <1>3, <2>1
  <2>3. WindowsTell' BY <1>1, <1>2, <1>3, <2>1 DEF ApiInv, WindowsTell
  <2> QED BY <1>2, <2>1, <2>2, <2>3, KeysStand DEF ApiInv, ApiShapes
<1>6. CASE Api!CheckRateLimit(k, at)
  <2>1. /\ Cardinality(Api!Live(k, at)) < Limit
        /\ window' = [window EXCEPT ![k] = Api!Live(k, at) \cup {at}]
        /\ admitted' = [admitted EXCEPT ![k] = @ \cup {at}]
    BY <1>6, ApiCardinality DEF Api!CheckRateLimit
  <2>2. window' \in [Keys -> SUBSET (1..clock)] /\ admitted' \in [Keys -> SUBSET (1..clock)]
    BY <1>1, <1>3, <2>1
  <2>3. KeptWithin(admitted[k], Window, Lag, Limit, clock) BY <1>1 DEF ApiInv, WindowsTell
  <2>4. KeptWithin(admitted[k] \cup {at}, Window, Lag, Limit, clock)
    <3>1. Api!Live(k, at) \in SUBSET (1..clock) /\ admitted[k] \in SUBSET (1..clock) BY <1>1, <1>3
    <3> QED BY <1>3, <2>1, <2>3, <3>1, EnterKeepsWithin
  <2>5. admitted'[k] = admitted[k] \cup {at} /\ window'[k] = Api!Live(k, at) \cup {at}
    BY <1>1, <1>3, <2>1
  <2>6. \A j \in Keys : j # k => admitted'[j] = admitted[j] /\ window'[j] = window[j]
    BY <1>3, <2>1
  <2>7. clock' = clock BY <1>2
  <2>8. WindowsTell' BY <1>3, <2>4, <2>5, <2>6, <2>7 DEF ApiInv, WindowsTell
  <2> QED BY <1>2, <2>2, <2>8, KeysStand DEF ApiInv, ApiShapes
<1> QED BY <1>4, <1>5, <1>6 DEF Api!RequireApiKey, k

LEMMA TickApiKeeps ==
  ASSUME Api!ApiAssumption, ApiInv, Api!Tick
  PROVE  ApiInv'
<1>1. /\ clock \in Nat /\ clock' = clock + 1 /\ clock' \in 1..MaxTime
      /\ UNCHANGED <<key, secrets, retired, window, admitted, apiCall>>
  BY DEF ApiInv, ApiShapes, Api!Tick, Api!ApiAssumption
<1>2. ApiShapes'
  <2>1. \A S \in SUBSET (1..clock) : S \in SUBSET (1..clock') BY <1>1
  <2> QED BY <1>1, <2>1 DEF ApiInv, ApiShapes
<1>3. ASSUME NEW k \in Keys
      PROVE  /\ \A t \in admitted[k] : t + Window > clock + 1 => t \in window[k]
             /\ KeptWithin(admitted[k], Window, Lag, Limit, clock + 1)
  <2>1. admitted[k] \in SUBSET (1..clock) BY DEF ApiInv, ApiShapes
  <2> QED BY <1>1, <2>1, TickKeepsWithin DEF ApiInv, WindowsTell, Api!ApiAssumption
<1>4. WindowsTell' BY <1>1, <1>3 DEF WindowsTell
<1> QED BY <1>1, <1>2, <1>4, KeysStand, CallsStand DEF ApiInv

LEMMA ApiNext == ASSUME Api!ApiAssumption, ApiInv, [Api!Next]_apiVars PROVE ApiInv'
<1>1. CASE \E k \in Keys, tier \in {"professional", "enterprise"} : Api!CreateApiKey(k, tier)
  BY <1>1, CreateApiKeyKeeps
<1>2. CASE \E k \in DOMAIN key : \/ Api!RevokeApiKey(k) \/ Api!RegenerateApiKey(k)
                                 \/ Api!DeleteApiKey(k) \/ Api!Expire(k)
  BY <1>2, RevokeKeeps
<1>3. CASE \E r \in Requests, secret \in 1..secrets : Api!Authenticate(r, secret)
  BY <1>3, AuthenticateKeeps
<1>4. CASE \E r \in Requests, at \in 1..clock : Api!RateLimited(r, at) \/ Api!RequireApiKey(r, at)
  BY <1>4, LimitKeeps
<1>5. CASE \E r \in Requests : Api!Respond(r)
  <2>1. PICK r \in Requests : Api!Respond(r) BY <1>5
  <2>2. /\ apiCall[r] # Api!Idle /\ apiCall' = [apiCall EXCEPT ![r] = Api!Idle]
        /\ UNCHANGED <<key, secrets, retired, window, admitted, clock>>
    BY <2>1 DEF Api!Respond, Api!Goes, Api!Idle
  <2> QED BY <2>2, CallsMove, KeysStand, WindowsStand DEF ApiInv, ApiShapes
<1>6. CASE Api!Tick BY <1>6, TickApiKeeps
<1>7. CASE UNCHANGED apiVars
  BY <1>7, KeysStand, WindowsStand, CallsStand DEF apiVars, ApiInv, ApiShapes
<1> QED BY <1>1, <1>2, <1>3, <1>4, <1>5, <1>6, <1>7
        DEF Api!Next, Api!PostApiKey, Api!PostRevoke, Api!PostRegenerate, Api!Delete

LEMMA ApiImplies ==
  ASSUME Api!ApiAssumption, ApiInv
  PROVE  Api!TypeOK /\ Api!DeadKeysRefused /\ Api!WindowKept
<1>1. Api!TypeOK
  <2>1. \A S \in SUBSET (1..clock) : S \in SUBSET (1..MaxTime)
    BY DEF ApiInv, ApiShapes, Api!ApiAssumption
  <2>2. \A r \in Requests : apiCall[r].step \in {"idle", "limit", "admitted"}
    BY DEF ApiInv, ApiShapes, ApiCall, Api!Idle
  <2> QED BY <2>1, <2>2 DEF ApiInv, ApiShapes, Api!TypeOK
<1>2. Api!DeadKeysRefused BY DEF ApiInv, CallsAlive, Api!DeadKeysRefused, Api!Idle
<1>3. Api!WindowKept
  BY ApiCardinality DEF ApiInv, WindowsTell, KeptWithin, Stretch, Api!WindowKept
<1> QED BY <1>1, <1>2, <1>3
------------------------------------------------------------------------------
(* Privacy *)

DataPending == [op: {"create"}, user: Users, type: Data!PrivacyRequestType]
           \cup [op: {"review"}, id: DOMAIN request, action: {"approve", "reject"}]
           \cup [op: {"insert", "accept"}, seat: Seats, user: Users \cup {NoUser}]

DataShapes == /\ request \in Seq(Data!PrivacyRequest) /\ Len(request) <= MaxRequests
          /\ named \subseteq Users \cup Seats /\ linked \in [Seats -> Users \cup {NoUser}]
          /\ pending \subseteq DataPending /\ jobs \subseteq Data!Job
          /\ approvals \subseteq DOMAIN request /\ spared \subseteq Users \cup DOMAIN request

\* A job is about a request that was approved, and is not pending any more.
JobsApproved == \A j \in jobs : j.id \in approvals /\ request[j.id].status # "pending"

JobsKnowSeats == \A j \in jobs : j.running => \A s \in Seats :
  /\ linked[s] = request[j.id].user => s \in j.seats \/ request[j.id].user \in spared
  /\ s \in j.seats => linked[s] \in {request[j.id].user, NoUser} \cup spared

ReviewsAlone == \A r \in pending : r.op = "review" /\ r.id \notin spared =>
  /\ request[r.id].status = "pending"
  /\ \A o \in pending : o.op = "review" /\ o.id = r.id => o = r

Erased(u) == Data!BuildDataExport(u) \cap named = {}
Untouched(u) == Data!BuildDataExport(u) \subseteq named

\* DeletionIsWhole, request by request and user by user.
Whole == \A i \in DOMAIN request :
  request[i].status = "completed" /\ i \notin spared /\ request[i].user \notin spared
    => Erased(request[i].user)
OnlyApproved == \A u \in Users \ spared : Untouched(u) \/
  \E i \in approvals : request[i].user = u /\ (request[i].status = "completed" \/ i \in spared)

PrivacyInv == DataShapes /\ JobsApproved /\ JobsKnowSeats /\ ReviewsAlone /\ Whole /\ OnlyApproved

LEMMA DataImplies == PrivacyInv => Data!TypeOK /\ Data!DeletionIsWhole
<1> SUFFICES ASSUME PrivacyInv PROVE Data!TypeOK /\ Data!DeletionIsWhole OBVIOUS
<1>1. DOMAIN request = 1..Len(request) /\ \A i \in DOMAIN request : request[i] \in Data!PrivacyRequest
  BY DEF PrivacyInv, DataShapes
<1>2. \A r \in pending : r.op \in {"create", "review", "insert", "accept"}
  BY DEF PrivacyInv, DataShapes, DataPending
<1>3. Data!TypeOK BY <1>1, <1>2 DEF PrivacyInv, DataShapes, Data!TypeOK
<1>4. \A i \in Data!ListRequests({"completed"}) \ spared :
        request[i].user \notin spared => Data!BuildDataExport(request[i].user) \cap named = {}
  BY DEF Data!ListRequests, PrivacyInv, Whole, Erased
<1>5. \A u \in Users \ spared : Data!BuildDataExport(u) \ named # {} =>
        \E i \in Data!ListMyRequests(u) \cap approvals :
          request[i].status = "completed" \/ i \in spared
  BY DEF Data!ListMyRequests, PrivacyInv, DataShapes, OnlyApproved, Untouched
<1> QED BY <1>3, <1>4, <1>5 DEF Data!DeletionIsWhole

LEMMA PrivacyFields ==
  ASSUME DataShapes, NEW i \in DOMAIN request
  PROVE  /\ i \in 1..Len(request) /\ request[i] \in Data!PrivacyRequest /\ request[i].user \in Users
         /\ request[i].type \in Data!PrivacyRequestType /\ request[i].status \in Data!PrivacyRequestStatus
<1>1. i \in 1..Len(request) /\ request[i] \in Data!PrivacyRequest BY DEF DataShapes
<1> QED BY <1>1 DEF Data!PrivacyRequest

LEMMA JobFields ==
  ASSUME PrivacyInv, NEW j \in jobs
  PROVE  /\ j \in Data!Job /\ j.id \in DOMAIN request /\ j.id \in 1..MaxRequests
         /\ j.tries \in 0..MaxRetries /\ j.running \in BOOLEAN /\ j.seats \in SUBSET Seats
         /\ request[j.id].user \in Users
<1>1. j \in Data!Job /\ j.id \in DOMAIN request BY DEF PrivacyInv, DataShapes, JobsApproved
<1> QED BY <1>1, PrivacyFields DEF PrivacyInv, Data!Job

\* A request's row changes in its status only.
LEMMA StatusChange ==
  ASSUME DataShapes, NEW i \in DOMAIN request, NEW status \in Data!PrivacyRequestStatus,
         request' = [request EXCEPT ![i].status = status]
  PROVE  /\ request' \in Seq(Data!PrivacyRequest) /\ DOMAIN request' = DOMAIN request
         /\ Len(request') = Len(request)
         /\ \A k \in DOMAIN request : /\ request'[k].user = request[k].user
                                      /\ request'[k].type = request[k].type
                                      /\ request'[k].status = IF k = i THEN status ELSE request[k].status
<1> DEFINE new == [request[i] EXCEPT !.status = status]
<1>1. new \in Data!PrivacyRequest /\ new.user = request[i].user /\ new.type = request[i].type
      /\ new.status = status
  BY PrivacyFields DEF Data!PrivacyRequest
<1>2. request' = [request EXCEPT ![i] = new] /\ request \in Seq(Data!PrivacyRequest)
  BY DEF DataShapes
<1> HIDE DEF new
<1> QED BY <1>1, <1>2

------------------------------------------------------------------------------
(***************************************************************************)
(* Requests, reviews and invitations.                                      *)
(***************************************************************************)
\* A user request has read: it is in flight, and excused may have grown.
LEMMA DataBeginKeeps ==
  ASSUME PrivacyInv, NEW r \in DataPending, pending' = pending \cup {r},
         UNCHANGED <<request, named, linked, jobs, approvals>>,
         spared \subseteq spared', spared' \subseteq Users \cup DOMAIN request,
         r.op = "review" /\ r.id \notin spared' =>
           /\ request[r.id].status = "pending"
           /\ \A o \in pending : o.op = "review" => o.id # r.id
  PROVE  PrivacyInv'
<1>1. DataShapes' BY DEF PrivacyInv, DataShapes, DataPending
<1>2. JobsApproved' /\ JobsKnowSeats'
  BY DEF PrivacyInv, JobsApproved, JobsKnowSeats
<1>3. ReviewsAlone' BY DEF PrivacyInv, ReviewsAlone
<1>4. Whole' BY DEF PrivacyInv, Whole, Erased, Data!BuildDataExport
<1>5. OnlyApproved' BY DEF PrivacyInv, OnlyApproved, Untouched, Data!BuildDataExport
<1> QED BY <1>1, <1>2, <1>3, <1>4, <1>5 DEF PrivacyInv

LEMMA BeginRequestKeeps ==
  ASSUME PrivacyInv, NEW u \in Users, NEW t \in Data!PrivacyRequestType, Data!BeginCreate(u, t)
  PROVE  PrivacyInv'
<1> DEFINE r == [op |-> "create", user |-> u, type |-> t]
<1>1. r \in DataPending /\ r.op = "create" BY DEF DataPending
<1>2. pending' = pending \cup {r} /\ UNCHANGED <<request, named, linked, jobs, approvals, spared>>
  BY DEF Data!BeginCreate, Data!Begin
<1> HIDE DEF r
<1> QED BY <1>1, <1>2, DataBeginKeeps DEF PrivacyInv, DataShapes

LEMMA BeginSeatKeeps ==
  ASSUME PrivacyInv, NEW s \in Seats, NEW u \in Users \cup {NoUser},
         Data!BeginSeat(s, u) \/ Data!BeginAccept(s, u)
  PROVE  PrivacyInv'
<1>1. PICK op \in {"insert", "accept"} :
        pending' = pending \cup {[op |-> op, seat |-> s, user |-> u]}
  BY DEF Data!BeginSeat, Data!BeginAccept, Data!Begin
<1> DEFINE r == [op |-> op, seat |-> s, user |-> u]
<1>2. r \in DataPending /\ r.op # "review" BY DEF DataPending
<1>3. pending' = pending \cup {r} /\ UNCHANGED <<request, named, linked, jobs, approvals, spared>>
  BY <1>1 DEF Data!BeginSeat, Data!BeginAccept
<1> HIDE DEF r
<1> QED BY <1>2, <1>3, DataBeginKeeps DEF PrivacyInv, DataShapes

LEMMA BeginReviewKeeps ==
  ASSUME PrivacyInv, NEW i \in DOMAIN request, NEW action \in {"approve", "reject"},
         Data!BeginReview(i, action)
  PROVE  PrivacyInv'
<1> DEFINE r == [op |-> "review", id |-> i, action |-> action]
<1>1. r \in DataPending /\ r.op = "review" /\ r.id = i BY DEF DataPending
<1>2. /\ pending' = pending \cup {r} /\ request[i].status = "pending"
      /\ UNCHANGED <<request, named, linked, jobs, approvals>>
      /\ spared' = IF \E o \in pending : o.op = "review" /\ o.id = i THEN spared \cup {i} ELSE spared
  BY DEF Data!BeginReview, Data!Begin
<1> HIDE DEF r
<1>3. spared \subseteq spared' /\ spared' \subseteq Users \cup DOMAIN request
  BY <1>2 DEF PrivacyInv, DataShapes
<1> QED BY <1>1, <1>2, <1>3, DataBeginKeeps

LEMMA CreateRequestKeeps ==
  ASSUME Data!PrivacyAssumption, PrivacyInv, NEW r \in pending, Data!CreateRequest(r)
  PROVE  PrivacyInv'
<1> DEFINE new == [user |-> r.user, type |-> r.type,
                   status |-> IF r.type = "data_export" THEN "approved" ELSE "pending"]
<1>1. r.user \in Users /\ r.type \in Data!PrivacyRequestType
  BY DEF PrivacyInv, DataShapes, DataPending, Data!CreateRequest
<1>2. new \in Data!PrivacyRequest /\ new.status # "completed"
  BY <1>1 DEF Data!PrivacyRequest, Data!PrivacyRequestStatus
<1>3. /\ request' = Append(request, new) /\ Len(request) < MaxRequests
      /\ pending' = pending \ {r} /\ UNCHANGED <<named, linked, jobs, approvals, spared>>
  BY DEF Data!CreateRequest
<1> HIDE DEF new
<1>4. request \in Seq(Data!PrivacyRequest) BY DEF PrivacyInv, DataShapes
<1>5. /\ request' \in Seq(Data!PrivacyRequest) /\ Len(request') <= MaxRequests
      /\ DOMAIN request \subseteq DOMAIN request'
      /\ \A i \in DOMAIN request : request'[i] = request[i]
      /\ \A i \in DOMAIN request' : i \in DOMAIN request \/ request'[i] = new
  BY <1>2, <1>3, <1>4 DEF Data!PrivacyAssumption
<1>6. DataShapes' BY <1>3, <1>5 DEF PrivacyInv, DataShapes, DataPending
<1>7. \A j \in jobs : j.id \in DOMAIN request BY JobFields
<1>8. \A o \in pending : o.op = "review" => o.id \in DOMAIN request BY DEF PrivacyInv, DataShapes, DataPending
<1>9. JobsApproved' /\ JobsKnowSeats'
  BY <1>3, <1>5, <1>7 DEF PrivacyInv, JobsApproved, JobsKnowSeats
<1>10. ReviewsAlone' BY <1>3, <1>5, <1>8 DEF PrivacyInv, ReviewsAlone
<1>11. Whole' BY <1>2, <1>3, <1>5 DEF PrivacyInv, Whole, Erased, Data!BuildDataExport
<1>12. OnlyApproved' BY <1>3, <1>5 DEF PrivacyInv, DataShapes, OnlyApproved, Untouched, Data!BuildDataExport
<1> QED BY <1>6, <1>9, <1>10, <1>11, <1>12 DEF PrivacyInv

LEMMA ReviewKeeps ==
  ASSUME Data!PrivacyAssumption, PrivacyInv, NEW r \in pending, Data!ReviewPrivacyRequest(r)
  PROVE  PrivacyInv'
<1> DEFINE i == r.id
           status == IF r.action = "approve" THEN "approved" ELSE "rejected"
           job == [id |-> i, tries |-> 0, running |-> FALSE, seats |-> {}]
<1>1. r.op = "review" /\ i \in DOMAIN request
  BY DEF PrivacyInv, DataShapes, DataPending, Data!ReviewPrivacyRequest
<1>2. /\ request' = [request EXCEPT ![i].status = status]
      /\ pending' = pending \ {r} /\ UNCHANGED <<named, linked, spared>>
      /\ \/ UNCHANGED <<approvals, jobs>>
         \/ approvals' = approvals \cup {i} /\ (jobs' = jobs \cup {job} \/ jobs' = jobs)
  BY DEF Data!ReviewPrivacyRequest, Data!ReviewRequest
<1>3. status \in Data!PrivacyRequestStatus /\ status \notin {"pending", "completed"}
  BY DEF Data!PrivacyRequestStatus
<1>4. job \in Data!Job /\ job.id = i /\ ~job.running
  <2>1. i \in 1..MaxRequests BY <1>1 DEF PrivacyInv, DataShapes, Data!PrivacyAssumption
  <2> QED BY <2>1 DEF Data!Job, Data!PrivacyAssumption
<1> HIDE DEF i, status, job
<1>5. /\ request' \in Seq(Data!PrivacyRequest) /\ DOMAIN request' = DOMAIN request
      /\ Len(request') = Len(request)
      /\ \A k \in DOMAIN request : /\ request'[k].user = request[k].user
                                   /\ request'[k].status = IF k = i THEN status ELSE request[k].status
  BY <1>1, <1>2, <1>3, StatusChange DEF PrivacyInv
<1>6. DataShapes' BY <1>1, <1>2, <1>4, <1>5 DEF PrivacyInv, DataShapes, DataPending
<1>7. \A j \in jobs : j.id \in DOMAIN request BY JobFields
<1>8. i \in spared \/ request[i].status = "pending"
  BY <1>1 DEF PrivacyInv, ReviewsAlone, i
<1>9. JobsApproved'
  BY <1>1, <1>2, <1>3, <1>4, <1>5, <1>7 DEF PrivacyInv, JobsApproved
<1>10. JobsKnowSeats'
  BY <1>2, <1>4, <1>5, <1>7 DEF PrivacyInv, JobsKnowSeats
<1>11. ReviewsAlone'
  <2>1. \A o \in pending : o.op = "review" => o.id \in DOMAIN request
    BY DEF PrivacyInv, DataShapes, DataPending
  <2>2. \A o \in pending \ {r} : o.op = "review" /\ o.id \notin spared => o.id # i
    BY <1>1 DEF PrivacyInv, ReviewsAlone, i
  <2> QED BY <1>2, <1>5, <2>1, <2>2 DEF PrivacyInv, ReviewsAlone
<1>12. Whole'
  BY <1>2, <1>3, <1>5 DEF PrivacyInv, Whole, Erased, Data!BuildDataExport
<1>13. OnlyApproved'
  <2> SUFFICES ASSUME NEW u \in Users \ spared, ~Untouched(u)
               PROVE  \E k \in approvals' : /\ request'[k].user = u
                                            /\ request'[k].status = "completed" \/ k \in spared
    BY <1>2 DEF OnlyApproved, Untouched, Data!BuildDataExport
  <2>1. PICK k \in approvals : request[k].user = u /\ (request[k].status = "completed" \/ k \in spared)
    BY DEF PrivacyInv, OnlyApproved
  <2>2. k \in DOMAIN request /\ k \in approvals' BY <1>2 DEF PrivacyInv, DataShapes
  <2> QED BY <1>5, <1>8, <2>1, <2>2
<1> QED BY <1>6, <1>9, <1>10, <1>11, <1>12, <1>13 DEF PrivacyInv

LEMMA CommitSeatKeeps ==
  ASSUME Data!PrivacyAssumption, PrivacyInv, NEW r \in pending, Data!CommitSeat(r)
  PROVE  PrivacyInv'
<1> DEFINE s == r.seat
           u == r.user
<1>1. s \in Seats /\ u \in Users \cup {NoUser} /\ NoUser \notin Users
  BY DEF PrivacyInv, DataShapes, DataPending, Data!CommitSeat, Data!PrivacyAssumption
<1>2. /\ linked' = [linked EXCEPT ![s] = u] /\ named' = named \cup {s}
      /\ pending' = pending \ {r} /\ UNCHANGED <<request, jobs, approvals>>
      /\ spared' = spared \/ spared' = spared \cup ({u} \ {NoUser})
      /\ u \notin spared' /\ u # NoUser =>
           /\ u \in named
           /\ \A j \in jobs : j.running => request[j.id].user # u /\ s \notin j.seats
  BY DEF Data!CommitSeat
<1> HIDE DEF s, u
<1>3. \A t \in Seats : linked'[t] = IF t = s THEN u ELSE linked[t]
  BY <1>1, <1>2 DEF PrivacyInv, DataShapes
<1>4. DataShapes' BY <1>1, <1>2 DEF PrivacyInv, DataShapes, DataPending
<1>5. JobsApproved' BY <1>2 DEF PrivacyInv, JobsApproved
<1>6. JobsKnowSeats'
  <2>1. \A j \in jobs : request[j.id].user \in Users BY JobFields
  <2> QED BY <1>1, <1>2, <1>3, <2>1 DEF PrivacyInv, JobsKnowSeats
<1>7. ReviewsAlone' BY <1>2 DEF PrivacyInv, ReviewsAlone
<1>8. \A v \in Users : Data!BuildDataExport(v)' \subseteq Data!BuildDataExport(v) \cup (IF v = u THEN {s} ELSE {})
  BY <1>1, <1>2, <1>3 DEF Data!BuildDataExport
<1>9. \A v \in Users \ {u} : s \notin Data!BuildDataExport(v)'
  BY <1>1, <1>3 DEF Data!BuildDataExport, Data!PrivacyAssumption
<1>10. Whole'
  <2> SUFFICES ASSUME NEW i \in DOMAIN request, request[i].status = "completed",
                      i \notin spared', request[i].user \notin spared'
               PROVE  Erased(request[i].user)'
    BY <1>2 DEF Whole
  <2>1. Erased(request[i].user) /\ request[i].user \in Users
    BY <1>2, PrivacyFields DEF PrivacyInv, Whole
  <2>2. request[i].user # u BY <1>1, <1>2, <2>1 DEF Erased, Data!BuildDataExport
  <2> QED BY <1>2, <1>8, <1>9, <2>1, <2>2 DEF Erased
<1>11. OnlyApproved'
  BY <1>1, <1>2, <1>8 DEF PrivacyInv, OnlyApproved, Untouched
<1> QED BY <1>4, <1>5, <1>6, <1>7, <1>10, <1>11 DEF PrivacyInv

------------------------------------------------------------------------------
(***************************************************************************)
(* The job.                                                                *)
(***************************************************************************)
\* A delivery j goes on as k, or is gone.
LEMMA JobStep ==
  ASSUME PrivacyInv, NEW j \in jobs, NEW more \in SUBSET Data!Job, jobs' = (jobs \ {j}) \cup more,
         \A k \in more : k.id = j.id, \A k \in more : k.running =>
           k.seats = {s \in Seats : linked[s] = request[j.id].user},
         UNCHANGED <<request, named, linked, pending, approvals, spared>>
  PROVE  PrivacyInv'
<1>1. DataShapes' BY DEF PrivacyInv, DataShapes, DataPending
<1>2. JobsApproved' BY DEF PrivacyInv, JobsApproved
<1>3. JobsKnowSeats' BY DEF PrivacyInv, JobsKnowSeats
<1>4. ReviewsAlone' BY DEF PrivacyInv, ReviewsAlone
<1>5. Whole' /\ OnlyApproved'
  BY DEF PrivacyInv, Whole, OnlyApproved, Erased, Untouched, Data!BuildDataExport
<1> QED BY <1>1, <1>2, <1>3, <1>4, <1>5 DEF PrivacyInv

LEMMA JobStartKeeps ==
  ASSUME PrivacyInv, NEW j \in jobs, Data!StartDeletion(j)
  PROVE  PrivacyInv'
<1> DEFINE k == [j EXCEPT !.running = TRUE, !.seats = {s \in Seats : linked[s] = request[j.id].user}]
<1>1. k \in Data!Job /\ k.id = j.id /\ k.seats = {s \in Seats : linked[s] = request[j.id].user}
  BY JobFields DEF Data!Job
<1>2. jobs' = (jobs \ {j}) \cup {k} /\ UNCHANGED <<request, named, linked, pending, approvals, spared>>
  BY DEF Data!StartDeletion
<1> HIDE DEF k
<1> DEFINE more == {k}
<1>3. more \in SUBSET Data!Job /\ \A m \in more : m = k BY <1>1
<1>4. jobs' = (jobs \ {j}) \cup more BY <1>2
<1> HIDE DEF more
<1> QED BY <1>1, <1>2, <1>3, <1>4, JobStep

LEMMA FailKeeps ==
  ASSUME Data!PrivacyAssumption, PrivacyInv, NEW j \in jobs, Data!FailDeletion(j)
  PROVE  PrivacyInv'
<1> DEFINE k == [j EXCEPT !.running = FALSE, !.tries = @ + 1, !.seats = {}]
           more == IF j.tries = MaxRetries THEN {} ELSE {k}
<1>1. j.tries # MaxRetries => j.tries + 1 \in 0..MaxRetries
  BY JobFields DEF Data!PrivacyAssumption
<1>2. j.tries # MaxRetries => k \in Data!Job
  BY <1>1, JobFields DEF Data!Job
<1>3. k.id = j.id /\ ~k.running BY JobFields DEF Data!Job
<1>4. jobs' = (jobs \ {j}) \cup more /\ UNCHANGED <<request, named, linked, pending, approvals, spared>>
  BY DEF Data!FailDeletion
<1>5. more \in SUBSET Data!Job /\ \A m \in more : m.id = j.id /\ ~m.running BY <1>2, <1>3
<1> HIDE DEF k, more
<1> QED BY <1>4, <1>5, JobStep

LEMMA DeletionDoneKeeps ==
  ASSUME Data!PrivacyAssumption, PrivacyInv, NEW j \in jobs, Data!FinishDeletion(j)
  PROVE  PrivacyInv'
<1> DEFINE i == j.id
           u == request[i].user
           k == [j EXCEPT !.running = FALSE, !.seats = {}]
<1>1. /\ j.running /\ i \in DOMAIN request /\ u \in Users /\ j.seats \in SUBSET Seats
      /\ i \in approvals
  BY JobFields DEF Data!FinishDeletion, PrivacyInv, JobsApproved
<1>2. /\ request' = [request EXCEPT ![i].status = "completed"] /\ named' = named \ (j.seats \cup {u})
      /\ jobs' = jobs \ {j} \/ jobs' = (jobs \ {j}) \cup {k}
      /\ UNCHANGED <<linked, pending, approvals, spared>>
  BY DEF Data!FinishDeletion
<1>3. k \in Data!Job /\ k.id = i /\ ~k.running BY JobFields DEF Data!Job
<1>4. /\ request' \in Seq(Data!PrivacyRequest) /\ DOMAIN request' = DOMAIN request
      /\ Len(request') = Len(request)
      /\ \A n \in DOMAIN request : /\ request'[n].user = request[n].user
                                   /\ request'[n].status = IF n = i THEN "completed" ELSE request[n].status
  BY <1>1, <1>2, StatusChange DEF PrivacyInv, Data!PrivacyRequestStatus
<1>5. \A s \in Seats : /\ linked[s] = u => s \in j.seats \/ u \in spared
                       /\ s \in j.seats => linked[s] \in {u, NoUser} \cup spared
  BY <1>1 DEF PrivacyInv, JobsKnowSeats
<1>6. \A n \in jobs : n.id \in DOMAIN request BY JobFields
<1>7. i \in spared \/ \A r \in pending : r.op = "review" => r.id # i
  BY <1>1 DEF PrivacyInv, ReviewsAlone, JobsApproved
<1> HIDE DEF i, k
<1>8. DataShapes' BY <1>2, <1>3, <1>4 DEF PrivacyInv, DataShapes, DataPending
<1>9. JobsApproved' BY <1>1, <1>2, <1>3, <1>4, <1>6 DEF PrivacyInv, JobsApproved
<1>10. JobsKnowSeats' BY <1>2, <1>3, <1>4, <1>6 DEF PrivacyInv, JobsKnowSeats
<1>11. ReviewsAlone'
  <2>1. \A r \in pending : r.op = "review" => r.id \in DOMAIN request
    BY DEF PrivacyInv, DataShapes, DataPending
  <2> QED BY <1>2, <1>4, <1>7, <2>1 DEF PrivacyInv, ReviewsAlone
<1>12. Whole'
  <2> SUFFICES ASSUME NEW n \in DOMAIN request, request'[n].status = "completed",
                      n \notin spared, request[n].user \notin spared
               PROVE  Data!BuildDataExport(request[n].user) \cap named' = {}
    BY <1>2, <1>4 DEF Whole, Erased, Data!BuildDataExport
  <2>1. CASE request[n].user = u
    BY <1>2, <1>5, <2>1 DEF Data!BuildDataExport
  <2>2. CASE request[n].user # u
    <3>1. request[n].status = "completed" BY <1>4, <2>2 DEF i
    <3> QED BY <3>1, <1>2 DEF PrivacyInv, Whole, Erased
  <2> QED BY <2>1, <2>2
<1>13. OnlyApproved'
  <2> SUFFICES ASSUME NEW v \in Users \ spared
               PROVE  \/ Data!BuildDataExport(v) \subseteq named'
                      \/ \E n \in approvals : /\ request'[n].user = v
                                              /\ request'[n].status = "completed" \/ n \in spared
    BY <1>2 DEF OnlyApproved, Untouched, Data!BuildDataExport
  <2>1. CASE v = u BY <1>1, <1>4, <2>1 DEF i
  <2>2. CASE v # u
    <3>1. Data!BuildDataExport(v) \cap (j.seats \cup {u}) = {}
      BY <1>1, <1>5, <2>2 DEF Data!BuildDataExport, Data!PrivacyAssumption
    <3>2. CASE Untouched(v) BY <1>2, <3>1, <3>2 DEF Untouched
    <3>3. CASE ~Untouched(v)
      <4>1. PICK n \in approvals : request[n].user = v /\ (request[n].status = "completed" \/ n \in spared)
        BY <3>3 DEF PrivacyInv, OnlyApproved
      <4>2. n \in DOMAIN request BY DEF PrivacyInv, DataShapes
      <4> QED BY <1>4, <4>1, <4>2
    <3> QED BY <3>2, <3>3
  <2> QED BY <2>1, <2>2
<1> QED BY <1>8, <1>9, <1>10, <1>11, <1>12, <1>13 DEF PrivacyInv

------------------------------------------------------------------------------
LEMMA DataInit == Data!PrivacyAssumption /\ Data!Init => PrivacyInv
<1> SUFFICES ASSUME Data!PrivacyAssumption, Data!Init PROVE PrivacyInv OBVIOUS
<1> USE DEF Data!Init
<1>1. DataShapes BY DEF DataShapes, Data!PrivacyAssumption
<1>2. JobsApproved /\ JobsKnowSeats /\ ReviewsAlone /\ Whole
  BY DEF JobsApproved, JobsKnowSeats, ReviewsAlone, Whole
<1>3. OnlyApproved BY DEF OnlyApproved, Untouched, Data!BuildDataExport, Data!PrivacyAssumption
<1> QED BY <1>1, <1>2, <1>3 DEF PrivacyInv

LEMMA DataNext == Data!PrivacyAssumption /\ PrivacyInv /\ [Data!Next]_dataVars => PrivacyInv'
<1> SUFFICES ASSUME Data!PrivacyAssumption, PrivacyInv, [Data!Next]_dataVars PROVE PrivacyInv' OBVIOUS
<1>1. CASE \E u \in Users, t \in Data!PrivacyRequestType : Data!BeginCreate(u, t) BY <1>1, BeginRequestKeeps
<1>2. CASE \E s \in Seats, u \in Users \cup {NoUser} : Data!BeginSeat(s, u) \/ Data!BeginAccept(s, u)
  BY <1>2, BeginSeatKeeps
<1>3. CASE \E i \in 1..MaxRequests, action \in {"approve", "reject"} : Data!BeginReview(i, action)
  BY <1>3, BeginReviewKeeps DEF Data!BeginReview
<1>4. CASE \E r \in pending : Data!CreateRequest(r) \/ Data!ReviewPrivacyRequest(r) \/ Data!CommitSeat(r)
  BY <1>4, CreateRequestKeeps, ReviewKeeps, CommitSeatKeeps
<1>5. CASE \E j \in jobs : Data!StartDeletion(j) \/ Data!FinishDeletion(j) \/ Data!FailDeletion(j)
  BY <1>5, JobStartKeeps, DeletionDoneKeeps, FailKeeps
<1>6. CASE UNCHANGED dataVars
  <2>1. DataShapes' BY <1>6 DEF dataVars, PrivacyInv, DataShapes, DataPending
  <2>2. (JobsApproved /\ JobsKnowSeats /\ ReviewsAlone)'
    BY <1>6 DEF dataVars, PrivacyInv, JobsApproved, JobsKnowSeats, ReviewsAlone
  <2>3. (Whole /\ OnlyApproved)'
    BY <1>6 DEF dataVars, PrivacyInv, Whole, OnlyApproved, Erased, Untouched, Data!BuildDataExport
  <2> QED BY <2>1, <2>2, <2>3 DEF PrivacyInv
<1> QED BY <1>1, <1>2, <1>3, <1>4, <1>5, <1>6
        DEF Data!Next, Data!BeginInvite, Data!BeginCreateMatter

\* The rows, the jobs and the requests in flight keep their form
\* (privacy_requests, the arguments of process_deletion_request).
------------------------------------------------------------------------------
(* The theorems *)

LEMMA AccessSteps ==
  /\ FirmInit => LoginInv /\ TeamInv /\ ApiInv /\ PrivacyInv
  /\ LoginInv /\ [FirmNext]_allVars => LoginInv'
  /\ TeamInv /\ [FirmNext]_allVars => TeamInv'
  /\ ApiInv /\ [FirmNext]_allVars => ApiInv'
  /\ PrivacyInv /\ [FirmNext]_allVars => PrivacyInv'
<1>1. ASSUME FirmInit PROVE LoginInv /\ TeamInv /\ ApiInv /\ PrivacyInv
  <2>1. Login!Init /\ Team!Init /\ Api!Init /\ Data!Init BY <1>1 DEF FirmInit
  <2>2. LoginInv BY <2>1, LoginInit
  <2>3. TeamInv BY <2>1, TeamInit, ComponentsAssumption
  <2>4. ApiInv BY <2>1, ApiInit, ComponentsAssumption
  <2>5. PrivacyInv BY <2>1, DataInit, ComponentsAssumption
  <2> QED BY <2>2, <2>3, <2>4, <2>5
<1>2. ASSUME [FirmNext]_allVars
      PROVE  /\ [Login!Next]_loginVars /\ [Team!Next]_teamVars
             /\ [Api!Next]_apiVars /\ [Data!Next]_dataVars
  BY <1>2 DEF FirmNext, allVars
<1>3. ASSUME LoginInv, [FirmNext]_allVars PROVE LoginInv' BY <1>2, <1>3, LoginNext
<1>4. ASSUME TeamInv, [FirmNext]_allVars PROVE TeamInv'
  BY <1>2, <1>4, TeamNext, ComponentsAssumption
<1>5. ASSUME ApiInv, [FirmNext]_allVars PROVE ApiInv'
  BY <1>2, <1>5, ApiNext, ComponentsAssumption
<1>6. ASSUME PrivacyInv, [FirmNext]_allVars PROVE PrivacyInv'
  BY <1>2, <1>6, DataNext, ComponentsAssumption
<1> QED BY <1>1, <1>3, <1>4, <1>5, <1>6

LEMMA AccessInvariant == FirmSpec => [](LoginInv /\ TeamInv /\ ApiInv /\ PrivacyInv)
  BY AccessSteps, PTL DEF FirmSpec

\* However readings and writings interleave: nobody has two seats and somebody
\* is in charge, a replaced or revoked key is refused, and the members of a firm
\* that enforces single sign-on can sign in.
THEOREM AccessIsKept == FirmSpec => []AccessKept
<1>1. TeamInv /\ ApiInv /\ LoginInv => AccessKept
  BY TeamImplies, ApiImplies, LoginImplies, ComponentsAssumption DEF AccessKept
<1> QED BY <1>1, AccessInvariant, PTL

\* A completed deletion leaves no personal data of its user, and only approved
\* requests delete any, however the job is lost, repeated, retried or overtaken:
\* but for users who were given a seat, by an invitation, an answer to one or a
\* new matter, while a job was reading or had read theirs, and for requests
\* reviewed twice at once.
THEOREM DeletionsAreWhole == FirmSpec => []DeletionIsWhole
<1>1. PrivacyInv => DeletionIsWhole BY DataImplies DEF DeletionIsWhole
<1> QED BY <1>1, AccessInvariant, PTL
=============================================================================
