---------------------------- MODULE AroundFirmProofs ----------------------------
(***************************************************************************)
(* Proofs about AroundFirm: the connection to a provider, what the plan    *)
(* limits, the webhooks a firm registers, what the language model is asked *)
(* and what it commits, and then the composition.  A behaviour of the firm *)
(* is, seen through the variables of one component, a behaviour of that    *)
(* component.                                                              *)
(*                                                                         *)
(* A request to a provider holds a copy of the row.  SyncInv says what a   *)
(* fresh copy is worth (CopiesAgree): all but the expiry, which time       *)
(* changes, are still the row's, and nothing the map lists is missing in   *)
(* the copy; an OAuth state that led to a connection is no longer the      *)
(* row's, and the next one is new (StatesSpent); status and tokens differ  *)
(* only as a lapse tells (TokensTold).  LimitInv, HookInv and AiInv say of *)
(* a creation on its way that there is room for it, HookInv of a delivery  *)
(* that the count it read is the row's, and AiInv of the two windows that  *)
(* they hold every call of the last hour (WindowsAgree).                   *)
(***************************************************************************)
EXTENDS SubscriptionProofs, AccessProofs

------------------------------------------------------------------------------
(* The connection to a provider *)

Pushed == {i \in Items : copies[i] > 0}
Active == {c \in Calls : call[c] # Idle}

Shapes == /\ conn \in Connection /\ call \in [Calls -> {Idle} \cup Request]
          /\ items \subseteq Items /\ copies \in [Items -> 0..MaxCopies]
          /\ states \in 0..MaxStates /\ used \in [1..MaxStates -> 0..2] /\ disturbed \in BOOLEAN
          /\ lapses \subseteq {"swallowed", "tokenless"}

\* A fresh copy is the row, but for the expiry; the map has lost nothing of it.
CopiesAgree == \A c \in Active : call[c].fresh =>
  /\ call[c].read.status = conn.status   /\ call[c].read.tokens = conn.tokens
  /\ call[c].read.state = conn.state     /\ call[c].read.section = conn.section
  /\ call[c].read.map = conn.map         /\ conn.map \subseteq call[c].known

\* Every map lists only what was pushed.
MapsTrue == /\ conn.map \subseteq Pushed
            /\ \A c \in Active : call[c].read.map \subseteq Pushed /\ call[c].known \subseteq Pushed

\* OAuth states are numbered as they are made; a callback holds one.
StatesCounted == /\ conn.state <= states /\ \A s \in 1..MaxStates : used[s] > 0 => s <= states
                 /\ \A c \in Active : /\ call[c].read.state <= states
                                      /\ call[c].step = "callback" => call[c].read.state # 0

StatesSpent == ~disturbed => \A s \in 1..MaxStates : used[s] <= 1 /\ (used[s] > 0 => conn.state # s)

\* A row's status and tokens agree, or a lapse tells why not.
Accounted(r, l) == /\ r.status = "disconnected" /\ r.tokens => "swallowed" \in l
                   /\ r.status = "connected" /\ ~r.tokens => "tokenless" \in l
TokensTold == ~disturbed => Accounted(conn, lapses)
\* Who synchronises has read tokens.
TokensRead == \A c \in Active : call[c].step \in {"refresh", "sync"} => call[c].read.tokens

SyncInv == /\ Shapes /\ CopiesAgree /\ MapsTrue /\ StatesCounted /\ StatesSpent
           /\ TokensTold /\ TokensRead

LEMMA SyncImplies == SyncInv => TypeOK /\ ConnectionHonest
<1> SUFFICES ASSUME SyncInv PROVE TypeOK /\ ConnectionHonest OBVIOUS
<1>1. TypeOK BY DEF SyncInv, Shapes, TypeOK
<1>2. ConnectionHonest
  BY DEF SyncInv, Shapes, Connection, MapsTrue, Pushed, StatesSpent, TokensTold,
         Accounted, ConnectionHonest
<1> QED BY <1>1, <1>2

LEMMA SyncInit == ASSUME SyncAssumption, Init PROVE SyncInv
<1>1. conn = [status |-> "disconnected", tokens |-> FALSE, expired |-> FALSE,
              state |-> 0, section |-> FALSE, map |-> {}] /\ states = 0 /\ disturbed = FALSE
  BY DEF Init
<1>2. conn \in Connection BY <1>1 DEF Connection, Status, SyncAssumption
<1>3. call \in [Calls -> {Idle} \cup Request] /\ items \subseteq Items BY DEF Init
<1>4. copies \in [Items -> 0..MaxCopies] /\ used \in [1..MaxStates -> 0..2]
  BY DEF Init, SyncAssumption
<1>8. states \in 0..MaxStates BY DEF Init, SyncAssumption
<1>9. disturbed \in BOOLEAN /\ lapses \subseteq {"swallowed", "tokenless"} BY DEF Init
<1>5. Shapes BY <1>2, <1>3, <1>4, <1>8, <1>9 DEF Shapes
<1>6. Active = {} BY DEF Init, Active
<1>7. \A s \in 1..MaxStates : used[s] = 0 BY DEF Init
<1> QED BY <1>1, <1>5, <1>6, <1>7
    DEF SyncInv, CopiesAgree, MapsTrue, StatesCounted, StatesSpent, TokensTold, Accounted, TokensRead

------------------------------------------------------------------------------
(***************************************************************************)
(* Rows and requests.                                                      *)
(***************************************************************************)
\* The fields of a row.
LEMMA ConnFields ==
  ASSUME NEW r \in Connection
  PROVE  /\ r.status \in Status /\ r.tokens \in BOOLEAN /\ r.expired \in BOOLEAN
         /\ r.state \in 0..MaxStates /\ r.section \in BOOLEAN /\ r.map \in SUBSET Items
         /\ DOMAIN r = {"status", "tokens", "expired", "state", "section", "map"}
BY DEF Connection

LEMMA CallFields ==
  ASSUME Shapes, NEW c \in Active
  PROVE  /\ c \in Calls /\ call[c] \in Request /\ call[c].read \in Connection
         /\ call[c].known \in SUBSET Items /\ call[c].fresh \in BOOLEAN
         /\ call[c].tokens \in {"kept", "new", "none"}
<1>1. c \in Calls /\ call[c] \in Request BY DEF Shapes, Active
<1> QED BY <1>1 DEF Request

\* A request is active when its step says so.
LEMMA StepActive ==
  ASSUME NEW c \in Calls, call[c].step # "idle"
  PROVE  c \in Active
BY DEF Active, Idle

\* What Write leaves in the row, field by field.
LEMMA WriteFields ==
  ASSUME conn \in Connection, NEW c, call[c].read \in Connection, NEW new \in Connection,
         NEW always, Write(c, new, always)
  PROVE  /\ conn' \in Connection
         /\ conn'.status  = IF "status" \in always \/ new.status # call[c].read.status
                            THEN new.status ELSE conn.status
         /\ conn'.tokens  = IF "tokens" \in always \/ new.tokens # call[c].read.tokens
                            THEN new.tokens ELSE conn.tokens
         /\ conn'.state   = IF "state" \in always \/ new.state # call[c].read.state
                            THEN new.state ELSE conn.state
         /\ conn'.section = IF "section" \in always \/ new.section # call[c].read.section
                            THEN new.section ELSE conn.section
         /\ conn'.map     = IF "map" \in always \/ new.map # call[c].read.map
                            THEN new.map ELSE conn.map
<1> DEFINE read == call[c].read
           keys == {"status", "tokens", "expired", "state", "section", "map"}
<1>1. conn' = [k \in keys |-> IF k \in always \/ new[k] # read[k] THEN new[k] ELSE conn[k]]
  BY ConnFields DEF Write
<1> HIDE DEF read
<1>2. \A k \in keys : conn'[k] = new[k] \/ conn'[k] = conn[k] BY <1>1
<1>3. conn'.status \in Status /\ conn'.tokens \in BOOLEAN /\ conn'.expired \in BOOLEAN
      /\ conn'.state \in 0..MaxStates /\ conn'.section \in BOOLEAN /\ conn'.map \in SUBSET Items
  BY <1>2, ConnFields
<1>4. conn' = [status |-> conn'.status, tokens |-> conn'.tokens, expired |-> conn'.expired,
               state |-> conn'.state, section |-> conn'.section, map |-> conn'.map]
  BY <1>1
<1>5. conn' \in Connection BY <1>3, <1>4 DEF Connection
<1> QED BY <1>1, <1>5 DEF read

\* One request is gone and the others' copies are old from then on.
LEMMA StaledFields ==
  ASSUME Shapes, NEW gone,
         call' = [d \in Calls |-> IF d = gone \/ call[d] = Idle THEN Idle
                                  ELSE [call[d] EXCEPT !.fresh = FALSE]]
  PROVE  /\ call' \in [Calls -> {Idle} \cup Request]
         /\ \A d \in Active' : /\ d \in Active /\ ~call'[d].fresh
                               /\ call'[d].read = call[d].read /\ call'[d].known = call[d].known
                               /\ call'[d].step = call[d].step
<1>1. ASSUME NEW d \in Active, d # gone
      PROVE  /\ call'[d] \in Request /\ ~call'[d].fresh
             /\ call'[d].read = call[d].read /\ call'[d].known = call[d].known
             /\ call'[d].step = call[d].step
  <2>1. call[d] \in Request /\ call'[d] = [call[d] EXCEPT !.fresh = FALSE]
    BY <1>1, CallFields DEF Active
  <2>2. ASSUME NEW q \in Request
        PROVE  /\ [q EXCEPT !.fresh = FALSE] \in Request /\ ~[q EXCEPT !.fresh = FALSE].fresh
               /\ [q EXCEPT !.fresh = FALSE].read = q.read
               /\ [q EXCEPT !.fresh = FALSE].known = q.known
               /\ [q EXCEPT !.fresh = FALSE].step = q.step
    BY DEF Request
  <2> QED BY <2>1, <2>2
<1>2. ASSUME NEW d \in Calls, d = gone \/ d \notin Active PROVE call'[d] = Idle
  BY <1>2 DEF Active
<1>3. \A d \in Calls : call'[d] \in {Idle} \cup Request BY <1>1, <1>2
<1>4. call' \in [Calls -> {Idle} \cup Request] BY <1>3
<1>5. \A d \in Active' : d \in Active /\ d # gone BY <1>2 DEF Active
<1> QED BY <1>1, <1>4, <1>5

\* A request that writes: of what it found fresh, the row is then what it
\* meant; of anything else nothing is promised but the map and the numbers.
LEMMA FinishKeeps ==
  ASSUME SyncAssumption, SyncInv, NEW c \in Active, NEW new \in Connection, NEW always,
         Finish(c, new, always), new.map \subseteq Pushed, new.state <= states,
         used' \in [1..MaxStates -> 0..2], \A s \in 1..MaxStates : used'[s] > 0 => s <= states,
         lapses' \subseteq {"swallowed", "tokenless"},
         call[c].fresh /\ ~disturbed =>
           /\ \A s \in 1..MaxStates : used'[s] <= 1 /\ (used'[s] > 0 => new.state # s)
           /\ Accounted(new, lapses')
  PROVE  SyncInv'
<1>1. Write(c, new, always) /\ call' = Staled(c, [call EXCEPT ![c] = Idle])
      /\ UNCHANGED <<items, copies, states>> /\ disturbed' = (disturbed \/ ~call[c].fresh)
  BY DEF Finish, Write
<1>2. Shapes /\ c \in Calls /\ call[c].read \in Connection /\ conn \in Connection
      /\ call[c].fresh \in BOOLEAN /\ disturbed \in BOOLEAN
  BY CallFields DEF SyncInv, Shapes
<1>3. conn' \in Connection BY <1>1, <1>2, WriteFields
<1>4. conn'.map \in {new.map, conn.map} /\ conn'.state \in {new.state, conn.state}
  BY <1>1, <1>2, WriteFields
<1>5. call[c].fresh => conn'.status = new.status /\ conn'.tokens = new.tokens
                         /\ conn'.state = new.state
  BY <1>1, <1>2, WriteFields DEF SyncInv, CopiesAgree
<1>6. call' = [d \in Calls |-> IF d = c \/ call[d] = Idle THEN Idle
                               ELSE [call[d] EXCEPT !.fresh = FALSE]]
  <2> DEFINE ended == [call EXCEPT ![c] = Idle]
  <2>1. call' = [d \in Calls |-> IF d # c /\ ended[d] # Idle
                                 THEN [ended[d] EXCEPT !.fresh = FALSE] ELSE ended[d]]
    BY <1>1 DEF Staled
  <2>2. \A d \in Calls : ended[d] = IF d = c THEN Idle ELSE call[d] BY <1>2 DEF Shapes
  <2> HIDE DEF ended
  <2> QED BY <2>1, <2>2
<1>7. call' \in [Calls -> {Idle} \cup Request] BY <1>2, <1>6, StaledFields
<1>8. \A d \in Active' : /\ d \in Active /\ ~call'[d].fresh
                         /\ call'[d].read = call[d].read /\ call'[d].known = call[d].known
                         /\ call'[d].step = call[d].step
  BY <1>2, <1>6, StaledFields
<1>9. Shapes' BY <1>1, <1>2, <1>3, <1>7 DEF Shapes
<1>10. CopiesAgree' BY <1>8 DEF CopiesAgree
<1>11. Pushed' = Pushed BY <1>1 DEF Pushed
<1>12. MapsTrue' BY <1>4, <1>8, <1>11 DEF SyncInv, MapsTrue
<1>13. StatesCounted' BY <1>1, <1>4, <1>8 DEF SyncInv, StatesCounted
<1>14. StatesSpent' BY <1>1, <1>2, <1>5 DEF StatesSpent
<1>15. TokensTold' BY <1>1, <1>2, <1>5 DEF TokensTold, Accounted
<1>16. TokensRead' BY <1>8 DEF SyncInv, TokensRead
<1> QED BY <1>9, <1>10, <1>12, <1>13, <1>14, <1>15, <1>16 DEF SyncInv

\* A request reads the row.
LEMMA BeginKeeps ==
  ASSUME SyncInv, NEW c \in Calls, NEW step \in {"callback", "refresh", "sync", "disconnect", "settings"},
         Begin(c, step), step = "callback" => conn.state # 0,
         step \in {"refresh", "sync"} => conn.tokens
  PROVE  SyncInv'
<1> DEFINE r == [step |-> step, read |-> conn, known |-> conn.map, tokens |-> "kept",
                 fresh |-> TRUE]
<1>1. /\ call' = [call EXCEPT ![c] = r] /\ UNCHANGED <<conn, items, copies, states, used, lapses, disturbed>>
  BY DEF Begin
<1>2. Shapes /\ conn \in Connection /\ conn.map \in SUBSET Items
  BY ConnFields DEF SyncInv, Shapes
<1>3. r \in Request /\ r.step = step /\ r.read = conn /\ r.known = conn.map
  BY <1>2 DEF Request
<1> HIDE DEF r
<1>4. call' \in [Calls -> {Idle} \cup Request] BY <1>1, <1>2, <1>3 DEF Shapes
<1>5. call'[c] = r /\ \A d \in Calls : d # c => call'[d] = call[d]
  BY <1>1, <1>2 DEF Shapes
<1>6. \A d \in Active' : d = c \/ (d \in Active /\ call'[d] = call[d]) BY <1>5 DEF Active
<1>7. Shapes' BY <1>1, <1>2, <1>4 DEF Shapes
<1>8. CopiesAgree' BY <1>1, <1>3, <1>5, <1>6 DEF SyncInv, CopiesAgree
<1>9. Pushed' = Pushed BY <1>1 DEF Pushed
<1>10. MapsTrue' BY <1>1, <1>3, <1>5, <1>6, <1>9 DEF SyncInv, MapsTrue
<1>11. StatesCounted' BY <1>1, <1>3, <1>5, <1>6 DEF SyncInv, StatesCounted
<1>12. StatesSpent' /\ TokensTold' BY <1>1 DEF SyncInv, StatesSpent, TokensTold
<1>13. TokensRead' BY <1>1, <1>3, <1>5, <1>6 DEF SyncInv, TokensRead
<1> QED BY <1>7, <1>8, <1>10, <1>11, <1>12, <1>13 DEF SyncInv

------------------------------------------------------------------------------
(***************************************************************************)
(* OAuth.                                                                  *)
(***************************************************************************)
\* Nobody is fresh after a new state is stored.
LEMMA InitiateOauthKeeps == ASSUME SyncAssumption, SyncInv, InitiateOauth PROVE SyncInv'
<1>1. /\ states < MaxStates /\ states' = states + 1 /\ call' = Staled(0, call)
      /\ conn' = [conn EXCEPT !.status = "pending", !.state = states + 1]
      /\ UNCHANGED <<items, copies, used, lapses, disturbed>>
  BY DEF InitiateOauth
<1>2. Shapes /\ conn \in Connection /\ states \in Nat /\ MaxStates \in Nat
      /\ call \in [Calls -> {Idle} \cup Request]
  BY DEF SyncInv, Shapes, SyncAssumption
<1>3. states + 1 \in 1..MaxStates BY <1>1, <1>2
<1>4. conn' \in Connection /\ conn'.state = states + 1 /\ conn'.map = conn.map
      /\ conn'.status = "pending" /\ conn'.tokens = conn.tokens
  <2>1. states + 1 \in 0..MaxStates /\ "pending" \in Status BY <1>2, <1>3 DEF Status
  <2> QED BY <1>1, <1>2, <2>1 DEF Connection
<1>5. call' = [d \in Calls |-> IF d = 0 \/ call[d] = Idle THEN Idle
                               ELSE [call[d] EXCEPT !.fresh = FALSE]]
  BY <1>1 DEF Staled, SyncAssumption
<1>6. call' \in [Calls -> {Idle} \cup Request] BY <1>2, <1>5, StaledFields
<1>14. \A d \in Active' : /\ d \in Active /\ ~call'[d].fresh
                         /\ call'[d].read = call[d].read /\ call'[d].known = call[d].known
                         /\ call'[d].step = call[d].step
  BY <1>2, <1>5, StaledFields
<1>7. Shapes' BY <1>1, <1>2, <1>3, <1>4, <1>6 DEF Shapes
<1>8. CopiesAgree' BY <1>14 DEF CopiesAgree
<1>9. Pushed' = Pushed BY <1>1 DEF Pushed
<1>10. MapsTrue' BY <1>4, <1>14, <1>9 DEF SyncInv, MapsTrue
<1>11. StatesCounted'
  <2>1. \A d \in Active : call[d].read.state \in Nat BY <1>2, CallFields, ConnFields
  <2>2. \A d \in Active' : call'[d].read.state <= states + 1 BY <1>2, <1>14, <2>1
    DEF SyncInv, StatesCounted
  <2> QED BY <1>1, <1>2, <1>4, <1>14, <2>2 DEF SyncInv, StatesCounted
<1>12. StatesSpent'
  <2>1. \A s \in 1..MaxStates : used[s] > 0 => s # states + 1
    BY <1>2 DEF SyncInv, StatesCounted
  <2> QED BY <1>1, <1>4, <2>1 DEF SyncInv, StatesSpent
<1>13. TokensTold' BY <1>4 DEF TokensTold, Accounted
<1>15. TokensRead' BY <1>14 DEF SyncInv, TokensRead
<1> QED BY <1>7, <1>8, <1>10, <1>11, <1>12, <1>13, <1>15 DEF SyncInv

LEMMA CompleteOauthKeeps ==
  ASSUME SyncAssumption, SyncInv, NEW c \in Calls, NEW answer \in {"connected", "error", "raised"},
         NEW given \in BOOLEAN, CompleteOauth(c, answer, given)
  PROVE  SyncInv'
<1> DEFINE read == call[c].read
           new == [read EXCEPT !.state = 0, !.tokens = given, !.expired = FALSE,
                               !.status = IF answer = "raised" THEN @ ELSE answer]
<1>1. /\ call[c].step = "callback" /\ Finish(c, new, Tokens)
      /\ used' = [used EXCEPT ![read.state] = IF @ < 2 THEN @ + 1 ELSE @]
      /\ lapses' = {l \in {"swallowed", "tokenless"} :
                      IF l = "swallowed" THEN answer = "raised" ELSE ~given}
  BY DEF CompleteOauth
<1>2. c \in Active BY <1>1, StepActive
<1>3. Shapes /\ read \in Connection BY <1>2, CallFields DEF SyncInv
<1>4. read.state \in 1..MaxStates /\ read.state <= states /\ states \in Nat
  BY <1>1, <1>2, <1>3, ConnFields DEF SyncInv, StatesCounted, Shapes
<1>5. read.map \subseteq Pushed BY <1>2 DEF SyncInv, MapsTrue
<1>6. call[c].fresh => conn.state = read.state BY <1>2 DEF SyncInv, CopiesAgree
<1> HIDE DEF read
<1>7. /\ new \in Connection /\ new.state = 0 /\ new.tokens = given /\ new.map = read.map
      /\ answer # "raised" => new.status = answer
  <2>1. 0 \in 0..MaxStates /\ (answer # "raised" => answer \in Status)
    BY DEF Status, SyncAssumption
  <2> QED BY <1>3, <2>1 DEF Connection
<1> HIDE DEF new
<1>8. used \in [1..MaxStates -> 0..2] BY <1>3 DEF Shapes
<1>9. used' \in [1..MaxStates -> 0..2] BY <1>1, <1>4, <1>8
<1>10. \A s \in 1..MaxStates : used'[s] > 0 => s <= states
  BY <1>1, <1>4, <1>8 DEF SyncInv, StatesCounted
<1>11. call[c].fresh /\ ~disturbed => \A s \in 1..MaxStates : used'[s] <= 1
  <2> SUFFICES ASSUME call[c].fresh, ~disturbed, NEW s \in 1..MaxStates PROVE used'[s] <= 1
    OBVIOUS
  <2>1. ~(used[read.state] > 0) /\ used[s] <= 1 BY <1>4, <1>6 DEF SyncInv, StatesSpent
  <2> QED BY <1>1, <1>4, <1>8, <2>1
<1>12. call[c].fresh /\ ~disturbed =>
         /\ \A s \in 1..MaxStates : used'[s] <= 1 /\ (used'[s] > 0 => new.state # s)
         /\ Accounted(new, lapses')
  BY <1>1, <1>7, <1>11 DEF Accounted
<1>13. new.state <= states /\ lapses' \subseteq {"swallowed", "tokenless"} BY <1>1, <1>4, <1>7
<1> QED BY <1>1, <1>2, <1>5, <1>7, <1>9, <1>10, <1>12, <1>13, FinishKeeps

\* A request that connects nothing.
LEMMA FinishSameKeeps ==
  ASSUME SyncAssumption, SyncInv, NEW c \in Active, NEW new \in Connection, NEW always,
         Finish(c, new, always), UNCHANGED used, new.map \subseteq Pushed,
         new.state \in {0, call[c].read.state}, lapses' \subseteq {"swallowed", "tokenless"},
         Accounted(call[c].read, lapses) => Accounted(new, lapses')
  PROVE  SyncInv'
<1>1. Shapes /\ call[c].read \in Connection BY CallFields DEF SyncInv
<1>2. /\ states \in Nat /\ used \in [1..MaxStates -> 0..2]
      /\ call[c].read.state <= states /\ \A s \in 1..MaxStates : used[s] > 0 => s <= states
  BY <1>1 DEF SyncInv, Shapes, StatesCounted
<1>3. new.state <= states BY <1>2
<1>4. call[c].fresh /\ ~disturbed =>
         /\ \A s \in 1..MaxStates : used'[s] <= 1 /\ (used'[s] > 0 => new.state # s)
         /\ Accounted(new, lapses')
  BY DEF SyncInv, CopiesAgree, StatesSpent, TokensTold, Accounted
<1> QED BY <1>2, <1>3, <1>4, FinishKeeps

LEMMA ExchangeFailsKeeps ==
  ASSUME SyncAssumption, SyncInv, NEW c \in Calls, ExchangeFails(c) PROVE SyncInv'
<1> DEFINE new == [call[c].read EXCEPT !.state = 0]
<1>1. call[c].step = "callback" /\ Finish(c, new, {}) /\ UNCHANGED <<used, lapses>>
  BY DEF ExchangeFails
<1>2. c \in Active BY <1>1, StepActive
<1>3. call[c].read \in Connection /\ call[c].read.map \subseteq Pushed
  BY <1>2, CallFields DEF SyncInv, MapsTrue
<1>4. new \in Connection /\ new.state = 0 /\ new.status = call[c].read.status
      /\ new.tokens = call[c].read.tokens /\ new.map = call[c].read.map
  BY <1>3 DEF Connection, SyncAssumption
<1> HIDE DEF new
<1>5. lapses' = lapses /\ lapses \subseteq {"swallowed", "tokenless"} BY <1>1 DEF SyncInv, Shapes
<1>6. Accounted(call[c].read, lapses) => Accounted(new, lapses') BY <1>4, <1>5 DEF Accounted
<1> QED BY <1>1, <1>2, <1>3, <1>4, <1>5, <1>6, FinishSameKeeps

LEMMA DisconnectKeeps ==
  ASSUME SyncAssumption, SyncInv, NEW c \in Calls, Disconnect(c) PROVE SyncInv'
<1> DEFINE new == [call[c].read EXCEPT !.status = "disconnected", !.tokens = FALSE,
                                       !.expired = FALSE]
<1>1. call[c].step = "disconnect" /\ Finish(c, new, {}) /\ UNCHANGED used /\ lapses' = {}
  BY DEF Disconnect
<1>2. c \in Active BY <1>1, StepActive
<1>3. call[c].read \in Connection /\ call[c].read.map \subseteq Pushed
  BY <1>2, CallFields DEF SyncInv, MapsTrue
<1>4. new \in Connection /\ new.state = call[c].read.state /\ new.status = "disconnected"
      /\ ~new.tokens /\ new.map = call[c].read.map
  BY <1>3 DEF Connection, Status
<1> HIDE DEF new
<1>5. Accounted(new, lapses') BY <1>4 DEF Accounted
<1> QED BY <1>1, <1>2, <1>3, <1>4, <1>5, FinishSameKeeps

LEMMA UpdateSettingsKeeps ==
  ASSUME SyncAssumption, SyncInv, NEW c \in Calls, UpdateSettings(c) PROVE SyncInv'
<1>1. call[c].step = "settings" /\ Finish(c, call[c].read, {"state"}) /\ UNCHANGED <<used, lapses>>
  BY DEF UpdateSettings
<1>2. c \in Active BY <1>1, StepActive
<1>3. call[c].read \in Connection /\ call[c].read.map \subseteq Pushed
  BY <1>2, CallFields DEF SyncInv, MapsTrue
<1>4. lapses' = lapses /\ lapses \subseteq {"swallowed", "tokenless"} BY <1>1 DEF SyncInv, Shapes
<1> QED BY <1>1, <1>2, <1>3, <1>4, FinishSameKeeps

------------------------------------------------------------------------------
(***************************************************************************)
(* Synchronisation.                                                        *)
(***************************************************************************)
\* A request in flight goes on with its copy, knows more, or is gone; at the
\* provider there are only more copies.
LEMMA RequestKeeps ==
  ASSUME SyncAssumption, SyncInv, NEW c \in Active, NEW r \in {Idle} \cup Request,
         call' = [call EXCEPT ![c] = r], UNCHANGED <<conn, items, states, used, lapses, disturbed>>,
         copies' \in [Items -> 0..MaxCopies], Pushed \subseteq Pushed',
         r # Idle => /\ r.step # "callback" /\ (r.step \in {"refresh", "sync"} => r.read.tokens)
                     /\ r.read = call[c].read /\ r.fresh = call[c].fresh
                     /\ call[c].known \subseteq r.known /\ r.known \subseteq Pushed'
  PROVE  SyncInv'
<1>1. Shapes /\ c \in Calls BY CallFields DEF SyncInv
<1>2. call' \in [Calls -> {Idle} \cup Request] /\ call'[c] = r
      /\ \A d \in Calls : d # c => call'[d] = call[d]
  BY <1>1 DEF Shapes
<1>3. \A d \in Active' : d \in Active /\ (d # c => call'[d] = call[d]) /\ (d = c => r # Idle)
  BY <1>2 DEF Active
<1>4. Shapes' BY <1>1, <1>2 DEF Shapes
<1>5. CopiesAgree' BY <1>2, <1>3 DEF SyncInv, CopiesAgree
<1>6. MapsTrue' BY <1>2, <1>3 DEF SyncInv, MapsTrue
<1>7. StatesCounted' BY <1>2, <1>3 DEF SyncInv, StatesCounted
<1>8. StatesSpent' /\ TokensTold' BY DEF SyncInv, StatesSpent, TokensTold
<1>9. TokensRead' BY <1>2, <1>3 DEF SyncInv, TokensRead
<1> QED BY <1>4, <1>5, <1>6, <1>7, <1>8, <1>9 DEF SyncInv

LEMMA AbandonKeeps ==
  ASSUME SyncAssumption, SyncInv, NEW c \in Calls, Abandon(c) PROVE SyncInv'
<1>1. /\ c \in Active /\ call' = [call EXCEPT ![c] = Idle]
      /\ UNCHANGED <<conn, items, states, used, lapses, disturbed>> /\ UNCHANGED copies
  BY DEF Abandon, Active
<1>2. copies' \in [Items -> 0..MaxCopies] BY <1>1 DEF SyncInv, Shapes
<1>3. Pushed \subseteq Pushed' BY <1>1 DEF Pushed
<1> QED BY <1>1, <1>2, <1>3, RequestKeeps

LEMMA EnsureValidTokenKeeps ==
  ASSUME SyncAssumption, SyncInv, NEW c \in Calls, EnsureValidToken(c) PROVE SyncInv'
<1>1. PICK tokens \in {"new", "none"} :
        call' = [call EXCEPT ![c] = [call[c] EXCEPT !.step = "sync", !.tokens = tokens]]
  BY DEF EnsureValidToken
<1> DEFINE r == [call[c] EXCEPT !.step = "sync", !.tokens = tokens]
<1>2. /\ call[c].step = "refresh" /\ call' = [call EXCEPT ![c] = r]
      /\ UNCHANGED <<conn, items, states, used, lapses, disturbed>> /\ UNCHANGED copies
  BY <1>1 DEF EnsureValidToken
<1>3. c \in Active BY <1>2, StepActive
<1>4. /\ call[c] \in Request /\ call[c].known \subseteq Pushed /\ call[c].read.tokens
  BY <1>2, <1>3, CallFields DEF SyncInv, MapsTrue, TokensRead
<1>5. /\ r \in Request /\ r.step = "sync" /\ r.read = call[c].read /\ r.fresh = call[c].fresh
      /\ r.known = call[c].known
  BY <1>4 DEF Request
<1> HIDE DEF r
<1>6. copies' \in [Items -> 0..MaxCopies] BY <1>2 DEF SyncInv, Shapes
<1>7. Pushed' = Pushed BY <1>2 DEF Pushed
<1> QED BY <1>2, <1>3, <1>4, <1>5, <1>6, <1>7, RequestKeeps

LEMMA PushKeeps ==
  ASSUME SyncAssumption, SyncInv, NEW c \in Calls, NEW i \in Items, Push(c, i) PROVE SyncInv'
<1> DEFINE r == [call[c] EXCEPT !.known = @ \cup {i}]
<1>1. /\ call[c].step = "sync" /\ copies[i] < MaxCopies
      /\ copies' = [copies EXCEPT ![i] = @ + 1]
      /\ call' = [call EXCEPT ![c] = r] \/ call' = call
      /\ UNCHANGED <<conn, items, states, used, lapses, disturbed>>
  BY DEF Push
<1>2. c \in Active BY <1>1, StepActive
<1>3. Shapes /\ call[c] \in Request /\ call[c].known \subseteq Pushed /\ call[c].read.tokens
  BY <1>1, <1>2, CallFields DEF SyncInv, MapsTrue, TokensRead
<1>4. /\ r \in Request /\ r.step = "sync" /\ r.read = call[c].read /\ r.fresh = call[c].fresh
      /\ r.known = call[c].known \cup {i}
  BY <1>1, <1>3 DEF Request
<1> HIDE DEF r
<1>5. copies \in [Items -> 0..MaxCopies] /\ MaxCopies \in Nat
  BY <1>3 DEF Shapes, SyncAssumption
<1>6. copies' \in [Items -> 0..MaxCopies] BY <1>1, <1>5
<1>7. Pushed' = Pushed \cup {i} BY <1>1, <1>5 DEF Pushed
<1>8. CASE call' = [call EXCEPT ![c] = r]
  BY <1>1, <1>2, <1>3, <1>4, <1>6, <1>7, <1>8, RequestKeeps
<1>9. CASE call' = call
  <2>1. call' = [call EXCEPT ![c] = call[c]] BY <1>3, <1>9 DEF Shapes
  <2>2. call[c].step # "callback" /\ call[c] \in {Idle} \cup Request BY <1>1, <1>3
  <2> QED BY <1>1, <1>2, <1>3, <1>6, <1>7, <2>1, <2>2, RequestKeeps
<1> QED BY <1>1, <1>8, <1>9

LEMMA SyncKeeps ==
  ASSUME SyncAssumption, SyncInv, NEW c \in Calls, Sync(c) PROVE SyncInv'
<1> DEFINE k == call[c]
           section == IF k.read.section THEN {} ELSE {"section", "map"}
           saved == IF k.read.section THEN k.read
                    ELSE [k.read EXCEPT !.section = TRUE, !.map = k.known]
           new == [saved EXCEPT !.tokens = k.tokens = "new", !.expired = FALSE]
<1>1. k.step = "sync" /\ UNCHANGED used BY DEF Sync
<1>2. c \in Active BY <1>1, StepActive
<1>3. /\ k.read \in Connection /\ k.read.map \subseteq Pushed /\ k.known \subseteq Pushed
      /\ k.known \in SUBSET Items /\ k.read.section \in BOOLEAN /\ k.read.tokens
      /\ k.tokens \in {"kept", "new", "none"} /\ lapses \subseteq {"swallowed", "tokenless"}
  BY <1>1, <1>2, CallFields, ConnFields DEF SyncInv, MapsTrue, TokensRead, Shapes
<1>4. IF k.tokens = "kept"
      THEN Finish(c, saved, section) /\ lapses' = lapses
      ELSE /\ Finish(c, new, Tokens \cup section)
           /\ lapses' = IF k.tokens = "new" THEN lapses \ {"tokenless"} ELSE lapses \cup {"tokenless"}
  BY DEF Sync
<1> HIDE DEF k, section
<1>5. /\ saved \in Connection /\ saved.state = k.read.state /\ saved.status = k.read.status
      /\ saved.tokens = k.read.tokens /\ saved.map \subseteq Pushed
  <2>1. CASE k.read.section BY <1>3, <2>1
  <2>2. CASE ~k.read.section
    <3>1. saved = [k.read EXCEPT !.section = TRUE, !.map = k.known] BY <2>2
    <3> HIDE DEF saved
    <3> QED BY <1>3, <3>1 DEF Connection
  <2> QED BY <1>3, <2>1, <2>2
<1> HIDE DEF saved
<1>6. /\ new \in Connection /\ new.state = k.read.state /\ new.status = k.read.status
      /\ new.tokens = (k.tokens = "new") /\ new.map \subseteq Pushed
  BY <1>5 DEF Connection
<1> HIDE DEF new
<1>7. CASE k.tokens = "kept"
  <2>1. Finish(c, saved, section) /\ lapses' = lapses BY <1>4, <1>7
  <2>2. Accounted(k.read, lapses) => Accounted(saved, lapses') BY <1>5, <2>1 DEF Accounted
  <2> QED BY <1>1, <1>2, <1>3, <1>5, <2>1, <2>2, FinishSameKeeps DEF k
<1>8. CASE k.tokens # "kept"
  <2>1. Finish(c, new, Tokens \cup section) BY <1>4, <1>8
  <2>2. Accounted(k.read, lapses) => Accounted(new, lapses')
    BY <1>3, <1>4, <1>6, <1>8 DEF Accounted
  <2>3. lapses' \subseteq {"swallowed", "tokenless"} BY <1>3, <1>4, <1>8
  <2> QED BY <1>1, <1>2, <1>6, <2>1, <2>2, <2>3, FinishSameKeeps DEF k
<1> QED BY <1>7, <1>8

\* Time passes over the expiry alone.
LEMMA ExpireKeeps == ASSUME SyncInv, Expire PROVE SyncInv'
<1>1. conn' = [conn EXCEPT !.expired = TRUE]
      /\ UNCHANGED <<call, items, copies, states, used, lapses, disturbed>>
  BY DEF Expire
<1>2. conn \in Connection BY DEF SyncInv, Shapes
<1>3. /\ conn' \in Connection /\ conn'.status = conn.status /\ conn'.tokens = conn.tokens
      /\ conn'.state = conn.state /\ conn'.section = conn.section /\ conn'.map = conn.map
  BY <1>1, <1>2 DEF Connection
<1>4. Shapes' BY <1>1, <1>3 DEF SyncInv, Shapes
<1>5. Active' = Active /\ Pushed' = Pushed BY <1>1 DEF Active, Pushed
<1>6. CopiesAgree' BY <1>1, <1>3, <1>5 DEF SyncInv, CopiesAgree
<1>7. MapsTrue' BY <1>1, <1>3, <1>5 DEF SyncInv, MapsTrue
<1>8. StatesCounted' BY <1>1, <1>3, <1>5 DEF SyncInv, StatesCounted
<1>9. StatesSpent' /\ TokensTold' BY <1>1, <1>3 DEF SyncInv, StatesSpent, TokensTold, Accounted
<1>10. TokensRead' BY <1>1, <1>5 DEF SyncInv, TokensRead
<1> QED BY <1>4, <1>6, <1>7, <1>8, <1>9, <1>10 DEF SyncInv

LEMMA InsertKeeps == ASSUME SyncInv, NEW i \in Items, Insert(i) PROVE SyncInv'
<1>1. items' = items \cup {i} /\ UNCHANGED <<conn, call, copies, states, used, lapses, disturbed>>
  BY DEF Insert
<1>2. Shapes' BY <1>1 DEF SyncInv, Shapes
<1>3. Active' = Active /\ Pushed' = Pushed BY <1>1 DEF Active, Pushed
<1>4. CopiesAgree' /\ MapsTrue' /\ StatesCounted'
  BY <1>1, <1>3 DEF SyncInv, CopiesAgree, MapsTrue, StatesCounted
<1>5. StatesSpent' /\ TokensTold' BY <1>1 DEF SyncInv, StatesSpent, TokensTold
<1>6. TokensRead' BY <1>1, <1>3 DEF SyncInv, TokensRead
<1> QED BY <1>2, <1>4, <1>5, <1>6 DEF SyncInv

------------------------------------------------------------------------------
(***************************************************************************)
(* The theorems.                                                           *)
(***************************************************************************)
LEMMA StartKeeps ==
  ASSUME SyncInv, NEW c \in Calls, NEW role \in {"admin", "member"},
         BeginDisconnect(c, role) \/ BeginSettings(c, role) \/ BeginSync(c, role)
  PROVE  SyncInv'
<1>1. \/ Begin(c, "disconnect") \/ Begin(c, "settings")
      \/ conn.tokens /\ (Begin(c, "refresh") \/ Begin(c, "sync"))
  BY DEF BeginDisconnect, BeginSettings, BeginSync
<1> QED BY <1>1, BeginKeeps

LEMMA SyncNext == ASSUME SyncAssumption, SyncInv, [Next]_vars PROVE SyncInv'
<1>1. CASE UNCHANGED vars
  <2>1. UNCHANGED <<conn, call, items, copies, states, used, lapses, disturbed>> BY <1>1 DEF vars
  <2>2. Active' = Active /\ Pushed' = Pushed BY <2>1 DEF Active, Pushed
  <2>3. Shapes' BY <2>1 DEF SyncInv, Shapes
  <2>4. CopiesAgree' /\ MapsTrue' /\ StatesCounted'
    BY <2>1, <2>2 DEF SyncInv, CopiesAgree, MapsTrue, StatesCounted
  <2>5. StatesSpent' /\ TokensTold' BY <2>1 DEF SyncInv, StatesSpent, TokensTold
  <2>6. TokensRead' BY <2>1, <2>2 DEF SyncInv, TokensRead
  <2> QED BY <2>3, <2>4, <2>5, <2>6 DEF SyncInv
<1>2. CASE \E role \in {"admin", "member"} : Connect(role)
  BY <1>2, InitiateOauthKeeps DEF Connect
<1>3. CASE \E role \in {"admin", "member"}, c \in Calls :
             BeginDisconnect(c, role) \/ BeginSettings(c, role) \/ BeginSync(c, role)
  BY <1>3, StartKeeps
<1>4. CASE \E c \in Calls, s \in 1..MaxStates : Callback(c, s) BY <1>4, BeginKeeps DEF Callback
<1>5. CASE \E c \in Calls, answer \in {"connected", "error", "raised"}, given \in BOOLEAN :
             CompleteOauth(c, answer, given)
  BY <1>5, CompleteOauthKeeps
<1>6. CASE \E c \in Calls : ExchangeFails(c) BY <1>6, ExchangeFailsKeeps
<1>7. CASE \E c \in Calls : Disconnect(c) BY <1>7, DisconnectKeeps
<1>8. CASE \E c \in Calls : UpdateSettings(c) BY <1>8, UpdateSettingsKeeps
<1>9. CASE \E c \in Calls : EnsureValidToken(c) BY <1>9, EnsureValidTokenKeeps
<1>10. CASE \E c \in Calls : Sync(c) BY <1>10, SyncKeeps
<1>11. CASE \E c \in Calls : Abandon(c) BY <1>11, AbandonKeeps
<1>12. CASE \E c \in Calls, i \in Items : Push(c, i) BY <1>12, PushKeeps
<1>13. CASE Expire BY <1>13, ExpireKeeps
<1>14. CASE \E i \in Items : Insert(i) BY <1>14, InsertKeeps
<1> QED BY <1>1, <1>2, <1>3, <1>4, <1>5, <1>6, <1>7, <1>8, <1>9, <1>10, <1>11, <1>12, <1>13,
           <1>14 DEF Next
------------------------------------------------------------------------------
(* The plan's limits *)

LimitShapes == /\ sub \in Limits!Sub \cup {Limits!NoSub} /\ req \in [Requests -> Limits!Request]
               /\ taken \in [Kinds -> 0..MaxUsed] /\ unchecked \in [Kinds -> 0..MaxUsed]
               /\ closed \in 0..MaxUsed /\ excused \subseteq Kinds
\* Who came in unchecked is in; a closed matter has left room to open it again.
UncheckedCounted == /\ \A k \in Kinds : unchecked[k] <= taken[k]
                    /\ "matter" \in Kinds => taken["matter"] + closed <= MaxUsed
\* One request at most holds an uncommitted insert of the row, and found none.
OneHolds == \A r \in Requests : req[r].step = "held" =>
              sub = Limits!NoSub /\ \A q \in Requests : req[q].step = "held" => q = r
\* The plan the firm is on; one without a row is on the starter plan.
PlanTier == IF sub = Limits!NoSub THEN "starter" ELSE sub.tier
\* A request that was let in was told that there is room, and nobody took it since.
RoomInPlan == \A k \in Kinds \ excused :
  /\ taken[k] <= Limits!TierLimit(PlanTier, k) + unchecked[k]
  /\ \A r, q \in Requests : req[r].step # "idle" /\ req[q].step # "idle"
                              /\ req[r].kind = k /\ req[q].kind = k => r = q
  /\ \A r \in Requests : req[r].step \in {"held", "checked"} /\ req[r].kind = k =>
                           taken[k] < Limits!TierLimit(PlanTier, k) + unchecked[k]

LimitInv == LimitShapes /\ UncheckedCounted /\ OneHolds /\ RoomInPlan

LEMMA SubFacts ==
  ASSUME Limits!LimitsAssumption
  PROVE  /\ \A x \in Limits!Sub : x # Limits!NoSub /\ x.tier \in Tiers
         /\ Limits!DefaultSub \in Limits!Sub /\ Limits!DefaultSub.tier = "starter"
<1>1. ASSUME NEW x \in Limits!Sub PROVE x # Limits!NoSub /\ x.tier \in Tiers
  <2>1. "standing" \in DOMAIN x /\ x.tier \in Tiers BY DEF Limits!Sub
  <2>2. "standing" \notin DOMAIN Limits!NoSub BY DEF Limits!NoSub
  <2> QED BY <2>1, <2>2
<1>2. Limits!DefaultSub \in Limits!Sub /\ Limits!DefaultSub.tier = "starter"
  BY DEF Limits!DefaultSub, Limits!Sub, Limits!LimitsAssumption
<1> QED BY <1>1, <1>2

LEMMA LimitNumbers ==
  ASSUME Limits!LimitsAssumption
  PROVE  /\ MaxUsed \in Nat /\ MaxUsed > 0 /\ "starter" \in Tiers
         /\ \A tier \in Tiers, k \in Kinds : Limits!TierLimit(tier, k) \in Nat
  BY DEF Limits!LimitsAssumption, Limits!TierLimit

LEMMA LimitInit == ASSUME Limits!LimitsAssumption, Limits!Init PROVE LimitInv
<1>1. /\ sub = Limits!NoSub /\ closed = 0 /\ excused = {}
      /\ taken = [k \in Kinds |-> IF k = "member" THEN 1 ELSE 0]
      /\ unchecked = [k \in Kinds |-> 0] /\ req = [r \in Requests |-> Limits!Idle]
  BY DEF Limits!Init
<1>2. Limits!Idle \in Limits!Request /\ Limits!Idle.step = "idle"
  BY DEF Limits!Idle, Limits!Request, Limits!LimitsAssumption
<1>3. LimitShapes BY <1>1, <1>2, LimitNumbers DEF LimitShapes
<1>4. UncheckedCounted BY <1>1, LimitNumbers DEF UncheckedCounted
<1>5. OneHolds BY <1>1, <1>2 DEF OneHolds
<1>6. RoomInPlan
  <2>1. PlanTier = "starter" BY <1>1 DEF PlanTier
  <2>2. \A k \in Kinds : taken[k] <= Limits!TierLimit("starter", k)
    BY <1>1, LimitNumbers DEF Limits!TierLimit, Limits!LimitsAssumption
  <2> QED BY <1>1, <1>2, <2>1, <2>2, LimitNumbers DEF RoomInPlan
<1> QED BY <1>3, <1>4, <1>5, <1>6 DEF LimitInv

\* One request changes its step and no other.
LEMMA ReqGoes ==
  ASSUME LimitShapes, NEW r \in Requests, NEW to \in Limits!Request, req' = [req EXCEPT ![r] = to]
  PROVE  /\ req' \in [Requests -> Limits!Request] /\ req'[r] = to
         /\ \A q \in Requests : q # r => req'[q] = req[q]
  BY DEF LimitShapes

LEMMA SubscriptionChangesKeeps ==
  ASSUME Limits!LimitsAssumption, LimitInv, NEW x \in Limits!Sub, Limits!SubscriptionChanges(x)
  PROVE  LimitInv'
<1>1. /\ Limits!InsertFree /\ sub' = x /\ UNCHANGED <<taken, unchecked, closed, req>>
      /\ excused' = IF x.tier = (IF sub = Limits!NoSub THEN Limits!DefaultSub ELSE sub).tier
                    THEN excused ELSE Kinds
  BY DEF Limits!SubscriptionChanges
<1>2. x # Limits!NoSub /\ Limits!DefaultSub.tier = "starter" BY SubFacts
<1>3. LimitShapes' /\ UncheckedCounted' BY <1>1 DEF LimitInv, LimitShapes, UncheckedCounted
<1>4. \A r \in Requests : req[r].step # "held" BY <1>1 DEF Limits!InsertFree, LimitInv, OneHolds
<1>5. OneHolds' BY <1>1, <1>4 DEF OneHolds
<1>6. RoomInPlan'
  <2>1. CASE excused' = Kinds BY <2>1 DEF RoomInPlan
  <2>2. CASE excused' # Kinds
    <3>1. excused' = excused /\ PlanTier' = PlanTier BY <1>1, <1>2, <2>2 DEF PlanTier
    <3> QED BY <1>1, <3>1 DEF LimitInv, RoomInPlan
  <2> QED BY <2>1, <2>2
<1> QED BY <1>3, <1>5, <1>6 DEF LimitInv

LEMMA BeginInPlanKeeps ==
  ASSUME Limits!LimitsAssumption, LimitInv, NEW r \in Requests, NEW k \in Kinds,
         Limits!BeginCreate(r, k)
  PROVE  LimitInv'
<1>1. PICK step \in {"checked", "creating"} :
        /\ req' = [req EXCEPT ![r] = [step |-> step, kind |-> k]]
        /\ step = "checked" => sub # Limits!NoSub /\ taken[k] < Limits!TierLimit(sub.tier, k)
  BY DEF Limits!BeginCreate, Limits!CheckLimit
<1>2. /\ req[r].step = "idle" /\ UNCHANGED <<sub, taken, unchecked, closed>>
      /\ excused' = IF Limits!Overlapping(r, k) THEN excused \cup {k} ELSE excused
  BY DEF Limits!BeginCreate
<1> DEFINE to == [step |-> step, kind |-> k]
<1>3. to \in Limits!Request /\ to.step = step /\ to.kind = k BY DEF Limits!Request
<1>4. req' = [req EXCEPT ![r] = to] BY <1>1
<1> HIDE DEF to
<1>5. /\ req' \in [Requests -> Limits!Request] /\ req'[r] = to
      /\ \A q \in Requests : q # r => req'[q] = req[q]
  BY <1>3, <1>4, ReqGoes DEF LimitInv
<1>6. LimitShapes' /\ UncheckedCounted'
  BY <1>2, <1>5 DEF LimitInv, LimitShapes, UncheckedCounted
<1>7. OneHolds' BY <1>1, <1>2, <1>3, <1>5 DEF LimitInv, OneHolds
<1>8. PlanTier' = PlanTier BY <1>2 DEF PlanTier
<1>9. ASSUME NEW j \in Kinds \ excused', NEW q \in Requests, req'[q].step # "idle",
             req'[q].kind = j, NEW p \in Requests, req'[p].step # "idle", req'[p].kind = j
      PROVE  p = q
  <2>1. \A o \in Requests : o # r => ~(req[o].step # "idle" /\ req[o].kind = k) \/ j # k
    BY <1>2, <1>9 DEF Limits!Overlapping
  <2>2. j \in Kinds \ excused BY <1>2
  <2> QED BY <1>3, <1>5, <1>9, <2>1, <2>2 DEF LimitInv, RoomInPlan
<1>10. ASSUME NEW j \in Kinds \ excused', NEW q \in Requests,
              req'[q].step \in {"held", "checked"}, req'[q].kind = j
       PROVE  taken[j] < Limits!TierLimit(PlanTier, j) + unchecked[j]
  <2>1. CASE q = r
    <3>1. j = k /\ taken[k] < Limits!TierLimit(PlanTier, k)
      BY <1>1, <1>3, <1>5, <1>10, <2>1 DEF PlanTier
    <3>2. taken[k] \in Nat /\ unchecked[k] \in Nat /\ Limits!TierLimit(PlanTier, k) \in Nat
      BY LimitNumbers, SubFacts DEF LimitInv, LimitShapes, PlanTier
    <3> QED BY <3>1, <3>2
  <2>2. CASE q # r BY <1>2, <1>5, <1>10, <2>2 DEF LimitInv, RoomInPlan
  <2> QED BY <2>1, <2>2
<1>11. \A j \in Kinds \ excused' : taken[j] <= Limits!TierLimit(PlanTier, j) + unchecked[j]
  BY <1>2 DEF LimitInv, RoomInPlan
<1>12. RoomInPlan' BY <1>2, <1>8, <1>9, <1>10, <1>11 DEF RoomInPlan
<1> QED BY <1>6, <1>7, <1>12 DEF LimitInv

LEMMA InsertRowKeeps ==
  ASSUME Limits!LimitsAssumption, LimitInv, NEW r \in Requests, Limits!InsertRow(r)
  PROVE  LimitInv'
<1> DEFINE k == req[r].kind
           stays == sub = Limits!NoSub /\ Limits!CheckLimit(Limits!DefaultSub, k)
           to == IF stays THEN [req[r] EXCEPT !.step = "held"] ELSE Limits!Idle
<1>1. /\ req[r].step = "creating" /\ Limits!InsertFree /\ req' = [req EXCEPT ![r] = to]
      /\ UNCHANGED <<sub, taken, unchecked, closed, excused>>
  BY DEF Limits!InsertRow
<1>2. req[r] \in Limits!Request /\ k \in Kinds BY DEF LimitInv, LimitShapes, Limits!Request
<1>3. /\ to \in Limits!Request /\ to.step = (IF stays THEN "held" ELSE "idle")
      /\ stays => to.kind = k
  BY <1>2 DEF Limits!Request, Limits!Idle, Limits!LimitsAssumption
<1>4. stays => sub = Limits!NoSub /\ taken[k] < Limits!TierLimit("starter", k)
  BY SubFacts DEF Limits!CheckLimit
<1> HIDE DEF to, stays
<1>5. /\ req' \in [Requests -> Limits!Request] /\ req'[r] = to
      /\ \A q \in Requests : q # r => req'[q] = req[q]
  BY <1>1, <1>3, ReqGoes DEF LimitInv
<1>6. LimitShapes' /\ UncheckedCounted'
  BY <1>1, <1>5 DEF LimitInv, LimitShapes, UncheckedCounted
<1>7. sub = Limits!NoSub => \A q \in Requests : req[q].step # "held"
  BY <1>1 DEF Limits!InsertFree
<1>8. OneHolds' BY <1>1, <1>3, <1>4, <1>5, <1>7 DEF LimitInv, OneHolds
<1>9. PlanTier' = PlanTier /\ (stays => PlanTier = "starter") BY <1>1, <1>4 DEF PlanTier
<1>10. ASSUME NEW j \in Kinds \ excused, NEW q \in Requests,
              req'[q].step \in {"held", "checked"}, req'[q].kind = j
       PROVE  taken[j] < Limits!TierLimit(PlanTier, j) + unchecked[j]
  <2>1. CASE q = r
    <3>1. j = k /\ taken[k] < Limits!TierLimit(PlanTier, k)
      BY <1>3, <1>4, <1>5, <1>9, <1>10, <2>1
    <3>2. taken[k] \in Nat /\ unchecked[k] \in Nat /\ Limits!TierLimit(PlanTier, k) \in Nat
      BY <1>2, LimitNumbers, SubFacts DEF LimitInv, LimitShapes, PlanTier
    <3> QED BY <3>1, <3>2
  <2>2. CASE q # r BY <1>5, <1>10, <2>2 DEF LimitInv, RoomInPlan
  <2> QED BY <2>1, <2>2
<1>11. \A q \in Requests : req'[q].step # "idle" => req[q].step # "idle" /\ req'[q].kind = req[q].kind
  BY <1>1, <1>3, <1>5
<1>12. RoomInPlan' BY <1>1, <1>9, <1>10, <1>11 DEF LimitInv, RoomInPlan
<1> QED BY <1>6, <1>8, <1>12 DEF LimitInv

LEMMA FinishInPlanKeeps ==
  ASSUME Limits!LimitsAssumption, LimitInv, NEW r \in Requests, Limits!FinishCreate(r)
  PROVE  LimitInv'
<1> DEFINE k == req[r].kind
<1>1. /\ req[r].step \in {"held", "checked"} /\ taken' = [taken EXCEPT ![k] = @ + 1]
      /\ taken[k] + (IF k = "matter" THEN closed ELSE 0) < MaxUsed
      /\ sub' = (IF req[r].step = "held" THEN Limits!DefaultSub ELSE sub)
      /\ req' = [req EXCEPT ![r] = Limits!Idle] /\ UNCHANGED <<unchecked, closed, excused>>
  BY DEF Limits!FinishCreate
<1>2. k \in Kinds BY DEF LimitInv, LimitShapes, Limits!Request
<1>3. Limits!Idle \in Limits!Request /\ Limits!Idle.step = "idle"
  BY DEF Limits!Idle, Limits!Request, Limits!LimitsAssumption
<1>4. /\ req' \in [Requests -> Limits!Request] /\ req'[r] = Limits!Idle
      /\ \A q \in Requests : q # r => req'[q] = req[q]
  BY <1>1, <1>3, ReqGoes DEF LimitInv
<1> HIDE DEF k
<1>5. /\ closed \in Nat /\ MaxUsed \in Nat
      /\ \A j \in Kinds : taken[j] \in 0..MaxUsed /\ unchecked[j] \in 0..MaxUsed
  BY LimitNumbers DEF LimitInv, LimitShapes
<1>6. /\ taken' \in [Kinds -> 0..MaxUsed]
      /\ \A j \in Kinds : taken'[j] = IF j = k THEN taken[k] + 1 ELSE taken[j]
  BY <1>1, <1>2, <1>5 DEF LimitInv, LimitShapes
<1>7. LimitShapes' BY <1>1, <1>4, <1>6, SubFacts DEF LimitInv, LimitShapes
<1>8. UncheckedCounted' BY <1>1, <1>2, <1>5, <1>6 DEF LimitInv, UncheckedCounted
<1>9. req[r].step = "held" => sub = Limits!NoSub /\ \A q \in Requests : q # r => req[q].step # "held"
  BY DEF LimitInv, OneHolds
<1>10. OneHolds' BY <1>1, <1>3, <1>4, <1>9 DEF LimitInv, OneHolds
<1>11. PlanTier' = PlanTier BY <1>1, <1>9, SubFacts DEF PlanTier
<1>12. ASSUME NEW j \in Kinds \ excused
       PROVE  /\ taken'[j] <= Limits!TierLimit(PlanTier, j) + unchecked[j]
              /\ \A q \in Requests : req'[q].step \in {"held", "checked"} /\ req'[q].kind = j =>
                   taken'[j] < Limits!TierLimit(PlanTier, j) + unchecked[j]
  <2>1. CASE j = k
    <3>1. taken[k] < Limits!TierLimit(PlanTier, k) + unchecked[k]
      BY <1>1, <2>1 DEF LimitInv, RoomInPlan, k
    <3>2. \A q \in Requests : req'[q].step = "idle" \/ req'[q].kind # k
      BY <1>1, <1>3, <1>4, <2>1 DEF LimitInv, RoomInPlan, k
    <3>3. Limits!TierLimit(PlanTier, k) \in Nat
      BY <1>2, LimitNumbers, SubFacts DEF LimitInv, LimitShapes, PlanTier
    <3> QED BY <1>2, <1>5, <1>6, <2>1, <3>1, <3>2, <3>3
  <2>2. CASE j # k BY <1>3, <1>4, <1>6, <2>2 DEF LimitInv, RoomInPlan
  <2> QED BY <2>1, <2>2
<1>13. RoomInPlan' BY <1>1, <1>3, <1>4, <1>11, <1>12 DEF LimitInv, RoomInPlan
<1> QED BY <1>7, <1>8, <1>10, <1>13 DEF LimitInv

\* Somebody leaves, or comes in without a check: what is above the limit does not grow.
LEMMA CountsKeep ==
  ASSUME Limits!LimitsAssumption, LimitInv, NEW k \in Kinds,
         closed' \in 0..MaxUsed, "matter" \in Kinds => taken'["matter"] + closed' <= MaxUsed,
         \/ taken[k] > 0 /\ Limits!Leave(k)
         \/ taken[k] < MaxUsed /\ Limits!EnterUnchecked(k)
  PROVE  LimitInv'
<1>0. /\ UNCHANGED <<sub, req, excused>>
      /\ \/ /\ taken[k] > 0 /\ taken' = [taken EXCEPT ![k] = @ - 1]
            /\ unchecked' = [unchecked EXCEPT ![k] = IF @ > 0 THEN @ - 1 ELSE @]
         \/ /\ taken[k] < MaxUsed /\ taken' = [taken EXCEPT ![k] = @ + 1]
            /\ unchecked' = [unchecked EXCEPT ![k] = @ + 1]
  BY DEF Limits!Leave, Limits!EnterUnchecked
<1>1. /\ MaxUsed \in Nat /\ closed \in Nat
      /\ \A j \in Kinds : /\ taken[j] \in 0..MaxUsed /\ unchecked[j] \in 0..MaxUsed
                          /\ unchecked[j] <= taken[j]
                          /\ Limits!TierLimit(PlanTier, j) \in Nat
  BY LimitNumbers, SubFacts DEF LimitInv, LimitShapes, UncheckedCounted, PlanTier
<1>2. /\ taken' \in [Kinds -> 0..MaxUsed] /\ unchecked' \in [Kinds -> 0..MaxUsed]
      /\ \A j \in Kinds : j # k => taken'[j] = taken[j] /\ unchecked'[j] = unchecked[j]
      /\ unchecked'[k] <= taken'[k]
      /\ \A limit \in Nat : /\ taken[k] <= limit + unchecked[k] => taken'[k] <= limit + unchecked'[k]
                            /\ taken[k] < limit + unchecked[k] => taken'[k] < limit + unchecked'[k]
  <2>1. taken \in [Kinds -> 0..MaxUsed] /\ unchecked \in [Kinds -> 0..MaxUsed]
    BY DEF LimitInv, LimitShapes
  <2> QED BY <1>0, <1>1, <2>1
<1>3. LimitShapes' BY <1>0, <1>2 DEF LimitInv, LimitShapes
<1>4. UncheckedCounted' BY <1>1, <1>2 DEF UncheckedCounted
<1>5. OneHolds' BY <1>0 DEF LimitInv, OneHolds
<1>6. PlanTier' = PlanTier BY <1>0 DEF PlanTier
<1>7. RoomInPlan' BY <1>0, <1>1, <1>2, <1>6 DEF LimitInv, RoomInPlan
<1> QED BY <1>3, <1>4, <1>5, <1>7 DEF LimitInv

LEMMA LimitNext == ASSUME Limits!LimitsAssumption, LimitInv, [Limits!Next]_limitVars PROVE LimitInv'
<1>1. CASE \E x \in Limits!Sub : Limits!SubscriptionChanges(x) BY <1>1, SubscriptionChangesKeeps
<1>2. CASE \E r \in Requests, k \in Kinds : Limits!BeginCreate(r, k) BY <1>2, BeginInPlanKeeps
<1>3. CASE \E r \in Requests : Limits!InsertRow(r) BY <1>3, InsertRowKeeps
<1>4. CASE \E r \in Requests : Limits!FinishCreate(r) BY <1>4, FinishInPlanKeeps
<1>5. CASE Limits!CloseMatter \/ Limits!RemoveMember \/ Limits!UpdateMatter \/ Limits!AutoProvisionSsoUser
  <2>1. /\ closed \in 0..MaxUsed /\ MaxUsed \in Nat
        /\ \A k \in Kinds : taken[k] \in 0..MaxUsed
        /\ "matter" \in Kinds => taken["matter"] + closed <= MaxUsed
    BY LimitNumbers DEF LimitInv, LimitShapes, UncheckedCounted
  <2>2. taken \in [Kinds -> 0..MaxUsed] BY DEF LimitInv, LimitShapes
  <2>3. CASE Limits!CloseMatter
    <3>1. "matter" \in Kinds /\ taken["matter"] > 0 /\ closed' = closed + 1 /\ Limits!Leave("matter")
      BY <2>3 DEF Limits!CloseMatter
    <3>2. closed' \in 0..MaxUsed /\ taken'["matter"] + closed' <= MaxUsed
      BY <2>1, <2>2, <3>1 DEF Limits!Leave
    <3> QED BY <3>1, <3>2, CountsKeep
  <2>4. CASE Limits!RemoveMember
    <3>1. "member" \in Kinds /\ taken["member"] > 1 /\ closed' = closed /\ Limits!Leave("member")
      BY <2>4 DEF Limits!RemoveMember
    <3>2. "matter" \in Kinds => taken'["matter"] + closed' <= MaxUsed
      BY <2>1, <2>2, <3>1 DEF Limits!Leave
    <3>3. taken["member"] > 0 BY <2>1, <3>1
    <3> QED BY <2>1, <3>1, <3>2, <3>3, CountsKeep
  <2>5. CASE Limits!UpdateMatter
    <3>1. "matter" \in Kinds /\ closed > 0 /\ closed' = closed - 1 /\ Limits!EnterUnchecked("matter")
      BY <2>5 DEF Limits!UpdateMatter
    <3>2. /\ closed' \in 0..MaxUsed /\ taken["matter"] < MaxUsed
          /\ taken'["matter"] + closed' <= MaxUsed
      BY <2>1, <2>2, <3>1 DEF Limits!EnterUnchecked
    <3> QED BY <3>1, <3>2, CountsKeep
  <2>6. CASE Limits!AutoProvisionSsoUser
    <3>1. /\ "member" \in Kinds /\ taken["member"] < MaxUsed /\ closed' = closed
          /\ Limits!EnterUnchecked("member")
      BY <2>6 DEF Limits!AutoProvisionSsoUser
    <3>2. "matter" \in Kinds => taken'["matter"] + closed' <= MaxUsed
      BY <2>1, <2>2, <3>1 DEF Limits!EnterUnchecked
    <3> QED BY <2>1, <3>1, <3>2, CountsKeep
  <2> QED BY <1>5, <2>3, <2>4, <2>5, <2>6
<1>6. CASE UNCHANGED limitVars
  <2>1. UNCHANGED <<sub, taken, unchecked, closed, req, excused>> BY <1>6 DEF limitVars
  <2> QED BY <2>1 DEF LimitInv, LimitShapes, UncheckedCounted, OneHolds, RoomInPlan, PlanTier
<1> QED BY <1>1, <1>2, <1>3, <1>4, <1>5, <1>6 DEF Limits!Next

LEMMA LimitImplies ==
  ASSUME LimitInv
  PROVE  Limits!TypeOK /\ Limits!LimitKept
<1>1. Limits!TypeOK BY DEF LimitInv, LimitShapes, Limits!TypeOK
<1>2. Limits!LimitKept BY DEF LimitInv, RoomInPlan, PlanTier, Limits!LimitKept
<1> QED BY <1>1, <1>2

------------------------------------------------------------------------------
(* Outgoing webhooks *)

LEMMA HookCardinality == ASSUME NEW S PROVE Outgoing!Cardinality(S) = Cardinality(S)
  BY Zenon DEF Outgoing!Cardinality, Cardinality

Delivery == [step: {"deliver"}, hook: Hooks, read: 0..MaxFailures]
HookCall == {Outgoing!Idle} \cup [step: {"create"}] \cup Delivery
Creating == {r \in Requests : hookCall[r].step = "create"}

HookShapes ==
  /\ DOMAIN hook \subseteq Hooks /\ \A h \in DOMAIN hook : hook[h] \in Outgoing!Webhook
  /\ IsFiniteSet(DOMAIN hook)
  /\ streak \in [Hooks -> 0..MaxFailures] /\ crowded \in BOOLEAN /\ raced \subseteq Hooks
  /\ hookCall \in [Requests -> HookCall]

\* A creation on its way was told that there is room, and nobody took it since.
RoomKept == ~crowded => /\ \A r, q \in Creating : r = q
                        /\ Cardinality(DOMAIN hook) <= MaxWebhooks
                        /\ Creating # {} => Cardinality(DOMAIN hook) < MaxWebhooks
\* A delivery that was never overtaken still knows the count of the row.
CountKnown == \A h \in Hooks \ raced :
  /\ \A r, q \in Outgoing!Delivering(h) : r = q
  /\ h \in DOMAIN hook => /\ hook[h].failures = streak[h]
                          /\ \A r \in Outgoing!Delivering(h) : hookCall[r].read = streak[h]

HookInv == HookShapes /\ RoomKept /\ CountKnown

LEMMA HookFields ==
  ASSUME HookShapes, NEW r \in Requests
  PROVE  /\ hookCall[r].step \in {"idle", "create", "deliver"}
         /\ hookCall[r].step = "deliver" => hookCall[r] \in Delivery
         /\ hookCall[r].step = "idle" => hookCall[r] = Outgoing!Idle
<1>1. hookCall[r] \in HookCall BY DEF HookShapes
<1>2. CASE hookCall[r] = Outgoing!Idle BY <1>2 DEF Outgoing!Idle
<1>3. CASE hookCall[r] \in [step: {"create"}] BY <1>3
<1>4. CASE hookCall[r] \in Delivery
  <2>1. hookCall[r].step = "deliver" BY <1>4 DEF Delivery
  <2> QED BY <1>4, <2>1
<1> QED BY <1>1, <1>2, <1>3, <1>4 DEF HookCall

LEMMA HookInit == ASSUME Outgoing!HookAssumption, Outgoing!Init PROVE HookInv
<1>1. /\ hook = <<>> /\ DOMAIN hook = {} /\ streak = [h \in Hooks |-> 0] /\ crowded = FALSE
      /\ raced = {} /\ hookCall = [r \in Requests |-> Outgoing!Idle]
  BY DEF Outgoing!Init
<1>2. HookShapes
  <2>1. IsFiniteSet(DOMAIN hook) BY <1>1, FS_EmptySet
  <2>2. 0 \in 0..MaxFailures BY DEF Outgoing!HookAssumption
  <2>3. streak \in [Hooks -> 0..MaxFailures] BY <1>1, <2>2
  <2>4. hookCall \in [Requests -> HookCall] BY <1>1 DEF HookCall
  <2> QED BY <1>1, <2>1, <2>3, <2>4 DEF HookShapes
<1>3. Creating = {} /\ \A h \in Hooks : Outgoing!Delivering(h) = {}
  BY <1>1 DEF Creating, Outgoing!Delivering, Outgoing!Idle
<1>4. RoomKept BY <1>1, <1>3, FS_EmptySet DEF RoomKept, Outgoing!HookAssumption
<1>5. CountKnown BY <1>1, <1>3 DEF CountKnown
<1> QED BY <1>2, <1>4, <1>5 DEF HookInv

\* A call that becomes idle, or begins.
LEMMA CallGoes ==
  ASSUME HookShapes, NEW r \in Requests, NEW to \in HookCall, hookCall' = [hookCall EXCEPT ![r] = to]
  PROVE  /\ hookCall' \in [Requests -> HookCall]
         /\ Creating' = (Creating \ {r}) \cup (IF to.step = "create" THEN {r} ELSE {})
         /\ \A h \in Hooks : Outgoing!Delivering(h)' = (Outgoing!Delivering(h) \ {r}) \cup
              (IF to.step = "deliver" /\ to.hook = h THEN {r} ELSE {})
  BY DEF HookShapes, Creating, Outgoing!Delivering

LEMMA BeginCreateKeeps ==
  ASSUME HookInv, NEW r \in Requests, Outgoing!BeginCreateWebhook(r)
  PROVE  HookInv'
<1> DEFINE to == [step |-> "create"]
<1>1. /\ hookCall[r] = Outgoing!Idle /\ Cardinality(DOMAIN hook) < MaxWebhooks
      /\ hookCall' = [hookCall EXCEPT ![r] = to]
      /\ crowded' = (crowded \/ Creating # {}) /\ UNCHANGED <<hook, streak, raced>>
  BY HookCardinality DEF Outgoing!BeginCreateWebhook, Outgoing!Goes, Creating
<1>2. to \in HookCall /\ to.step = "create" BY DEF HookCall
<1> HIDE DEF to
<1>3. /\ hookCall' \in [Requests -> HookCall] /\ Creating' = (Creating \ {r}) \cup {r}
      /\ \A h \in Hooks : Outgoing!Delivering(h)' = Outgoing!Delivering(h) \ {r}
  <2>1. /\ hookCall' \in [Requests -> HookCall]
        /\ Creating' = (Creating \ {r}) \cup (IF to.step = "create" THEN {r} ELSE {})
        /\ \A g \in Hooks : Outgoing!Delivering(g)' = (Outgoing!Delivering(g) \ {r}) \cup
             (IF to.step = "deliver" /\ to.hook = g THEN {r} ELSE {})
    BY Zenon, <1>1, <1>2, CallGoes DEF HookInv
  <2> QED BY <2>1, <1>1, <1>2
<1>4. HookShapes' BY <1>1, <1>3 DEF HookInv, HookShapes
<1>5. RoomKept' BY <1>1, <1>3 DEF HookInv, RoomKept, HookShapes
<1>6. \A q \in Requests : q # r => hookCall'[q] = hookCall[q] BY <1>1 DEF HookInv, HookShapes
<1>7. CountKnown' BY <1>1, <1>3, <1>6 DEF HookInv, CountKnown, Outgoing!Delivering
<1> QED BY <1>4, <1>5, <1>7 DEF HookInv

LEMMA CreateHookKeeps ==
  ASSUME Outgoing!HookAssumption, HookInv, NEW r \in Requests, NEW h \in Hooks,
         Outgoing!CreateWebhook(r, h)
  PROVE  HookInv'
<1> DEFINE new == [active |-> TRUE, secret |-> "first", failures |-> 0]
<1>1. /\ r \in Creating /\ h \notin DOMAIN hook /\ Outgoing!Delivering(h) = {}
      /\ hook' = [g \in DOMAIN hook \cup {h} |-> IF g = h THEN new ELSE hook[g]]
      /\ streak' = [streak EXCEPT ![h] = 0] /\ raced' = raced \ {h}
      /\ hookCall' = [hookCall EXCEPT ![r] = Outgoing!Idle] /\ UNCHANGED crowded
  BY DEF Outgoing!CreateWebhook, Outgoing!Goes, Creating
<1>2. new \in Outgoing!Webhook /\ new.failures = 0 BY DEF Outgoing!Webhook, Outgoing!HookAssumption
<1> HIDE DEF new
<1>3. /\ DOMAIN hook' = DOMAIN hook \cup {h} /\ hook'[h] = new
      /\ \A g \in DOMAIN hook : hook'[g] = hook[g]
  BY <1>1
<1>4. Outgoing!Idle \in HookCall /\ Outgoing!Idle.step = "idle" BY DEF HookCall, Outgoing!Idle
<1>5. /\ hookCall' \in [Requests -> HookCall] /\ Creating' = Creating \ {r}
      /\ \A g \in Hooks : Outgoing!Delivering(g)' = Outgoing!Delivering(g) \ {r}
  <2>1. /\ hookCall' \in [Requests -> HookCall]
        /\ Creating' = (Creating \ {r}) \cup (IF Outgoing!Idle.step = "create" THEN {r} ELSE {})
        /\ \A g \in Hooks : Outgoing!Delivering(g)' = (Outgoing!Delivering(g) \ {r}) \cup
             (IF Outgoing!Idle.step = "deliver" /\ Outgoing!Idle.hook = g THEN {r} ELSE {})
    BY Zenon, <1>1, <1>4, CallGoes DEF HookInv
  <2> QED BY <2>1, <1>1, <1>4
<1>6. /\ IsFiniteSet(DOMAIN hook') /\ Cardinality(DOMAIN hook) \in Nat
      /\ Cardinality(DOMAIN hook') = Cardinality(DOMAIN hook) + 1
  BY <1>1, <1>3, FS_AddElement, FS_CardinalityType DEF HookInv, HookShapes
<1>7. HookShapes'
  BY <1>1, <1>2, <1>3, <1>5, <1>6 DEF HookInv, HookShapes, Outgoing!HookAssumption
<1>8. RoomKept'
  BY <1>1, <1>5, <1>6 DEF HookInv, RoomKept, Outgoing!HookAssumption
<1>9. \A q \in Requests : q # r => hookCall'[q] = hookCall[q] BY <1>1 DEF HookInv, HookShapes
<1>10. streak'[h] = 0 /\ \A g \in Hooks : g # h => streak'[g] = streak[g]
  BY <1>1 DEF HookInv, HookShapes
<1>11. CountKnown'
  BY <1>1, <1>2, <1>3, <1>5, <1>9, <1>10 DEF HookInv, CountKnown, Outgoing!Delivering
<1> QED BY <1>7, <1>8, <1>11 DEF HookInv

LEMMA RowsKeep ==
  ASSUME Outgoing!HookAssumption, HookInv, NEW h \in DOMAIN hook,
         \/ \E active \in BOOLEAN : Outgoing!UpdateWebhook(h, active)
         \/ Outgoing!RotateSecret(h) \/ Outgoing!DeleteWebhook(h)
  PROVE  HookInv'
<1>1. UNCHANGED <<streak, crowded, raced, hookCall>>
  BY DEF Outgoing!UpdateWebhook, Outgoing!RotateSecret, Outgoing!DeleteWebhook
<1>2. /\ DOMAIN hook' \subseteq DOMAIN hook
      /\ \A g \in DOMAIN hook' : /\ hook'[g] \in Outgoing!Webhook
                                 /\ hook'[g].failures = hook[g].failures
  <2>1. hook[h] \in Outgoing!Webhook /\ \A g \in DOMAIN hook : hook[g] \in Outgoing!Webhook
    BY DEF HookInv, HookShapes
  <2>2. CASE \E active \in BOOLEAN : Outgoing!UpdateWebhook(h, active)
    <3>1. PICK active \in BOOLEAN : hook' = [hook EXCEPT ![h].active = active]
      BY <2>2 DEF Outgoing!UpdateWebhook
    <3> DEFINE w == [hook[h] EXCEPT !.active = active]
    <3>2. w \in Outgoing!Webhook /\ w.failures = hook[h].failures BY <2>1 DEF Outgoing!Webhook
    <3>3. hook' = [hook EXCEPT ![h] = w] BY <3>1
    <3> HIDE DEF w
    <3> QED BY <2>1, <3>2, <3>3
  <2>3. CASE Outgoing!RotateSecret(h)
    <3> DEFINE w == [hook[h] EXCEPT !.secret = "rotated"]
    <3>1. w \in Outgoing!Webhook /\ w.failures = hook[h].failures BY <2>1 DEF Outgoing!Webhook
    <3>2. hook' = [hook EXCEPT ![h] = w] BY <2>3 DEF Outgoing!RotateSecret
    <3> HIDE DEF w
    <3> QED BY <2>1, <3>1, <3>2
  <2>4. CASE Outgoing!DeleteWebhook(h)
    <3>1. hook' = [g \in DOMAIN hook \ {h} |-> hook[g]] BY <2>4 DEF Outgoing!DeleteWebhook
    <3> QED BY <2>1, <3>1
  <2> QED BY <2>2, <2>3, <2>4
<1>3. IsFiniteSet(DOMAIN hook') /\ Cardinality(DOMAIN hook') <= Cardinality(DOMAIN hook)
      /\ Cardinality(DOMAIN hook) \in Nat /\ Cardinality(DOMAIN hook') \in Nat
  BY <1>2, FS_Subset, FS_CardinalityType DEF HookInv, HookShapes
<1>4. Creating' = Creating /\ \A g : Outgoing!Delivering(g)' = Outgoing!Delivering(g)
  BY <1>1 DEF Creating, Outgoing!Delivering
<1>5. HookShapes' BY <1>1, <1>2, <1>3 DEF HookInv, HookShapes
<1>6. RoomKept' BY <1>1, <1>3, <1>4 DEF HookInv, RoomKept, Outgoing!HookAssumption
<1>7. CountKnown' BY <1>1, <1>2, <1>4 DEF HookInv, CountKnown
<1> QED BY <1>5, <1>6, <1>7 DEF HookInv

LEMMA TestKeeps ==
  ASSUME HookInv, NEW r \in Requests, NEW h \in DOMAIN hook, Outgoing!TestWebhook(r, h)
  PROVE  HookInv'
<1> DEFINE to == [step |-> "deliver", hook |-> h, read |-> hook[h].failures]
<1>1. /\ hookCall[r] = Outgoing!Idle /\ hookCall' = [hookCall EXCEPT ![r] = to]
      /\ raced' = IF Outgoing!Delivering(h) = {} THEN raced ELSE raced \cup {h}
      /\ UNCHANGED <<hook, streak, crowded>>
  BY DEF Outgoing!TestWebhook, Outgoing!Goes
<1>2. /\ to \in HookCall /\ to.step = "deliver" /\ to.hook = h /\ to.read = hook[h].failures
      /\ h \in Hooks
  BY DEF HookCall, Delivery, HookInv, HookShapes, Outgoing!Webhook
<1> HIDE DEF to
<1>3. /\ hookCall' \in [Requests -> HookCall] /\ Creating' = Creating \ {r}
      /\ \A g \in Hooks : Outgoing!Delivering(g)' = (Outgoing!Delivering(g) \ {r}) \cup
                                                    (IF g = h THEN {r} ELSE {})
  <2>1. /\ hookCall' \in [Requests -> HookCall]
        /\ Creating' = (Creating \ {r}) \cup (IF to.step = "create" THEN {r} ELSE {})
        /\ \A g \in Hooks : Outgoing!Delivering(g)' = (Outgoing!Delivering(g) \ {r}) \cup
             (IF to.step = "deliver" /\ to.hook = g THEN {r} ELSE {})
    BY Zenon, <1>1, <1>2, CallGoes DEF HookInv
  <2> QED BY <2>1, <1>1, <1>2
<1>4. r \notin Creating /\ \A g \in Hooks : r \notin Outgoing!Delivering(g)
  BY <1>1 DEF Creating, Outgoing!Delivering, Outgoing!Idle
<1>5. HookShapes' BY <1>1, <1>2, <1>3 DEF HookInv, HookShapes
<1>6. RoomKept' BY <1>1, <1>3, <1>4 DEF HookInv, RoomKept
<1>7. hookCall'[r] = to /\ \A q \in Requests : q # r => hookCall'[q] = hookCall[q]
  BY <1>1 DEF HookInv, HookShapes
<1>8. CountKnown'
  <2> SUFFICES ASSUME NEW g \in Hooks \ raced'
               PROVE  /\ \A p, q \in Outgoing!Delivering(g)' : p = q
                      /\ g \in DOMAIN hook =>
                           /\ hook[g].failures = streak[g]
                           /\ \A q \in Outgoing!Delivering(g)' : hookCall'[q].read = streak[g]
    BY <1>1 DEF CountKnown
  <2>1. g \in Hooks \ raced BY <1>1
  <2>2. g = h => Outgoing!Delivering(h) = {} BY <1>1
  <2>3. \A q \in Outgoing!Delivering(g) : q \in Requests BY DEF Outgoing!Delivering
  <2> QED BY <1>2, <1>3, <1>4, <1>7, <2>1, <2>2, <2>3 DEF HookInv, CountKnown
<1> QED BY <1>5, <1>6, <1>8 DEF HookInv

LEMMA DeliverKeeps ==
  ASSUME Outgoing!HookAssumption, HookInv, NEW r \in Requests, NEW success \in BOOLEAN,
         Outgoing!DeliverWebhook(r, success)
  PROVE  HookInv'
<1> DEFINE h == hookCall[r].hook
           n == IF success THEN 0 ELSE hookCall[r].read + 1
           failures == IF n = hookCall[r].read THEN hook[h].failures ELSE n
           fails == IF success THEN 0
                    ELSE IF streak[h] < MaxFailures THEN streak[h] + 1 ELSE streak[h]
           w == [hook[h] EXCEPT !.failures = failures]
<1>1. /\ hookCall[r].step = "deliver" /\ n <= MaxFailures
      /\ hookCall' = [hookCall EXCEPT ![r] = Outgoing!Idle] /\ UNCHANGED <<crowded, raced>>
      /\ IF h \in DOMAIN hook
         THEN hook' = [hook EXCEPT ![h] = w] /\ streak' = [streak EXCEPT ![h] = fails]
         ELSE UNCHANGED <<hook, streak>>
  BY Zenon DEF Outgoing!DeliverWebhook, Outgoing!Goes
<1>2. /\ hookCall[r] \in Delivery /\ h \in Hooks /\ hookCall[r].read \in 0..MaxFailures
      /\ r \in Outgoing!Delivering(h) /\ r \notin Creating
  BY <1>1, HookFields DEF HookInv, Delivery, Outgoing!Delivering, Creating
<1>3. n \in 0..MaxFailures /\ streak[h] \in 0..MaxFailures /\ fails \in 0..MaxFailures
  BY <1>1, <1>2 DEF HookInv, HookShapes, Outgoing!HookAssumption
<1>4. h \in DOMAIN hook => /\ failures \in 0..MaxFailures
                           /\ w \in Outgoing!Webhook /\ w.failures = failures
  BY <1>3 DEF HookInv, HookShapes, Outgoing!Webhook
<1>5. h \in DOMAIN hook /\ h \notin raced => failures = fails
  <2> SUFFICES ASSUME h \in DOMAIN hook, h \notin raced PROVE failures = fails OBVIOUS
  <2>1. hook[h].failures = streak[h] /\ hookCall[r].read = streak[h]
    BY <1>2 DEF HookInv, CountKnown
  <2> QED BY <1>1, <1>3, <2>1 DEF Outgoing!HookAssumption
<1> HIDE DEF h, n, failures, fails, w
<1>6. Outgoing!Idle \in HookCall /\ Outgoing!Idle.step = "idle" BY DEF HookCall, Outgoing!Idle
<1>7. /\ hookCall' \in [Requests -> HookCall] /\ Creating' = Creating
      /\ \A g \in Hooks : Outgoing!Delivering(g)' = Outgoing!Delivering(g) \ {r}
  <2>1. /\ hookCall' \in [Requests -> HookCall]
        /\ Creating' = (Creating \ {r}) \cup (IF Outgoing!Idle.step = "create" THEN {r} ELSE {})
        /\ \A g \in Hooks : Outgoing!Delivering(g)' = (Outgoing!Delivering(g) \ {r}) \cup
             (IF Outgoing!Idle.step = "deliver" /\ Outgoing!Idle.hook = g THEN {r} ELSE {})
    BY Zenon, <1>1, <1>2, <1>6, CallGoes DEF HookInv
  <2> QED BY <2>1, <1>1, <1>2, <1>6
<1>8. /\ DOMAIN hook' = DOMAIN hook
      /\ \A g \in DOMAIN hook : hook'[g] = IF g = h THEN w ELSE hook[g]
      /\ streak' \in [Hooks -> 0..MaxFailures]
      /\ \A g \in Hooks : streak'[g] = IF g = h /\ h \in DOMAIN hook THEN fails ELSE streak[g]
  BY <1>1, <1>2, <1>3 DEF HookInv, HookShapes
<1>9. HookShapes' BY <1>1, <1>4, <1>7, <1>8 DEF HookInv, HookShapes
<1>10. RoomKept' BY <1>1, <1>7, <1>8 DEF HookInv, RoomKept
<1>11. CountKnown'
  <2> SUFFICES ASSUME NEW g \in Hooks \ raced
               PROVE  /\ \A p, q \in Outgoing!Delivering(g)' : p = q
                      /\ g \in DOMAIN hook =>
                           /\ hook'[g].failures = streak'[g]
                           /\ \A q \in Outgoing!Delivering(g)' : hookCall'[q].read = streak'[g]
    BY <1>1, <1>8 DEF CountKnown
  <2>1. g = h => Outgoing!Delivering(g)' = {}
    BY <1>2, <1>7 DEF HookInv, CountKnown
  <2>2. \A q \in Outgoing!Delivering(g)' : q \in Requests /\ q # r BY <1>7 DEF Outgoing!Delivering
  <2>3. \A q \in Requests : q # r => hookCall'[q] = hookCall[q] BY <1>1 DEF HookInv, HookShapes
  <2> QED BY <1>4, <1>5, <1>7, <1>8, <2>1, <2>2, <2>3 DEF HookInv, CountKnown
<1> QED BY <1>9, <1>10, <1>11 DEF HookInv

LEMMA HookNext == ASSUME Outgoing!HookAssumption, HookInv, [Outgoing!Next]_hooksVars PROVE HookInv'
<1>1. CASE \E r \in Requests : Outgoing!BeginCreateWebhook(r) BY <1>1, BeginCreateKeeps
<1>2. CASE \E r \in Requests, h \in DOMAIN hook : Outgoing!TestWebhook(r, h) BY <1>2, TestKeeps
<1>3. CASE \E h \in DOMAIN hook : \/ \E active \in BOOLEAN : Outgoing!UpdateWebhook(h, active)
                                  \/ Outgoing!RotateSecret(h) \/ Outgoing!DeleteWebhook(h)
  BY <1>3, RowsKeep
<1>4. CASE \E r \in Requests, h \in Hooks : Outgoing!CreateWebhook(r, h) BY <1>4, CreateHookKeeps
<1>5. CASE \E r \in Requests, success \in BOOLEAN : Outgoing!DeliverWebhook(r, success)
  BY <1>5, DeliverKeeps
<1>6. CASE UNCHANGED hooksVars
  <2>1. UNCHANGED <<hook, streak, hookCall, crowded, raced>> BY <1>6 DEF hooksVars
  <2>2. Creating' = Creating /\ \A g : Outgoing!Delivering(g)' = Outgoing!Delivering(g)
    BY <2>1 DEF Creating, Outgoing!Delivering
  <2> QED BY <2>1, <2>2 DEF HookInv, HookShapes, RoomKept, CountKnown
<1> QED BY <1>1, <1>2, <1>3, <1>4, <1>5, <1>6
        DEF Outgoing!Next, Outgoing!PostWebhook, Outgoing!PatchWebhook, Outgoing!Delete,
            Outgoing!PostRotateSecret, Outgoing!PostTest

LEMMA HookImplies == ASSUME HookInv PROVE Outgoing!TypeOK /\ Outgoing!HooksCounted
<1>1. Outgoing!TypeOK BY HookFields DEF HookInv, HookShapes, Outgoing!TypeOK
<1>2. Outgoing!HooksCounted
  BY HookCardinality DEF HookInv, HookShapes, RoomKept, CountKnown, Outgoing!HooksCounted
<1> QED BY <1>1, <1>2
------------------------------------------------------------------------------
(* The language model *)

LEMMA AiCardinality ==
  ASSUME NEW S
  PROVE  Ai!Cardinality(S) = Cardinality(S) /\ Ai!IsFiniteSet(S) = IsFiniteSet(S)
<1>1. Ai!Cardinality(S) = Cardinality(S) BY Zenon DEF Ai!Cardinality, Cardinality
<1>2. Ai!IsFiniteSet(S) = IsFiniteSet(S) BY Zenon DEF Ai!IsFiniteSet, IsFiniteSet
<1> QED BY <1>1, <1>2

\* Analyses that are going to commit an entity for the trust of m.
Making(m) == {r \in Requests : aiCall[r].step = "asked" /\ aiCall[r].of = m /\ aiCall[r].creates}

AiShapes ==
  /\ now \in 1..MaxTime /\ firmWindow \in SUBSET (1..now)
  /\ matterWindow \in [Estates -> SUBSET (1..now)]
  /\ aiCall \in [Requests -> {Ai!Idle} \cup Ai!Request]
  /\ usage \in Ai!AIUsageLog /\ trusts \in [TrustDocs -> Nat] /\ overlapped \subseteq TrustDocs
  /\ calls \subseteq Estates \X (1..now) /\ entered \in [TrustDocs -> 0..MaxEntered]
\* The calls of the firm.
FirmCalls == {t \in 1..now : \E m \in Estates : <<m, t>> \in calls}
\* A window holds calls, and all of the last hour; none has more than its limit.
WindowsAgree ==
  /\ firmWindow \subseteq FirmCalls /\ \A t \in FirmCalls : t + Hour > now => t \in firmWindow
  /\ KeptWithin(FirmCalls, Hour, Lag, FirmLimit, now)
  /\ \A m \in Estates :
       /\ matterWindow[m] \subseteq Ai!CallsOf(m)
       /\ \A t \in Ai!CallsOf(m) : t + Hour > now => t \in matterWindow[m]
       /\ KeptWithin(Ai!CallsOf(m), Hour, Lag, MatterLimit, now)
\* Only an analysis of a trust document that has asked creates an entity.
AnalysesOnly == \A r \in Requests : aiCall[r] # Ai!Idle =>
  /\ aiCall[r].op = "trust_analysis" => aiCall[r].of \in TrustDocs
  /\ aiCall[r].creates => aiCall[r].step = "asked" /\ aiCall[r].op = "trust_analysis"
\* Nobody starts to make a second entity once there is one; and of a trust whose
\* analyses never overlapped one analysis at most is on its way.
TrustsCounted ==
  /\ \A m \in TrustDocs : trusts[m] + Cardinality(Making(m)) <= Cardinality(Requests)
  /\ \A m \in TrustDocs \ overlapped : /\ trusts[m] <= 1
                                       /\ \A r, q \in Ai!Analyses(m) : r = q
                                       /\ Making(m) # {} => trusts[m] = 0

AiInv == AiShapes /\ WindowsAgree /\ AnalysesOnly /\ TrustsCounted

LEMMA AiCallFields ==
  ASSUME AiShapes, AnalysesOnly, NEW r \in Requests
  PROVE  /\ aiCall[r].step \in {"idle", "checked", "asked"}
         /\ aiCall[r].step = "idle" <=> aiCall[r] = Ai!Idle
         /\ aiCall[r].step # "idle" => aiCall[r] \in Ai!Request
         /\ aiCall[r].step = "checked" => ~aiCall[r].creates
<1>1. CASE aiCall[r] = Ai!Idle BY <1>1 DEF Ai!Idle
<1>2. CASE aiCall[r] \in Ai!Request
  <2>1. aiCall[r].step \in {"checked", "asked"} BY <1>2 DEF Ai!Request
  <2>2. aiCall[r] # Ai!Idle BY <2>1 DEF Ai!Idle
  <2> QED BY <1>2, <2>1, <2>2 DEF AnalysesOnly
<1> QED BY <1>1, <1>2 DEF AiShapes

LEMMA MakingIsCounted ==
  ASSUME Ai!AiAssumption, NEW m
  PROVE  /\ IsFiniteSet(Making(m)) /\ Cardinality(Making(m)) \in Nat
         /\ Cardinality(Making(m)) <= Cardinality(Requests) /\ Cardinality(Requests) \in Nat
<1>1. IsFiniteSet(Requests) BY AiCardinality DEF Ai!AiAssumption
<1>2. Making(m) \subseteq Requests BY DEF Making
<1> QED BY <1>1, <1>2, FS_Subset, FS_CardinalityType

LEMMA AiInit == ASSUME Ai!AiAssumption, Ai!Init PROVE AiInv
<1>1. /\ now = 1 /\ firmWindow = {} /\ matterWindow = [m \in Estates |-> {}]
      /\ aiCall = [r \in Requests |-> Ai!Idle] /\ usage = [success |-> 0, error |-> 0]
      /\ trusts = [m \in TrustDocs |-> 0] /\ overlapped = {}
      /\ calls = {} /\ entered = [m \in TrustDocs |-> 0]
  BY DEF Ai!Init
<1>2. AiShapes
  <2>1. usage \in Ai!AIUsageLog BY <1>1 DEF Ai!AIUsageLog, Ai!AiAssumption
  <2> QED BY <1>1, <2>1 DEF AiShapes, Ai!AiAssumption
<1>3. WindowsAgree
  <2>1. KeptWithin({}, Hour, Lag, FirmLimit, now) /\ KeptWithin({}, Hour, Lag, MatterLimit, now)
    BY <1>1, EmptyKept DEF Ai!AiAssumption
  <2>2. FirmCalls = {} /\ \A m \in Estates : Ai!CallsOf(m) = {} BY <1>1 DEF FirmCalls, Ai!CallsOf
  <2> QED BY <1>1, <2>1, <2>2 DEF WindowsAgree
<1>4. AnalysesOnly BY <1>1 DEF AnalysesOnly
<1>5. \A m : Making(m) = {} /\ Ai!Analyses(m) = {}
  BY <1>1 DEF Making, Ai!Analyses, Ai!Idle
<1>6. TrustsCounted
  <2>1. Cardinality(Requests) \in Nat BY MakingIsCounted
  <2>2. Cardinality({}) = 0 BY FS_EmptySet
  <2> QED BY <1>1, <1>5, <2>1, <2>2 DEF TrustsCounted
<1> QED BY <1>2, <1>3, <1>4, <1>6 DEF AiInv

\* A request goes on, or ends: what becomes of the analyses on their way.
LEMMA AiCallGoes ==
  ASSUME AiInv, NEW r \in Requests, NEW to \in {Ai!Idle} \cup Ai!Request,
         aiCall' = [aiCall EXCEPT ![r] = to],
         to # Ai!Idle => /\ to.op = "trust_analysis" => to.of \in TrustDocs
                         /\ to.creates => to.step = "asked" /\ to.op = "trust_analysis"
  PROVE  /\ aiCall' \in [Requests -> {Ai!Idle} \cup Ai!Request] /\ AnalysesOnly'
         /\ \A m : Making(m)' = (Making(m) \ {r}) \cup
              (IF to.step = "asked" /\ to.of = m /\ to.creates THEN {r} ELSE {})
         /\ \A m : Ai!Analyses(m)' = (Ai!Analyses(m) \ {r}) \cup
              (IF to.step = "asked" /\ to.op = "trust_analysis" /\ to.of = m THEN {r} ELSE {})
<1>1. /\ aiCall' \in [Requests -> {Ai!Idle} \cup Ai!Request]
      /\ \A q \in Requests : aiCall'[q] = IF q = r THEN to ELSE aiCall[q]
  BY DEF AiInv, AiShapes
<1>2. AnalysesOnly' BY <1>1 DEF AiInv, AnalysesOnly
<1>3. ASSUME NEW m
      PROVE  Making(m)' = (Making(m) \ {r}) \cup
              (IF to.step = "asked" /\ to.of = m /\ to.creates THEN {r} ELSE {})
  BY <1>1 DEF Making
<1>4. ASSUME NEW m
      PROVE  Ai!Analyses(m)' = (Ai!Analyses(m) \ {r}) \cup
              (IF to.step = "asked" /\ to.op = "trust_analysis" /\ to.of = m THEN {r} ELSE {})
  BY <1>1 DEF Ai!Analyses
<1> QED BY <1>1, <1>2, <1>3, <1>4

\* Fewer analyses, the same entities.
LEMMA TrustsStand ==
  ASSUME Ai!AiAssumption, AiInv, UNCHANGED <<trusts, overlapped>>,
         \A m : Making(m)' \subseteq Making(m) /\ Ai!Analyses(m)' \subseteq Ai!Analyses(m)
  PROVE  TrustsCounted'
<1>1. \A m : Cardinality(Making(m)') <= Cardinality(Making(m)) /\ Cardinality(Making(m)') \in Nat
  BY MakingIsCounted, FS_Subset, FS_CardinalityType
<1>2. ASSUME NEW m \in TrustDocs
      PROVE  trusts[m] + Cardinality(Making(m)') <= Cardinality(Requests)
  <2>1. /\ trusts[m] \in Nat /\ trusts[m] + Cardinality(Making(m)) <= Cardinality(Requests)
    BY DEF AiInv, AiShapes, TrustsCounted
  <2>2. Cardinality(Making(m)) \in Nat /\ Cardinality(Requests) \in Nat BY MakingIsCounted
  <2> QED BY <1>1, <2>1, <2>2
<1>3. ASSUME NEW m \in TrustDocs \ overlapped
      PROVE  /\ trusts[m] <= 1 /\ \A r, q \in Ai!Analyses(m)' : r = q
             /\ Making(m)' # {} => trusts[m] = 0
  <2>1. /\ trusts[m] <= 1 /\ \A r, q \in Ai!Analyses(m) : r = q
        /\ Making(m) # {} => trusts[m] = 0
    BY DEF AiInv, TrustsCounted
  <2>2. Making(m)' \subseteq Making(m) /\ Ai!Analyses(m)' \subseteq Ai!Analyses(m) OBVIOUS
  <2> QED BY <2>1, <2>2
<1> QED BY <1>2, <1>3 DEF TrustsCounted

LEMMA AiWindowsStand ==
  ASSUME WindowsAgree, UNCHANGED <<now, firmWindow, matterWindow, calls>>
  PROVE  WindowsAgree'
<1>1. FirmCalls' = FirmCalls /\ \A m : Ai!CallsOf(m)' = Ai!CallsOf(m) BY DEF FirmCalls, Ai!CallsOf
<1> QED BY <1>1 DEF WindowsAgree

\* What the clock a request sent finds live is enough, however late the script runs.
LEMMA LiveIsSeen ==
  ASSUME Ai!AiAssumption, now \in Nat, NEW at, Ai!Clock(at), NEW w \in SUBSET (1..now),
         NEW instants \in SUBSET (1..now), \A t \in instants : t + Hour > now => t \in w
  PROVE  /\ at \in 1..now /\ Ai!Live(w, at) \in SUBSET (1..now)
         /\ Ai!Live(w, at) \subseteq w
         /\ \A t \in instants : t + Hour > at + Lag => t \in Ai!Live(w, at)
         /\ \A t \in instants : t + Hour > now => t \in Ai!Live(w, at)
<1>1. at \in 1..now /\ now <= at + Lag /\ Hour \in Nat /\ Lag \in Nat
  BY DEF Ai!Clock, Ai!AiAssumption
<1>2. \A t \in instants : t + Hour > at + Lag \/ t + Hour > now => t + Hour > now /\ t + Hour > at
  BY <1>1
<1> QED BY <1>1, <1>2 DEF Ai!Live

LEMMA PassesEnters ==
  ASSUME Ai!AiAssumption, AiInv, NEW m \in Estates, NEW at, Ai!Clock(at), Ai!Check(m, at),
         UNCHANGED now
  PROVE  /\ WindowsAgree' /\ firmWindow' \in SUBSET (1..now)
         /\ matterWindow' \in [Estates -> SUBSET (1..now)] /\ calls' \subseteq Estates \X (1..now)
<1>1. /\ now \in Nat \ {0} /\ {FirmLimit, MatterLimit, Hour, Lag} \subseteq Nat
      /\ firmWindow \in SUBSET (1..now) /\ matterWindow \in [Estates -> SUBSET (1..now)]
      /\ calls \subseteq Estates \X (1..now)
  BY DEF AiInv, AiShapes, Ai!AiAssumption
<1> DEFINE enter == IF Ai!Passes(m, at) THEN {at} ELSE {}
           live == Ai!Live(firmWindow, at)
           own == Ai!Live(matterWindow[m], at)
<1>2. /\ firmWindow' = live \cup enter
      /\ matterWindow' = [matterWindow EXCEPT ![m] = own \cup enter]
      /\ calls' = calls \cup ({m} \X enter)
  BY DEF Ai!Check
<1>3. /\ FirmCalls \in SUBSET (1..now) /\ matterWindow[m] \in SUBSET (1..now)
      /\ \A e : Ai!CallsOf(e) \in SUBSET (1..now)
  BY <1>1 DEF FirmCalls, Ai!CallsOf
<1>4. /\ at \in 1..now /\ live \in SUBSET (1..now) /\ live \subseteq firmWindow
      /\ \A t \in FirmCalls : t + Hour > at + Lag => t \in live
      /\ \A t \in FirmCalls : t + Hour > now => t \in live
  BY <1>1, <1>3, LiveIsSeen DEF AiInv, WindowsAgree
<1>5. /\ own \in SUBSET (1..now) /\ own \subseteq matterWindow[m]
      /\ \A t \in Ai!CallsOf(m) : t + Hour > at + Lag => t \in own
      /\ \A t \in Ai!CallsOf(m) : t + Hour > now => t \in own
  BY <1>1, <1>3, LiveIsSeen DEF AiInv, WindowsAgree
<1>6. Ai!Passes(m, at) => Cardinality(live) < FirmLimit /\ Cardinality(own) < MatterLimit
  BY AiCardinality DEF Ai!Passes
<1>7. enter = {} \/ (enter = {at} /\ Ai!Passes(m, at)) OBVIOUS
<1> HIDE DEF enter, live, own
<1>8. KeptWithin(FirmCalls \cup enter, Hour, Lag, FirmLimit, now)
  <2>1. KeptWithin(FirmCalls, Hour, Lag, FirmLimit, now) BY DEF AiInv, WindowsAgree
  <2>2. CASE enter = {} BY <2>1, <2>2
  <2>3. CASE enter = {at} /\ Ai!Passes(m, at)
    BY <1>1, <1>3, <1>4, <1>6, <2>1, <2>3, EnterKeepsWithin
  <2> QED BY <1>7, <2>2, <2>3
<1>9. KeptWithin(Ai!CallsOf(m) \cup enter, Hour, Lag, MatterLimit, now)
  <2>1. KeptWithin(Ai!CallsOf(m), Hour, Lag, MatterLimit, now) BY DEF AiInv, WindowsAgree
  <2>2. CASE enter = {} BY <2>1, <2>2
  <2>3. CASE enter = {at} /\ Ai!Passes(m, at)
    <3>1. Ai!CallsOf(m) \in SUBSET (1..now) BY <1>3
    <3> QED BY <1>1, <1>4, <1>5, <1>6, <2>1, <2>3, <3>1, EnterKeepsWithin
  <2> QED BY <1>7, <2>2, <2>3
<1>10. enter \in SUBSET (1..now) BY <1>4, <1>7
<1>11. /\ calls' \subseteq Estates \X (1..now)
       /\ \A e, t : <<e, t>> \in calls' <=> <<e, t>> \in calls \/ (e = m /\ t \in enter)
  BY <1>1, <1>2, <1>10
<1>12. FirmCalls' = FirmCalls \cup enter BY <1>10, <1>11 DEF FirmCalls
<1>13. \A e : Ai!CallsOf(e)' = IF e = m THEN Ai!CallsOf(m) \cup enter ELSE Ai!CallsOf(e)
  BY <1>10, <1>11 DEF Ai!CallsOf
<1>14. /\ matterWindow' \in [Estates -> SUBSET (1..now)]
       /\ \A e \in Estates : matterWindow'[e] = IF e = m THEN own \cup enter ELSE matterWindow[e]
  BY <1>1, <1>2, <1>5, <1>10
<1>15. firmWindow' \in SUBSET (1..now) BY <1>2, <1>4, <1>10
<1>16. /\ firmWindow' \subseteq FirmCalls'
       /\ \A t \in FirmCalls' : t + Hour > now' => t \in firmWindow'
       /\ KeptWithin(FirmCalls', Hour, Lag, FirmLimit, now')
  BY <1>2, <1>4, <1>8, <1>12 DEF AiInv, WindowsAgree
<1>17. ASSUME NEW e \in Estates
       PROVE  /\ matterWindow'[e] \subseteq Ai!CallsOf(e)'
              /\ \A t \in Ai!CallsOf(e)' : t + Hour > now' => t \in matterWindow'[e]
              /\ KeptWithin(Ai!CallsOf(e)', Hour, Lag, MatterLimit, now')
  <2>1. CASE e = m
    <3>1. matterWindow'[e] = own \cup enter /\ Ai!CallsOf(e)' = Ai!CallsOf(m) \cup enter
      BY <1>13, <1>14, <2>1
    <3> QED BY <1>5, <1>9, <3>1 DEF AiInv, WindowsAgree
  <2>2. CASE e # m
    <3>1. matterWindow'[e] = matterWindow[e] /\ Ai!CallsOf(e)' = Ai!CallsOf(e)
      BY <1>13, <1>14, <2>2
    <3> QED BY <3>1 DEF AiInv, WindowsAgree
  <2> QED BY <2>1, <2>2
<1>18. WindowsAgree' BY <1>16, <1>17 DEF WindowsAgree
<1> QED BY <1>11, <1>14, <1>15, <1>18

LEMMA CheckRateLimitKeeps ==
  ASSUME Ai!AiAssumption, AiInv, NEW r \in Requests, NEW m \in Estates, NEW op \in Ai!Operation,
         NEW at, op = "trust_analysis" => m \in TrustDocs, Ai!CheckRateLimit(r, m, at, op)
  PROVE  AiInv'
<1> DEFINE to == [step |-> "checked", of |-> m, op |-> op, creates |-> FALSE]
<1>1. /\ aiCall[r] = Ai!Idle /\ aiCall' = [aiCall EXCEPT ![r] = to]
      /\ Ai!Clock(at) /\ (Ai!Check(m, at) \/ UNCHANGED <<firmWindow, matterWindow, calls>>)
      /\ UNCHANGED <<now, usage, trusts, entered, overlapped>>
  BY DEF Ai!CheckRateLimit
<1>2. /\ to \in Ai!Request /\ to.step = "checked" /\ to.op = op /\ to.of = m /\ ~to.creates
  BY DEF Ai!Request
<1> HIDE DEF to
<1>3. /\ aiCall' \in [Requests -> {Ai!Idle} \cup Ai!Request] /\ AnalysesOnly'
      /\ \A e : Making(e)' \subseteq Making(e) /\ Ai!Analyses(e)' \subseteq Ai!Analyses(e)
  <2>1. /\ aiCall' \in [Requests -> {Ai!Idle} \cup Ai!Request] /\ AnalysesOnly'
        /\ \A e : Making(e)' = (Making(e) \ {r}) \cup
              (IF to.step = "asked" /\ to.of = e /\ to.creates THEN {r} ELSE {})
        /\ \A e : Ai!Analyses(e)' = (Ai!Analyses(e) \ {r}) \cup
              (IF to.step = "asked" /\ to.op = "trust_analysis" /\ to.of = e THEN {r} ELSE {})
    BY Zenon, <1>1, <1>2, AiCallGoes
  <2> QED BY <1>2, <2>1
<1>4. TrustsCounted' BY <1>1, <1>3, TrustsStand
<1>5. /\ WindowsAgree' /\ firmWindow' \in SUBSET (1..now)
      /\ matterWindow' \in [Estates -> SUBSET (1..now)] /\ calls' \subseteq Estates \X (1..now)
  BY <1>1, PassesEnters, AiWindowsStand DEF AiInv, AiShapes
<1>6. AiShapes' BY <1>1, <1>3, <1>5 DEF AiInv, AiShapes
<1> QED BY <1>3, <1>4, <1>5, <1>6 DEF AiInv

LEMMA RefusedKeeps ==
  ASSUME Ai!AiAssumption, AiInv, NEW r \in Requests, NEW m \in Estates, NEW at,
         Ai!Refused(r, m, at)
  PROVE  AiInv'
<1>1. /\ Ai!Clock(at) /\ Ai!Check(m, at)
      /\ UNCHANGED <<now, aiCall, usage, trusts, entered, overlapped>>
  BY DEF Ai!Refused
<1>2. \A e : Making(e)' = Making(e) /\ Ai!Analyses(e)' = Ai!Analyses(e)
  BY <1>1 DEF Making, Ai!Analyses
<1>3. TrustsCounted' BY <1>1, <1>2, TrustsStand
<1>4. /\ WindowsAgree' /\ firmWindow' \in SUBSET (1..now)
      /\ matterWindow' \in [Estates -> SUBSET (1..now)] /\ calls' \subseteq Estates \X (1..now)
  BY <1>1, PassesEnters
<1>5. AiShapes' /\ AnalysesOnly' BY <1>1, <1>4 DEF AiInv, AiShapes, AnalysesOnly
<1> QED BY <1>3, <1>4, <1>5 DEF AiInv

LEMMA TickAiKeeps ==
  ASSUME Ai!AiAssumption, AiInv, Ai!Tick
  PROVE  AiInv'
<1>1. /\ now \in Nat /\ now' = now + 1 /\ now' \in 1..MaxTime
      /\ UNCHANGED <<firmWindow, matterWindow, calls, aiCall, usage, trusts, entered, overlapped>>
      /\ firmWindow \in SUBSET (1..now) /\ matterWindow \in [Estates -> SUBSET (1..now)]
      /\ {FirmLimit, MatterLimit, Hour, Lag} \subseteq Nat /\ calls \subseteq Estates \X (1..now)
  BY DEF AiInv, AiShapes, Ai!Tick, Ai!AiAssumption
<1>2. AiShapes'
  <2>1. \A S \in SUBSET (1..now) : S \in SUBSET (1..now') BY <1>1
  <2>2. calls' \subseteq Estates \X (1..now') BY <1>1
  <2> QED BY <1>1, <2>1, <2>2 DEF AiInv, AiShapes
<1>3. FirmCalls' = FirmCalls /\ \A m : Ai!CallsOf(m)' = Ai!CallsOf(m)
  <2>1. \A e, t : <<e, t>> \in calls => t \in 1..now /\ t \in 1..now' BY <1>1
  <2> QED BY <1>1, <2>1 DEF FirmCalls, Ai!CallsOf
<1>4. /\ FirmCalls \in SUBSET (1..now) /\ \A m : Ai!CallsOf(m) \in SUBSET (1..now)
  BY DEF FirmCalls, Ai!CallsOf
<1>5. WindowsAgree'
  <2>1. KeptWithin(FirmCalls, Hour, Lag, FirmLimit, now + 1)
    <3>1. KeptWithin(FirmCalls, Hour, Lag, FirmLimit, now) BY DEF AiInv, WindowsAgree
    <3> QED BY <1>1, <1>4, <3>1, TickKeepsWithin
  <2>2. ASSUME NEW m \in Estates PROVE KeptWithin(Ai!CallsOf(m), Hour, Lag, MatterLimit, now + 1)
    <3>1. KeptWithin(Ai!CallsOf(m), Hour, Lag, MatterLimit, now) BY DEF AiInv, WindowsAgree
    <3>2. Ai!CallsOf(m) \in SUBSET (1..now) BY <1>4
    <3> QED BY <1>1, <3>1, <3>2, TickKeepsWithin
  <2>3. \A t \in Nat : t + Hour > now' => t + Hour > now BY <1>1
  <2>4. /\ \A t \in FirmCalls : t \in Nat
        /\ \A m \in Estates : \A t \in Ai!CallsOf(m) : t \in Nat
    BY <1>4
  <2> QED BY <1>1, <1>3, <2>1, <2>2, <2>3, <2>4 DEF AiInv, WindowsAgree
<1>6. \A e : Making(e)' = Making(e) /\ Ai!Analyses(e)' = Ai!Analyses(e)
  BY <1>1 DEF Making, Ai!Analyses
<1>7. TrustsCounted' BY <1>1, <1>6, TrustsStand
<1>8. AnalysesOnly' BY <1>1 DEF AiInv, AnalysesOnly
<1> QED BY <1>2, <1>5, <1>7, <1>8 DEF AiInv

\* Asking for the usage cleans the firm's window of what is old already.
LEMMA GetUsageKeeps ==
  ASSUME Ai!AiAssumption, AiInv, NEW at, Ai!GetUsage(at)
  PROVE  AiInv'
<1>1. /\ Ai!Clock(at) /\ firmWindow' = Ai!Live(firmWindow, at)
      /\ UNCHANGED <<now, matterWindow, calls, aiCall, usage, trusts, entered, overlapped>>
  BY DEF Ai!GetUsage
<1>2. now \in Nat /\ firmWindow \in SUBSET (1..now) /\ FirmCalls \in SUBSET (1..now)
  BY DEF AiInv, AiShapes, FirmCalls
<1>3. /\ firmWindow' \in SUBSET (1..now) /\ firmWindow' \subseteq firmWindow
      /\ \A t \in FirmCalls : t + Hour > now => t \in firmWindow'
  BY <1>1, <1>2, LiveIsSeen DEF AiInv, WindowsAgree
<1>4. FirmCalls' = FirmCalls /\ \A m : Ai!CallsOf(m)' = Ai!CallsOf(m)
  BY <1>1 DEF FirmCalls, Ai!CallsOf
<1>5. WindowsAgree' BY <1>1, <1>3, <1>4 DEF AiInv, WindowsAgree
<1>6. AiShapes' /\ AnalysesOnly' BY <1>1, <1>3 DEF AiInv, AiShapes, AnalysesOnly
<1>7. \A e : Making(e)' = Making(e) /\ Ai!Analyses(e)' = Ai!Analyses(e)
  BY <1>1 DEF Making, Ai!Analyses
<1>8. TrustsCounted' BY <1>1, <1>7, TrustsStand
<1> QED BY <1>5, <1>6, <1>8 DEF AiInv

\* An entity entered by hand is none an analysis made; one that goes may be.
LEMMA EntitiesKeep ==
  ASSUME Ai!AiAssumption, AiInv, NEW m \in TrustDocs, Ai!EnterEntity(m) \/ Ai!DropEntity(m)
  PROVE  AiInv'
<1>1. UNCHANGED <<now, firmWindow, matterWindow, calls, aiCall, usage, overlapped>>
  BY DEF Ai!EnterEntity, Ai!DropEntity, Ai!limiter
<1>2. MaxEntered \in Nat /\ entered \in [TrustDocs -> 0..MaxEntered] /\ trusts \in [TrustDocs -> Nat]
  BY DEF AiInv, AiShapes, Ai!AiAssumption
<1>3. /\ entered' \in [TrustDocs -> 0..MaxEntered] /\ trusts' \in [TrustDocs -> Nat]
      /\ \A e \in TrustDocs : trusts'[e] <= trusts[e] /\ (trusts[e] = 0 => trusts'[e] = 0)
  BY <1>2 DEF Ai!EnterEntity, Ai!DropEntity, Ai!limiter
<1>4. WindowsAgree' BY <1>1, AiWindowsStand DEF AiInv
<1>5. AiShapes' /\ AnalysesOnly' BY <1>1, <1>3 DEF AiInv, AiShapes, AnalysesOnly
<1>6. \A e : Making(e)' = Making(e) /\ Ai!Analyses(e)' = Ai!Analyses(e)
  BY <1>1 DEF Making, Ai!Analyses
<1>7. ASSUME NEW e \in TrustDocs
      PROVE  trusts'[e] + Cardinality(Making(e)) <= Cardinality(Requests)
  <2>1. /\ trusts[e] \in Nat /\ trusts'[e] \in Nat /\ trusts'[e] <= trusts[e]
        /\ trusts[e] + Cardinality(Making(e)) <= Cardinality(Requests)
    BY <1>2, <1>3 DEF AiInv, TrustsCounted
  <2> QED BY <2>1, MakingIsCounted
<1>8. \A e \in TrustDocs \ overlapped : /\ trusts'[e] <= 1
                                        /\ \A r, q \in Ai!Analyses(e) : r = q
                                        /\ Making(e) # {} => trusts'[e] = 0
  BY <1>2, <1>3 DEF AiInv, TrustsCounted
<1>9. TrustsCounted' BY <1>1, <1>6, <1>7, <1>8 DEF TrustsCounted
<1> QED BY <1>4, <1>5, <1>9 DEF AiInv

\* A request that ends without a commit, or asks about something else.
LEMMA LeavesKeep ==
  ASSUME Ai!AiAssumption, AiInv, NEW r \in Requests,
         UNCHANGED <<now, firmWindow, matterWindow, calls, trusts, entered, overlapped>>,
         usage' \in Ai!AIUsageLog,
         \/ aiCall' = [aiCall EXCEPT ![r] = Ai!Idle]
         \/ /\ aiCall[r].step = "checked" /\ aiCall[r].op # "trust_analysis"
            /\ aiCall' = [aiCall EXCEPT ![r] = [aiCall[r] EXCEPT !.step = "asked"]]
  PROVE  AiInv'
<1>1. PICK to \in {Ai!Idle} \cup Ai!Request :
        /\ aiCall' = [aiCall EXCEPT ![r] = to]
        /\ to # Ai!Idle => to.op # "trust_analysis" /\ ~to.creates
  <2>1. CASE aiCall' = [aiCall EXCEPT ![r] = Ai!Idle] BY <2>1
  <2>2. CASE /\ aiCall[r].step = "checked" /\ aiCall[r].op # "trust_analysis"
             /\ aiCall' = [aiCall EXCEPT ![r] = [aiCall[r] EXCEPT !.step = "asked"]]
    <3> DEFINE to == [aiCall[r] EXCEPT !.step = "asked"]
    <3>1. aiCall[r] \in Ai!Request /\ ~aiCall[r].creates BY <2>2, AiCallFields DEF AiInv
    <3>2. to \in Ai!Request /\ to.op # "trust_analysis" /\ ~to.creates
      BY <2>2, <3>1 DEF Ai!Request
    <3>3. aiCall' = [aiCall EXCEPT ![r] = to] BY <2>2
    <3> HIDE DEF to
    <3> QED BY <3>2, <3>3
  <2> QED BY <2>1, <2>2
<1>2. /\ aiCall' \in [Requests -> {Ai!Idle} \cup Ai!Request] /\ AnalysesOnly'
      /\ \A e : Making(e)' \subseteq Making(e) /\ Ai!Analyses(e)' \subseteq Ai!Analyses(e)
  <2>1. /\ aiCall' \in [Requests -> {Ai!Idle} \cup Ai!Request] /\ AnalysesOnly'
        /\ \A e : Making(e)' = (Making(e) \ {r}) \cup
              (IF to.step = "asked" /\ to.of = e /\ to.creates THEN {r} ELSE {})
        /\ \A e : Ai!Analyses(e)' = (Ai!Analyses(e) \ {r}) \cup
              (IF to.step = "asked" /\ to.op = "trust_analysis" /\ to.of = e THEN {r} ELSE {})
    BY Zenon, <1>1, AiCallGoes
  <2>2. to.step = "asked" => to # Ai!Idle BY DEF Ai!Idle
  <2> QED BY <1>1, <2>1, <2>2
<1>3. TrustsCounted' BY <1>2, TrustsStand
<1>4. WindowsAgree' BY AiWindowsStand DEF AiInv
<1>5. AiShapes' BY <1>2 DEF AiInv, AiShapes
<1> QED BY <1>2, <1>3, <1>4, <1>5 DEF AiInv

LEMMA CreateTrustKeeps ==
  ASSUME Ai!AiAssumption, AiInv, NEW r \in Requests, Ai!CreateTrust(r)
  PROVE  AiInv'
<1> DEFINE m == aiCall[r].of
           to == [aiCall[r] EXCEPT !.step = "asked", !.creates = (trusts[m] + entered[m] = 0)]
<1>1. aiCall[r].step = "checked" /\ aiCall[r].op = "trust_analysis"
  BY DEF Ai!CreateTrust, Ai!Gather
<1>2. aiCall[r] \in Ai!Request /\ ~aiCall[r].creates /\ m \in TrustDocs
  BY <1>1, AiCallFields DEF AiInv, AnalysesOnly
<1>3. CASE trusts[m] + entered[m] > 1
  <2>1. aiCall' = [aiCall EXCEPT ![r] = Ai!Idle]
    BY <1>3 DEF Ai!CreateTrust, Ai!Goes
  <2>2. UNCHANGED <<now, firmWindow, matterWindow, calls, usage, trusts, entered, overlapped>>
    BY <1>3 DEF Ai!CreateTrust, Ai!Goes, Ai!limiter
  <2> QED BY <2>1, <2>2, LeavesKeep DEF AiInv, AiShapes
<1>4. CASE ~(trusts[m] + entered[m] > 1)
  <2>1. /\ aiCall' = [aiCall EXCEPT ![r] = to]
        /\ overlapped' = overlapped \cup IF Ai!Analyses(m) = {} THEN {} ELSE {m}
        /\ UNCHANGED <<now, firmWindow, matterWindow, calls, usage, trusts, entered>>
    BY <1>4 DEF Ai!CreateTrust, Ai!Goes, Ai!limiter
  <2>2. /\ to \in Ai!Request /\ to.step = "asked" /\ to.op = "trust_analysis" /\ to.of = m
        /\ to.creates => trusts[m] = 0
    <3>1. (trusts[m] + entered[m] = 0) \in BOOLEAN OBVIOUS
    <3>2. /\ to \in Ai!Request /\ to.step = "asked" /\ to.op = "trust_analysis" /\ to.of = m
          /\ to.creates <=> trusts[m] + entered[m] = 0
      BY <1>1, <1>2, <3>1 DEF Ai!Request
    <3>3. trusts[m] \in Nat /\ entered[m] \in Nat BY <1>2 DEF AiInv, AiShapes
    <3> HIDE DEF to, m
    <3> QED BY <3>2, <3>3
  <2> HIDE DEF to, m
  <2>3. /\ aiCall' \in [Requests -> {Ai!Idle} \cup Ai!Request] /\ AnalysesOnly'
        /\ \A e : Making(e)' = (Making(e) \ {r}) \cup (IF e = m /\ to.creates THEN {r} ELSE {})
        /\ \A e : Ai!Analyses(e)' = (Ai!Analyses(e) \ {r}) \cup (IF e = m THEN {r} ELSE {})
    <3>1. /\ aiCall' \in [Requests -> {Ai!Idle} \cup Ai!Request] /\ AnalysesOnly'
          /\ \A e : Making(e)' = (Making(e) \ {r}) \cup
                (IF to.step = "asked" /\ to.of = e /\ to.creates THEN {r} ELSE {})
          /\ \A e : Ai!Analyses(e)' = (Ai!Analyses(e) \ {r}) \cup
                (IF to.step = "asked" /\ to.op = "trust_analysis" /\ to.of = e THEN {r} ELSE {})
      <4>1. to \in {Ai!Idle} \cup Ai!Request BY <2>2
      <4>2. to # Ai!Idle => /\ to.op = "trust_analysis" => to.of \in TrustDocs
                            /\ to.creates => to.step = "asked" /\ to.op = "trust_analysis"
        BY <1>2, <2>2 DEF m
      <4> QED BY Zenon, <2>1, <4>1, <4>2, AiCallGoes
    <3> QED BY <2>2, <3>1
  <2>4. AiShapes' BY <1>2, <2>1, <2>3 DEF AiInv, AiShapes, m
  <2>5. WindowsAgree' BY <2>1, AiWindowsStand DEF AiInv
  <2>6. ASSUME NEW e \in TrustDocs
        PROVE  trusts[e] + Cardinality(Making(e)') <= Cardinality(Requests)
    <3>1. /\ trusts[e] \in Nat /\ trusts[e] + Cardinality(Making(e)) <= Cardinality(Requests)
      BY DEF AiInv, AiShapes, TrustsCounted
    <3>2. /\ IsFiniteSet(Making(e)) /\ Cardinality(Making(e)) \in Nat /\ Cardinality(Requests) \in Nat
          /\ IsFiniteSet(Requests)
      BY MakingIsCounted, AiCardinality DEF Ai!AiAssumption
    <3>3. CASE e = m /\ to.creates
      <4>1. Making(e)' \subseteq Requests BY <2>3 DEF Making
      <4>2. Cardinality(Making(e)') <= Cardinality(Requests) /\ Cardinality(Making(e)') \in Nat
        BY <3>2, <4>1, FS_Subset, FS_CardinalityType
      <4> QED BY <2>2, <3>1, <3>3, <4>2
    <3>4. CASE ~(e = m /\ to.creates)
      <4>1. Making(e)' \subseteq Making(e) BY <2>3, <3>4
      <4>2. Cardinality(Making(e)') <= Cardinality(Making(e)) /\ Cardinality(Making(e)') \in Nat
        BY <3>2, <4>1, FS_Subset, FS_CardinalityType
      <4> QED BY <3>1, <3>2, <4>2
    <3> QED BY <3>3, <3>4
  <2>7. ASSUME NEW e \in TrustDocs \ overlapped'
        PROVE  /\ trusts[e] <= 1 /\ \A p, q \in Ai!Analyses(e)' : p = q
               /\ Making(e)' # {} => trusts[e] = 0
    <3>1. /\ e \in TrustDocs \ overlapped /\ trusts[e] <= 1 /\ \A p, q \in Ai!Analyses(e) : p = q
          /\ Making(e) # {} => trusts[e] = 0
      BY <2>1 DEF AiInv, TrustsCounted
    <3>2. e = m => Ai!Analyses(e) = {} BY <2>1
    <3> QED BY <2>2, <2>3, <3>1, <3>2
  <2>8. TrustsCounted' BY <2>1, <2>6, <2>7 DEF TrustsCounted
  <2> QED BY <2>3, <2>4, <2>5, <2>8 DEF AiInv
<1> QED BY <1>3, <1>4

LEMMA CommitKeeps ==
  ASSUME Ai!AiAssumption, AiInv, NEW r \in Requests, Ai!Commit(r), usage' \in Ai!AIUsageLog
  PROVE  AiInv'
<1> DEFINE m == aiCall[r].of
<1>1. /\ aiCall[r].step = "asked" /\ aiCall' = [aiCall EXCEPT ![r] = Ai!Idle]
      /\ trusts' = IF aiCall[r].creates THEN [trusts EXCEPT ![m] = @ + 1] ELSE trusts
      /\ UNCHANGED <<now, firmWindow, matterWindow, calls, entered, overlapped>>
  BY DEF Ai!Commit, Ai!limiter
<1>2. CASE ~aiCall[r].creates BY <1>1, <1>2, LeavesKeep
<1>3. CASE aiCall[r].creates
  <2>1. m \in TrustDocs /\ r \in Making(m) /\ r \in Ai!Analyses(m)
    BY <1>1, <1>3, AiCallFields DEF AiInv, AnalysesOnly, Making, Ai!Analyses
  <2>2. trusts' = [trusts EXCEPT ![m] = @ + 1] BY <1>1, <1>3
  <2> HIDE DEF m
  <2>3. /\ aiCall' \in [Requests -> {Ai!Idle} \cup Ai!Request] /\ AnalysesOnly'
        /\ \A e : Making(e)' = Making(e) \ {r} /\ Ai!Analyses(e)' = Ai!Analyses(e) \ {r}
    <3>1. /\ aiCall' \in [Requests -> {Ai!Idle} \cup Ai!Request] /\ AnalysesOnly'
          /\ \A e : Making(e)' = (Making(e) \ {r}) \cup
                (IF Ai!Idle.step = "asked" /\ Ai!Idle.of = e /\ Ai!Idle.creates THEN {r} ELSE {})
          /\ \A e : Ai!Analyses(e)' = (Ai!Analyses(e) \ {r}) \cup
                (IF Ai!Idle.step = "asked" /\ Ai!Idle.op = "trust_analysis" /\ Ai!Idle.of = e
                 THEN {r} ELSE {})
      BY Zenon, <1>1, AiCallGoes
    <3>2. Ai!Idle.step = "idle" BY DEF Ai!Idle
    <3> QED BY <3>1, <3>2
  <2>4. /\ trusts' \in [TrustDocs -> Nat]
        /\ \A e \in TrustDocs : trusts'[e] = IF e = m THEN trusts[e] + 1 ELSE trusts[e]
    BY <2>1, <2>2 DEF AiInv, AiShapes
  <2>5. AiShapes' BY <1>1, <2>3, <2>4 DEF AiInv, AiShapes
  <2>6. WindowsAgree' BY <1>1, AiWindowsStand DEF AiInv
  <2>7. ASSUME NEW e \in TrustDocs
        PROVE  trusts'[e] + Cardinality(Making(e)') <= Cardinality(Requests)
    <3>1. /\ trusts[e] \in Nat /\ trusts[e] + Cardinality(Making(e)) <= Cardinality(Requests)
      BY DEF AiInv, AiShapes, TrustsCounted
    <3>2. /\ IsFiniteSet(Making(e)) /\ Cardinality(Making(e)) \in Nat
          /\ Cardinality(Requests) \in Nat
      BY MakingIsCounted
    <3>3. Cardinality(Making(e) \ {r}) =
            IF r \in Making(e) THEN Cardinality(Making(e)) - 1 ELSE Cardinality(Making(e))
      BY <3>2, FS_RemoveElement
    <3>4. e # m => r \notin Making(e) BY <2>1 DEF Making
    <3>5. Making(e)' = Making(e) \ {r} BY <2>3
    <3>6. CASE e = m
      <4>1. trusts'[e] = trusts[e] + 1 /\ r \in Making(e) BY <2>1, <2>4, <3>6
      <4>2. Cardinality(Making(e)') = Cardinality(Making(e)) - 1 BY <3>3, <3>5, <4>1
      <4> QED BY <3>1, <3>2, <4>1, <4>2
    <3>7. CASE e # m
      <4>1. trusts'[e] = trusts[e] /\ Making(e)' = Making(e) BY <2>4, <3>4, <3>5, <3>7
      <4> QED BY <3>1, <4>1
    <3> QED BY <3>6, <3>7
  <2>8. ASSUME NEW e \in TrustDocs \ overlapped
        PROVE  /\ trusts'[e] <= 1 /\ \A p, q \in Ai!Analyses(e)' : p = q
               /\ Making(e)' # {} => trusts'[e] = 0
    <3>1. /\ trusts[e] <= 1 /\ \A p, q \in Ai!Analyses(e) : p = q
          /\ Making(e) # {} => trusts[e] = 0
      BY DEF AiInv, TrustsCounted
    <3>2. CASE e # m BY <2>3, <2>4, <3>1, <3>2
    <3>3. CASE e = m
      <4>1. trusts'[e] = 1 BY <2>1, <2>4, <3>1, <3>3
      <4>2. Making(e) \subseteq Ai!Analyses(e)
        <5> SUFFICES ASSUME NEW q \in Making(e) PROVE q \in Ai!Analyses(e) OBVIOUS
        <5>1. q \in Requests /\ aiCall[q].step = "asked" /\ aiCall[q].of = e /\ aiCall[q].creates
          BY DEF Making
        <5>2. aiCall[q].op = "trust_analysis" BY <5>1, AiCallFields DEF AiInv, AnalysesOnly
        <5> QED BY <5>1, <5>2 DEF Ai!Analyses
      <4> QED BY <2>1, <2>3, <3>1, <3>3, <4>1, <4>2
    <3> QED BY <3>2, <3>3
  <2>9. TrustsCounted' BY <1>1, <2>7, <2>8 DEF TrustsCounted
  <2> QED BY <2>3, <2>5, <2>6, <2>9 DEF AiInv
<1> QED BY <1>2, <1>3

LEMMA AiNext == ASSUME Ai!AiAssumption, AiInv, [Ai!Next]_aiVars PROVE AiInv'
<1> USE DEF AiInv
<1>1. CASE \E r \in Requests, m \in Estates, op \in Ai!Operation, at \in 1..now :
             (op = "trust_analysis" => m \in TrustDocs) /\ Ai!CheckRateLimit(r, m, at, op)
  BY <1>1, CheckRateLimitKeeps
<1>2. CASE \E r \in Requests, op \in {"draft_letter", "suggest_tasks"} :
             Ai!Gather(r, op) /\ Ai!Ask(r)
  <2>1. PICK r \in Requests, op \in {"draft_letter", "suggest_tasks"} :
          Ai!Gather(r, op) /\ Ai!Ask(r)
    BY <1>2
  <2>2. /\ aiCall[r].step = "checked" /\ aiCall[r].op # "trust_analysis"
        /\ aiCall' = [aiCall EXCEPT ![r] = [aiCall[r] EXCEPT !.step = "asked"]]
        /\ UNCHANGED <<now, firmWindow, matterWindow, calls, trusts, entered, overlapped, usage>>
    BY <2>1 DEF Ai!Gather, Ai!Ask, Ai!Goes, Ai!limiter
  <2> QED BY <2>2, LeavesKeep DEF AiShapes
<1>3. CASE \E r \in Requests : Ai!DetectAnomalies(r)
  <2>1. PICK r \in Requests : Ai!DetectAnomalies(r) BY <1>3
  <2>2. /\ aiCall[r].step = "checked" /\ aiCall[r].op # "trust_analysis"
        /\ UNCHANGED <<now, firmWindow, matterWindow, calls, trusts, entered, overlapped, usage>>
        /\ \/ aiCall' = [aiCall EXCEPT ![r] = Ai!Idle]
           \/ aiCall' = [aiCall EXCEPT ![r] = [aiCall[r] EXCEPT !.step = "asked"]]
    BY <2>1 DEF Ai!DetectAnomalies, Ai!Gather, Ai!Ask, Ai!Goes, Ai!limiter
  <2> QED BY <2>2, LeavesKeep DEF AiShapes
<1>4. CASE \E r \in Requests : Ai!CreateTrust(r) BY <1>4, CreateTrustKeeps
<1>5. CASE \E r \in Requests : Ai!Answer(r) \/ Ai!Unavailable(r) \/ Ai!Unusable(r)
  <2>1. PICK r \in Requests : Ai!Answer(r) \/ Ai!Unavailable(r) \/ Ai!Unusable(r) BY <1>5
  <2>2. Ai!Commit(r) BY <2>1 DEF Ai!Answer, Ai!Unavailable, Ai!Unusable
  <2>3. usage \in Ai!AIUsageLog /\ MaxCalls \in Nat BY DEF AiShapes, Ai!AiAssumption
  <2>4. \A status \in {"success", "error"} : Ai!LogAiUsage(status) => usage' \in Ai!AIUsageLog
    BY <2>3 DEF Ai!LogAiUsage, Ai!AIUsageLog
  <2>5. usage' \in Ai!AIUsageLog
    BY <2>1, <2>3, <2>4 DEF Ai!Answer, Ai!Unavailable, Ai!Unusable
  <2> QED BY <2>2, <2>5, CommitKeeps
<1>6. CASE \E r \in Requests : Ai!NoToolUse(r)
  <2>1. PICK r \in Requests : Ai!NoToolUse(r) BY <1>6
  <2>2. /\ aiCall' = [aiCall EXCEPT ![r] = Ai!Idle]
        /\ UNCHANGED <<now, firmWindow, matterWindow, calls, trusts, entered, overlapped, usage>>
    BY <2>1 DEF Ai!NoToolUse, Ai!Goes, Ai!limiter
  <2> QED BY <2>2, LeavesKeep DEF AiShapes
<1>7. CASE \E r \in Requests, m \in Estates, at \in 1..now : Ai!Refused(r, m, at)
  BY <1>7, RefusedKeeps
<1>8. CASE Ai!Tick BY <1>8, TickAiKeeps
<1>9. CASE UNCHANGED aiVars
  <2>1. UNCHANGED <<now, firmWindow, matterWindow, calls, aiCall, usage, trusts, entered, overlapped>>
    BY <1>9 DEF aiVars
  <2>2. \A e : Making(e)' = Making(e) /\ Ai!Analyses(e)' = Ai!Analyses(e)
    BY <2>1 DEF Making, Ai!Analyses
  <2> QED BY <2>1, <2>2, TrustsStand, AiWindowsStand DEF AiShapes, AnalysesOnly
<1>10. CASE \E m \in TrustDocs : Ai!EnterEntity(m) \/ Ai!DropEntity(m) BY <1>10, EntitiesKeep
<1>11. CASE \E at \in 1..now : Ai!GetUsage(at) BY <1>11, GetUsageKeeps
<1> QED
  <2>1. {"draft_letter", "suggest_tasks", "detect_anomalies", "trust_analysis"} = Ai!Operation
    BY DEF Ai!Operation
  <2> QED
    BY <1>1, <1>2, <1>3, <1>4, <1>5, <1>6, <1>7, <1>8, <1>9, <1>10, <1>11, <2>1
    DEF Ai!Next, Ai!PostDraftLetter, Ai!PostSuggestTasks, Ai!PostDetectAnomalies,
        Ai!PostAnalyzeTrust, Ai!DraftLetter, Ai!SuggestTasks, Ai!PostEntity, Ai!DeleteEntity,
        Ai!GetUsageStats

LEMMA AiImplies ==
  ASSUME Ai!AiAssumption, AiInv
  PROVE  Ai!TypeOK /\ Ai!LimitsKept /\ Ai!OneEntityPerTrust
<1>1. trusts \in [TrustDocs -> 0..Ai!Cardinality(Requests)]
  <2>1. ASSUME NEW m \in TrustDocs PROVE trusts[m] \in 0..Cardinality(Requests)
    <3>1. /\ trusts[m] \in Nat /\ trusts[m] + Cardinality(Making(m)) <= Cardinality(Requests)
      BY DEF AiInv, AiShapes, TrustsCounted
    <3> QED BY <3>1, MakingIsCounted
  <2> QED BY <2>1, AiCardinality DEF AiInv, AiShapes
<1>2. Ai!TypeOK BY <1>1 DEF AiInv, AiShapes, Ai!TypeOK
<1>3. Ai!LimitsKept
  <2>1. now \in Nat /\ Hour \in Nat BY DEF AiInv, AiShapes, Ai!AiAssumption
  <2>2. UNION {Ai!CallsOf(m) : m \in Estates} = FirmCalls
    <3>1. \A t : t \in FirmCalls <=> \E m \in Estates : t \in Ai!CallsOf(m)
      BY DEF FirmCalls, Ai!CallsOf
    <3> QED BY <3>1
  <2>3. /\ Ai!Within(FirmCalls, FirmLimit)
        /\ \A m \in Estates : Ai!Within(Ai!CallsOf(m), MatterLimit)
    BY AiCardinality DEF AiInv, WindowsAgree, KeptWithin, Stretch, Ai!Within
  <2>4. ASSUME NEW t
        PROVE  t \in Ai!Live(firmWindow, now) <=>
                 \E m \in Estates : t \in Ai!Live(matterWindow[m], now)
    <3>1. t \in FirmCalls <=> \E m \in Estates : t \in Ai!CallsOf(m) BY DEF FirmCalls, Ai!CallsOf
    <3>2. t \in firmWindow /\ t + Hour > now <=> t \in FirmCalls /\ t + Hour > now
      BY DEF AiInv, WindowsAgree
    <3>3. \A m \in Estates :
            t \in matterWindow[m] /\ t + Hour > now <=> t \in Ai!CallsOf(m) /\ t + Hour > now
      BY DEF AiInv, WindowsAgree
    <3> QED BY <3>1, <3>2, <3>3 DEF Ai!Live
  <2>5. Ai!Live(firmWindow, now) = UNION {Ai!Live(matterWindow[m], now) : m \in Estates}
    BY <2>4
  <2> QED BY <2>2, <2>3, <2>5 DEF Ai!LimitsKept
<1>4. Ai!OneEntityPerTrust BY DEF AiInv, TrustsCounted, Ai!OneEntityPerTrust
<1> QED BY <1>2, <1>3, <1>4
------------------------------------------------------------------------------
(* The composition *)

LEMMA FirmSteps ==
  ASSUME [FirmNext]_allVars
  PROVE  /\ [Plan!Next]_planVars /\ [Limits!Next]_limitVars /\ [Team!Next]_teamVars
         /\ [Data!Next]_dataVars /\ [Next]_vars /\ [Api!Next]_apiVars
         /\ [Outgoing!Next]_hooksVars /\ [Ai!Next]_aiVars /\ [Login!Next]_loginVars
  BY DEF FirmNext, allVars

\* The composition adds nothing to its components: each of them, seen through its
\* own variables, takes its own steps or none.
THEOREM FirmRunsComponents ==
  FirmSpec => /\ Plan!Spec /\ Limits!Spec /\ Team!Spec /\ Data!Spec /\ Spec
              /\ Api!Spec /\ Outgoing!Spec /\ Ai!Spec /\ Login!Spec
<1>1. FirmInit => /\ Plan!Init /\ Limits!Init /\ Team!Init /\ Data!Init /\ Init
                  /\ Api!Init /\ Outgoing!Init /\ Ai!Init /\ Login!Init
  BY DEF FirmInit
<1>2. /\ [FirmNext]_allVars => [Plan!Next]_Plan!vars
      /\ [FirmNext]_allVars => [Limits!Next]_Limits!vars
      /\ [FirmNext]_allVars => [Team!Next]_Team!vars
      /\ [FirmNext]_allVars => [Data!Next]_Data!vars
      /\ [FirmNext]_allVars => [Next]_vars
      /\ [FirmNext]_allVars => [Api!Next]_Api!vars
      /\ [FirmNext]_allVars => [Outgoing!Next]_Outgoing!vars
      /\ [FirmNext]_allVars => [Ai!Next]_Ai!vars
      /\ [FirmNext]_allVars => [Login!Next]_Login!vars
  BY FirmSteps DEF Plan!vars, planVars, Limits!vars, limitVars, Team!vars, teamVars, Data!vars,
       dataVars, Api!vars, apiVars, Outgoing!vars, hooksVars, Ai!vars, aiVars, Login!vars, loginVars
<1> QED BY <1>1, <1>2, PTL
        DEF FirmSpec, Plan!Spec, Limits!Spec, Team!Spec, Data!Spec, Spec, Api!Spec, Outgoing!Spec,
            Ai!Spec, Login!Spec

Focused == focus \in {"plan", "limits", "team", "data", "sync", "api", "hooks", "ai", "login"}

LEMMA FirmKeeps ==
  /\ FirmInit => Focused /\ SyncInv /\ LimitInv /\ HookInv /\ AiInv
  /\ Focused /\ [FirmNext]_allVars => Focused'
  /\ SyncInv /\ [FirmNext]_allVars => SyncInv'
  /\ LimitInv /\ [FirmNext]_allVars => LimitInv'
  /\ HookInv /\ [FirmNext]_allVars => HookInv'
  /\ AiInv /\ [FirmNext]_allVars => AiInv'
<1>1. ASSUME FirmInit PROVE Focused /\ SyncInv /\ LimitInv /\ HookInv /\ AiInv
  BY <1>1, SyncInit, LimitInit, HookInit, AiInit, ComponentsAssumption DEF FirmInit, Focused
<1>2. ASSUME SyncInv, [FirmNext]_allVars PROVE SyncInv'
  BY <1>2, FirmSteps, SyncNext, ComponentsAssumption
<1>3. ASSUME HookInv, [FirmNext]_allVars PROVE HookInv'
  BY <1>3, FirmSteps, HookNext, ComponentsAssumption
<1>4. ASSUME AiInv, [FirmNext]_allVars PROVE AiInv'
  BY <1>4, FirmSteps, AiNext, ComponentsAssumption
<1>5. ASSUME Focused, [FirmNext]_allVars PROVE Focused' BY <1>5 DEF FirmNext, allVars, Focused
<1>6. ASSUME LimitInv, [FirmNext]_allVars PROVE LimitInv'
  BY <1>6, FirmSteps, LimitNext, ComponentsAssumption
<1> QED BY <1>1, <1>2, <1>3, <1>4, <1>5, <1>6

LEMMA FirmInvariant == FirmSpec => [](Focused /\ SyncInv /\ LimitInv /\ HookInv /\ AiInv)
  BY FirmKeeps, PTL DEF FirmSpec

LEMMA PlanTyped == PlanInv => Plan!TypeOK
<1> SUFFICES ASSUME PlanInv PROVE Plan!TypeOK OBVIOUS
<1>1. \A i \in DOMAIN stripe : stripe[i] \in Plan!StripeSub BY DEF PlanInv, PlanShapes
<1> QED BY <1>1 DEF PlanInv, PlanShapes, Plan!TypeOK

\* Every component keeps its types.
THEOREM FirmTyped == FirmSpec => []ComponentsTyped
<1>1. PlanInv /\ LoginInv /\ TeamInv /\ ApiInv /\ PrivacyInv /\ SyncInv /\ LimitInv
        /\ HookInv /\ AiInv /\ Focused => ComponentsTyped
  <2> SUFFICES ASSUME PlanInv, LoginInv, TeamInv, ApiInv, PrivacyInv, SyncInv, LimitInv, HookInv,
                      AiInv, Focused
               PROVE  ComponentsTyped
    OBVIOUS
  <2>1. /\ Plan!TypeOK /\ Limits!TypeOK /\ Login!TypeOK /\ Team!TypeOK /\ Api!TypeOK
        /\ Data!TypeOK /\ TypeOK /\ Outgoing!TypeOK /\ Ai!TypeOK
    BY PlanTyped, LoginImplies, TeamImplies, ApiImplies, DataImplies, SyncImplies, LimitImplies,
       HookImplies, AiImplies, ComponentsAssumption
  <2> QED BY <2>1 DEF ComponentsTyped, Focused
<1> QED BY <1>1, PlanInvariant, AccessInvariant, FirmInvariant, PTL

\* A count read before the insert it guards holds wherever no two requests
\* overlapped, but for what no limit is asked about, and a sliding window
\* whatever clocks reach it: the plan's limits, a firm's webhooks, calls of the
\* language model and of an API key, one entity for a trust from its analyses.
THEOREM ChecksAreKept == FirmSpec => []ChecksHold
<1>1. LimitInv /\ ApiInv /\ HookInv /\ AiInv => ChecksHold
  BY LimitImplies, ApiImplies, HookImplies, AiImplies, ComponentsAssumption DEF ChecksHold
<1> QED BY <1>1, AccessInvariant, FirmInvariant, PTL

\* As long as no request writes from a row another has changed, a connection
\* has tokens when it says it is connected, unless the provider's last answer
\* left one out, and none when it says it is not, unless the last callback
\* swallowed an error; no OAuth state leads to two connections, and the map
\* lists what was pushed.
THEOREM ConnectionIsHonest == FirmSpec => []ConnectionHonest
<1>1. SyncInv => ConnectionHonest BY SyncImplies
<1> QED BY <1>1, FirmInvariant, PTL

\* Only Push creates at the provider, and what the map lists only for a copy
\* of the row that is no longer fresh.
LEMMA SyncPushes ==
  ASSUME SyncInv, Next
  PROVE  \A i \in conn.map : copies'[i] # copies[i] =>
           \E c \in Calls : call[c].step = "sync" /\ ~call[c].fresh
<1>1. CASE \E c \in Calls, i \in Items : Push(c, i)
  <2>1. PICK c \in Calls, i \in Items : Push(c, i) BY <1>1
  <2>2. /\ call[c].step = "sync" /\ i \notin call[c].known
        /\ copies' = [copies EXCEPT ![i] = @ + 1]
    BY <2>1 DEF Push
  <2>3. c \in Active BY <2>2, StepActive
  <2>4. call[c].fresh => conn.map \subseteq call[c].known BY <2>3 DEF SyncInv, CopiesAgree
  <2>5. \A j \in Items : copies'[j] # copies[j] => j = i BY <2>2 DEF SyncInv, Shapes
  <2>6. conn.map \subseteq Items BY ConnFields DEF SyncInv, Shapes
  <2> QED BY <2>2, <2>4, <2>5, <2>6
<1>2. CASE UNCHANGED copies BY <1>2
<1>3. UNCHANGED copies \/ \E c \in Calls, i \in Items : Push(c, i)
  BY DEF Next, Connect, InitiateOauth, BeginDisconnect, BeginSettings, BeginSync, Begin, Callback,
         CompleteOauth, ExchangeFails, Disconnect, UpdateSettings, EnsureValidToken, Sync, Finish,
         Abandon, Expire, Insert
<1> QED BY <1>1, <1>2, <1>3

\* What the map lists is never created at the provider again, but by a request
\* that read the row before it was listed.
THEOREM ListedIsPushedOnce == FirmSpec => PushedOnce
<1>1. SyncInv /\ [FirmNext]_allVars =>
        [\A i \in conn.map : copies'[i] # copies[i] =>
           \E c \in Calls : call[c].step = "sync" /\ ~call[c].fresh]_vars
  BY SyncPushes, FirmSteps
<1> QED BY <1>1, FirmInvariant, PTL DEF FirmSpec, PushedOnce
=============================================================================
