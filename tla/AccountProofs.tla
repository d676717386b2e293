---------------------------- MODULE AccountProofs ----------------------------
(***************************************************************************)
(* What the models of a customer's data promise, proved for any number of  *)
(* handlers and of rows. For each model: the state its handlers can be in, *)
(* the invariant that is inductive, a lemma for every action, and the      *)
(* theorem at the end of its part.                                         *)
(***************************************************************************)
EXTENDS Sessions, Wishlists, Inbox, Avatars, Addresses, Mirrors,
        FiniteSetTheorems, WellFoundedInduction, TLAPS

-----------------------------------------------------------------------------
(* Sessions *)

AccountRow == [state : {"none", "active", "inactive", "deleted"},
               email : Emails, role : {"customer", "chef"}, version : Nat]

Handler == [pc : PCs, user : Users \cup {None}, pair : Nat, version : Nat,
            what : Emails \cup Edits \cup Nat \cup {None}]

(* A handler's local state with n pairs issued. *)
Fits(r, n) ==
  /\ r \in Handler
  /\ r.pair <= n
  /\ r.pc \in {"mark", "issue", "consume", "check", "sync", "bar", "edit"} => r.user \in Users
  /\ r.pc \in {"consume", "check", "sync", "bar", "barAccess"} => r.pair > 0
  /\ r.pc = "barAccess" => r.what \in {None} \cup 1 .. n
  /\ r.pc \in {"revoke", "barRefresh"} => r.what \in 1 .. n
  /\ r.pc = "insert" => r.what \in Emails
  /\ r.pc = "edit" => r.what \in Edits

HandlersFit ==
  /\ req \in [Workers -> Handler]
  /\ \A w \in Workers : Fits(req[w], Len(pairs))

TokensTyped ==
  /\ pairs \in Seq([owner : Users, parent : Nat])
  /\ stored \subseteq 1 .. Len(pairs)
  /\ barred \subseteq (1 .. Len(pairs)) \X {"access", "refresh"}
  /\ expired \subseteq (1 .. Len(pairs)) \X {"access", "refresh"}

AccountsTyped == account \in [Users -> AccountRow]

SessionsTyped == AccountsTyped /\ TokensTyped /\ HandlersFit

LEMMA IdleFits == ASSUME NEW n \in Nat PROVE Fits(Idle, n)
BY DEF Fits, Idle, At, Handler, PCs

LEMMA FitsLater ==
  ASSUME NEW r, NEW n \in Nat, NEW m \in Nat, n <= m, Fits(r, n)
  PROVE  Fits(r, m)
BY DEF Fits, Handler

LEMMA SessionsTypedMeans == SessionsTyped => TypeOK
BY DEF SessionsTyped, AccountsTyped, TokensTyped, HandlersFit, TypeOK, AccountRow, Fits, Handler

LEMMA SessionsTypedStart == Init => SessionsTyped
BY SessionConstants, IdleFits
   DEF Init, SessionsTyped, AccountsTyped, TokensTyped, HandlersFit, NoRow, Row, AccountRow, Fits

(* A handler goes on with a local state that fits. *)
Moves(w) == \E r : Fits(r, Len(pairs')) /\ Goto(w, r)

(* A row is inserted for an email that no account has. *)
Inserted(u, e, role) ==
  /\ account[u] = NoRow /\ ByEmail(e) = {}
  /\ account' = [account EXCEPT ![u] = Row("active", e, role, 1)]

(* A handler updates the row it loaded at the version it loaded. *)
Updates(w, u, row) ==
  /\ req[w].user = u /\ req[w].pc \in {"mark", "sync", "edit", "boot"}
  /\ req[w].version = account[u].version
  /\ account' = [account EXCEPT ![u] = row]
  /\ row.version = account[u].version + 1 /\ row.email = account[u].email
  /\ row.state \in {account[u].state, "active", "inactive", "deleted"}
  /\ row.state # account[u].state => req[w].pc \in {"edit", "boot"}
  /\ row.state = "active" /\ account[u].state # "active" =>
       /\ req' = [req EXCEPT ![w] = Idle]
       /\ req[w].pc = "boot" \/ req[w].what = "restore"
  /\ \E r : req' = [req EXCEPT ![w] = r] /\ r.pc \notin {"mark", "sync", "edit", "boot"}

AccountStep ==
  \/ UNCHANGED account
  \/ \E u \in Users, e \in Emails, role \in {"customer", "chef"} : Inserted(u, e, role)
  \/ \E w \in Workers, u \in Users, row \in AccountRow : Updates(w, u, row)

TokenStep == UNCHANGED pairs \/ \E w \in Workers : Issue(w)

LEMMA RowsEdited ==
  ASSUME NEW u, account[u] \in AccountRow
  PROVE  LET old == account[u]  row == Edited(u) IN
         /\ row \in AccountRow /\ row.version = old.version + 1
         /\ row.email = old.email /\ row.state = old.state
BY DEF Edited, AccountRow

LEMMA RowsSynced ==
  ASSUME NEW row \in AccountRow
  PROVE  /\ Synced(row) \in AccountRow /\ Synced(row).version = row.version
         /\ Synced(row).email = row.email /\ Synced(row).state = row.state
BY DEF Synced, AccountRow

Reset(row, state) == [row EXCEPT !.state = state]
Chefs(row) == [row EXCEPT !.state = "active", !.role = "chef"]

LEMMA RowsReset ==
  ASSUME NEW row \in AccountRow, NEW state \in {"active", "inactive", "deleted"}
  PROVE  /\ Reset(row, state) \in AccountRow /\ Reset(row, state).version = row.version
         /\ Reset(row, state).email = row.email /\ Reset(row, state).state = state
         /\ Chefs(row) \in AccountRow /\ Chefs(row).version = row.version
         /\ Chefs(row).email = row.email /\ Chefs(row).state = "active"
BY DEF AccountRow, Reset, Chefs

LEMMA EditsOfRows ==
  ASSUME NEW u, account[u] \in AccountRow, NEW what \in Edits
  PROVE  LET old == account[u]  row == EditedRow(u, what) IN
         /\ row \in AccountRow /\ row.version = old.version + 1
         /\ row.email = old.email
         /\ row.state \in {old.state, "active", "inactive", "deleted"}
         /\ row.state = "active" /\ old.state # "active" => what = "restore"
<1>1. \/ EditedRow(u, what) = Edited(u) /\ what = "rename"
      \/ \E state \in {"active", "inactive", "deleted"} :
           /\ EditedRow(u, what) = Reset(Edited(u), state)
           /\ state = "active" => what = "restore"
  BY DEF EditedRow, Edits, Reset
<1>2. QED
  BY <1>1, RowsEdited, RowsReset

LEMMA AccountsMove ==
  ASSUME SessionsTyped, [Next]_vars
  PROVE  AccountStep
<1> USE DEF SessionsTyped, AccountStep
<1>1. ASSUME NEW w \in Workers, NEW e \in Emails, NEW role \in {"customer", "chef"},
             account' \in Inserts(e, role)
      PROVE  AccountStep
  BY <1>1 DEF Inserts, Inserted
<1>2. ASSUME NEW w \in Workers, InsertUser(w)
      PROVE  AccountStep
  <2>1. CASE \E table \in Inserts(req[w].what, "customer") : account' = table
    <3>1. req[w].what \in Emails
      BY <1>2 DEF InsertUser, HandlersFit, Fits
    <3>2. QED
      BY <1>1, <2>1, <3>1
  <2>2. QED
    BY <1>2, <2>1 DEF InsertUser
<1>3. ASSUME NEW w \in Workers, MarkLogin(w) \/ SyncRole(w), account' # account
      PROVE  AccountStep
  <2> DEFINE u == req[w].user
             row == Synced(Edited(u))
  <2>1. /\ req \in [Workers -> Handler] /\ u \in Users /\ req[w].pc \in {"mark", "sync"}
        /\ req[w].version = account[u].version /\ account' = [account EXCEPT ![u] = row]
    BY <1>3 DEF MarkLogin, SyncRole, HandlersFit, Fits, Fresh, Write
  <2>2. account[u] \in AccountRow
    BY <2>1 DEF AccountsTyped
  <2>3. /\ row \in AccountRow /\ row.version = account[u].version + 1
        /\ row.email = account[u].email /\ row.state = account[u].state
    BY <2>2, RowsEdited, RowsSynced
  <2>4. \E r : req' = [req EXCEPT ![w] = r] /\ r.pc \notin {"mark", "sync", "edit", "boot"}
    BY <1>3 DEF MarkLogin, SyncRole, Goto, At, Finish, Idle
  <2> HIDE DEF row
  <2>5. Updates(w, u, row)
    BY <2>1, <2>3, <2>4 DEF Updates
  <2>6. QED
    BY <2>1, <2>3, <2>5
<1>4. ASSUME NEW w \in Workers, SaveEdit(w), account' # account
      PROVE  AccountStep
  <2> DEFINE u == req[w].user
             row == EditedRow(u, req[w].what)
  <2>1. /\ req \in [Workers -> Handler] /\ u \in Users /\ req[w].pc = "edit"
        /\ req[w].what \in Edits
        /\ req[w].version = account[u].version /\ account' = [account EXCEPT ![u] = row]
        /\ req' = [req EXCEPT ![w] = Idle]
    BY <1>4 DEF SaveEdit, HandlersFit, Fits, Fresh, Write, Goto, Finish
  <2>2. account[u] \in AccountRow
    BY <2>1 DEF AccountsTyped
  <2>3. /\ row \in AccountRow /\ row.version = account[u].version + 1
        /\ row.email = account[u].email
        /\ row.state \in {account[u].state, "active", "inactive", "deleted"}
        /\ row.state = "active" /\ account[u].state # "active" => req[w].what = "restore"
    BY <2>1, <2>2, EditsOfRows
  <2>4. Idle.pc \notin {"mark", "sync", "edit", "boot"}
    BY DEF Idle, At
  <2> HIDE DEF row
  <2>5. Updates(w, u, row)
    BY <2>1, <2>3, <2>4 DEF Updates
  <2>6. QED
    BY <2>1, <2>3, <2>5
<1>5. ASSUME NEW w \in Workers, BootCommit(w), account' # account
      PROVE  AccountStep
  <2>1. CASE req[w].user = None
    BY <1>1, <1>5, <2>1, SessionConstants DEF BootCommit
  <2>2. CASE req[w].user # None
    <3> DEFINE u == req[w].user
               row == Chefs(Edited(u))
    <3>1. /\ req \in [Workers -> Handler] /\ u \in Users /\ req[w].pc = "boot"
          /\ req[w].version = account[u].version /\ account' = [account EXCEPT ![u] = row]
          /\ req' = [req EXCEPT ![w] = Idle]
      BY <1>5, <2>2 DEF BootCommit, HandlersFit, Handler, Fresh, Write, Goto, Finish, Chefs
    <3>2. account[u] \in AccountRow
      BY <3>1 DEF AccountsTyped
    <3>3. /\ row \in AccountRow /\ row.version = account[u].version + 1
          /\ row.email = account[u].email /\ row.state = "active"
      BY <3>2, RowsEdited, RowsReset
    <3>4. Idle.pc \notin {"mark", "sync", "edit", "boot"}
      BY DEF Idle, At
    <3> HIDE DEF row
    <3>5. Updates(w, u, row)
      BY <3>1, <3>3, <3>4 DEF Updates
    <3>6. QED
      BY <3>1, <3>3, <3>5
  <2>3. QED
    BY <2>1, <2>2
<1>6. ASSUME NEW w \in Workers, Arrive(w)
      PROVE  UNCHANGED account
  BY <1>6 DEF Arrive, Boot, Register, Login, Edit, Refresh, Logout
<1>7. ASSUME NEW w \in Workers,
             \/ Issue(w) \/ Consume(w) \/ CheckUser(w) \/ BarOld(w)
             \/ BarAccess(w) \/ Revoke(w) \/ BarRefresh(w) \/ Abort(w)
      PROVE  UNCHANGED account
  BY <1>7 DEF Issue, Consume, CheckUser, BarOld, BarAccess, Revoke, BarRefresh, Abort
<1>8. ASSUME NEW p \in DOMAIN pairs, Expire(p) \/ Forget(p)
      PROVE  UNCHANGED account
  BY <1>8 DEF Expire, Forget
<1>9. QED
  BY <1>2, <1>3, <1>4, <1>5, <1>6, <1>7, <1>8 DEF Next, Step, vars

LEMMA ElementsOf ==
  ASSUME NEW S, NEW s \in Seq(S), NEW i \in DOMAIN s
  PROVE  s[i] \in S
OBVIOUS

LEMMA PairsGrow ==
  ASSUME TokensTyped, NEW w \in Workers, HandlersFit, Issue(w)
  PROVE  /\ pairs' \in Seq([owner : Users, parent : Nat])
         /\ Len(pairs') = Len(pairs) + 1 /\ Len(pairs) \in Nat
         /\ DOMAIN pairs' = 1 .. Len(pairs) + 1 /\ DOMAIN pairs = 1 .. Len(pairs)
         /\ \A i \in 1 .. Len(pairs) : pairs'[i] = pairs[i]
         /\ pairs'[Len(pairs) + 1].parent = req[w].pair
<1>1. [owner |-> req[w].user, parent |-> req[w].pair] \in [owner : Users, parent : Nat]
  BY DEF Issue, HandlersFit, Fits, Handler
<1>2. QED
  BY <1>1 DEF Issue, TokensTyped

LEMMA PairsMove ==
  ASSUME TokensTyped, HandlersFit, [Next]_vars
  PROVE  UNCHANGED pairs \/ \E w \in Workers : Issue(w)
<1>1. ASSUME NEW w \in Workers, Arrive(w)
      PROVE  UNCHANGED pairs
  BY <1>1 DEF Arrive, Boot, Register, Login, Edit, Refresh, Logout
<1>2. ASSUME NEW w \in Workers, Step(w), ~Issue(w)
      PROVE  UNCHANGED pairs
  BY <1>2 DEF Step, InsertUser, MarkLogin, Consume, CheckUser, SyncRole, BarOld, BarAccess,
       Revoke, BarRefresh, SaveEdit, BootCommit, Abort
<1>3. ASSUME NEW p \in DOMAIN pairs, Expire(p) \/ Forget(p)
      PROVE  UNCHANGED pairs
  BY <1>3 DEF Expire, Forget
<1>4. QED
  BY <1>1, <1>2, <1>3 DEF Next, vars

LEMMA TokensMove ==
  ASSUME TokensTyped, HandlersFit, [Next]_vars
  PROVE  TokensTyped'
<1> USE DEF TokensTyped, Access, RefreshOf
<1>1. ASSUME NEW w \in Workers, Arrive(w)
      PROVE  TokensTyped'
  BY <1>1 DEF Arrive, Boot, Register, Login, Edit, Refresh, Logout
<1>2. ASSUME NEW w \in Workers, Issue(w)
      PROVE  TokensTyped'
  BY <1>2, PairsGrow DEF Issue
<1>3. ASSUME NEW w \in Workers, Consume(w) \/ Revoke(w)
      PROVE  TokensTyped'
  BY <1>3 DEF Consume, Revoke
<1>4. ASSUME NEW w \in Workers, BarOld(w) \/ BarAccess(w) \/ BarRefresh(w)
      PROVE  TokensTyped'
  <2>1. /\ req[w].pc \in {"bar", "barAccess"} => req[w].pair \in 1 .. Len(pairs)
        /\ req[w].pc = "barRefresh" => req[w].what \in 1 .. Len(pairs)
    BY DEF HandlersFit, Fits, Handler
  <2>2. ASSUME NEW p \in 1 .. Len(pairs), barred' \subseteq barred \cup {Access(p), RefreshOf(p)},
               UNCHANGED <<pairs, stored, expired>>
        PROVE  TokensTyped'
    BY <2>2
  <2>3. CASE BarOld(w)
    BY <2>1, <2>2, <2>3 DEF BarOld
  <2>4. CASE BarAccess(w)
    BY <2>1, <2>2, <2>4 DEF BarAccess
  <2>5. CASE BarRefresh(w)
    BY <2>1, <2>2, <2>5 DEF BarRefresh
  <2>6. QED
    BY <1>4, <2>3, <2>4, <2>5
<1>5. ASSUME NEW w \in Workers,
             \/ InsertUser(w) \/ MarkLogin(w) \/ CheckUser(w) \/ SyncRole(w)
             \/ SaveEdit(w) \/ BootCommit(w) \/ Abort(w)
      PROVE  TokensTyped'
  BY <1>5 DEF InsertUser, MarkLogin, CheckUser, SyncRole, SaveEdit, BootCommit, Abort
<1>6. ASSUME NEW p \in DOMAIN pairs, Expire(p)
      PROVE  TokensTyped'
  BY <1>6 DEF Expire
<1>7. ASSUME NEW p \in DOMAIN pairs, Forget(p)
      PROVE  TokensTyped'
  BY <1>7 DEF Forget
<1>8. QED
  BY <1>1, <1>2, <1>3, <1>4, <1>5, <1>6, <1>7 DEF Next, Step, vars

LEMMA AtHas ==
  ASSUME NEW pc, NEW user, NEW pair, NEW v, NEW what
  PROVE  LET r == At(pc, user, pair, v, what) IN
         /\ r.pc = pc /\ r.user = user /\ r.pair = pair /\ r.version = v /\ r.what = what
         /\ pc \in PCs /\ user \in Users \cup {None} /\ pair \in Nat /\ v \in Nat
              /\ what \in Emails \cup Edits \cup Nat \cup {None} => r \in Handler
BY DEF At, Handler

LEMMA ArrivalsFit ==
  ASSUME SessionsTyped, NEW w \in Workers, Arrive(w)
  PROVE  Moves(w)
<1> DEFINE n == Len(pairs)
<1>1. n \in Nat /\ DOMAIN pairs = 1 .. n
  BY DEF SessionsTyped, TokensTyped
<1>2. \A u \in Users : account[u].version \in Nat
  BY DEF SessionsTyped, AccountsTyped, AccountRow
<1>3. ASSUME NEW p \in DOMAIN pairs
      PROVE  pairs[p].owner \in Users
  <2>1. pairs[p] \in [owner : Users, parent : Nat]
    BY ElementsOf DEF SessionsTyped, TokensTyped
  <2>2. QED
    BY <2>1
<1> USE DEF Moves, Fits, Handler, At, PCs
<1>4. ASSUME NEW e \in Emails, Register(w, e)
      PROVE  Moves(w)
  BY <1>1, <1>4 DEF Register
<1>5. ASSUME NEW u \in Users, Login(w, u)
      PROVE  Moves(w)
  BY <1>1, <1>2, <1>5 DEF Login
<1>6. ASSUME NEW u \in Users, NEW what \in Edits, Edit(w, u, what)
      PROVE  Moves(w)
  BY <1>1, <1>2, <1>6 DEF Edit
<1>7. ASSUME NEW p \in DOMAIN pairs, Refresh(w, p)
      PROVE  Moves(w)
  BY <1>1, <1>3, <1>7 DEF Refresh
<1>8. ASSUME NEW p \in DOMAIN pairs, NEW q \in (DOMAIN pairs) \cup {None}, Logout(w, p, q)
      PROVE  Moves(w)
  BY <1>1, <1>8 DEF Logout
<1>9. ASSUME Boot(w)
      PROVE  Moves(w)
  <2>1. ASSUME NEW u \in Users \cup {None}, NEW v \in Nat, UNCHANGED pairs,
               Goto(w, At("boot", u, 0, v, None))
        PROVE  Moves(w)
    BY <1>1, <2>1
  <2>2. QED
    BY <1>2, <1>9, <2>1 DEF Boot, ByEmail
<1>10. QED
  BY <1>4, <1>5, <1>6, <1>7, <1>8, <1>9 DEF Arrive

LEMMA Advances ==
  ASSUME NEW r \in Handler, NEW pc \in PCs
  PROVE  LET s == [r EXCEPT !.pc = pc] IN
         /\ s \in Handler
         /\ s.pc = pc /\ s.user = r.user /\ s.pair = r.pair /\ s.what = r.what
         /\ s.version = r.version
BY DEF Handler

LEMMA StepsFit ==
  ASSUME SessionsTyped, NEW w \in Workers, Step(w)
  PROVE  Moves(w)
<1> DEFINE n == Len(pairs)
           r == req[w]
<1>1. n \in Nat /\ r \in Handler /\ Fits(r, n)
  BY DEF SessionsTyped, TokensTyped, HandlersFit
<1>2. ASSUME Finish(w), n <= Len(pairs'), Len(pairs') \in Nat
      PROVE  Moves(w)
  BY <1>2, IdleFits DEF Finish, Moves
<1>3. ASSUME NEW pc \in PCs, Advance(w, pc), UNCHANGED pairs,
             Fits([r EXCEPT !.pc = pc], n)
      PROVE  Moves(w)
  <2> DEFINE s == [r EXCEPT !.pc = pc]
  <2>1. Goto(w, s) /\ Fits(s, Len(pairs'))
    BY <1>3 DEF Advance
  <2> HIDE DEF s
  <2>2. QED
    BY <2>1 DEF Moves
<1>4. CASE InsertUser(w)
  <2>1. ASSUME NEW u \in Users, Goto(w, At("issue", u, 0, 0, None)), UNCHANGED pairs
        PROVE  Moves(w)
    BY <1>1, <2>1 DEF Moves, Fits, At, Handler, PCs
  <2>2. QED
    BY <1>1, <1>2, <1>4, <2>1 DEF InsertUser
<1>5. CASE MarkLogin(w)
  BY <1>1, <1>2, <1>5 DEF MarkLogin, Moves, Fits, At, Handler, PCs
<1>6. CASE Issue(w)
  BY <1>1, <1>2, <1>6, PairsGrow DEF Issue, SessionsTyped
<1>7. CASE Consume(w)
  <2>1. Fits([r EXCEPT !.pc = "check"], n)
    BY <1>1, <1>7, Advances DEF Consume, Fits, PCs
  <2>2. QED
    BY <1>1, <1>2, <1>3, <1>7, <2>1 DEF Consume, PCs
<1>8. CASE CheckUser(w)
  <2>1. Fits([r EXCEPT !.pc = "bar"], n)
    BY <1>1, <1>8, Advances DEF CheckUser, Fits, PCs
  <2>2. /\ account[r.user].version \in Nat
        /\ r.user \in Users
    BY <1>1, <1>8 DEF CheckUser, Fits, SessionsTyped, AccountsTyped, AccountRow
  <2>3. ASSUME NEW v \in Nat
        PROVE  Fits([r EXCEPT !.pc = "sync", !.version = v], n)
    <3> DEFINE s == [r EXCEPT !.pc = "sync", !.version = v]
    <3>1. s \in Handler /\ s.pc = "sync" /\ s.user = r.user /\ s.pair = r.pair
      BY <1>1, <2>3 DEF Handler, PCs
    <3>2. r.pc = "check"
      BY <1>8 DEF CheckUser
    <3> HIDE DEF s
    <3>3. Fits(s, n)
      BY <1>1, <3>1, <3>2 DEF Fits
    <3>4. QED
      BY <3>3 DEF s
  <2>4. CASE Finish(w) \/ Advance(w, "bar")
    BY <1>1, <1>2, <1>3, <1>8, <2>1, <2>4 DEF CheckUser, PCs
  <2>5. ASSUME NEW v \in Nat, Goto(w, [r EXCEPT !.pc = "sync", !.version = v])
        PROVE  Moves(w)
    <3> DEFINE s == [r EXCEPT !.pc = "sync", !.version = v]
    <3>1. Fits(s, Len(pairs')) /\ Goto(w, s)
      BY <1>8, <2>3, <2>5 DEF CheckUser
    <3> HIDE DEF s
    <3>2. QED
      BY <3>1 DEF Moves
  <2>6. QED
    BY <1>8, <2>2, <2>4, <2>5 DEF CheckUser
<1>9. CASE SyncRole(w)
  BY <1>1, <1>2, <1>9 DEF SyncRole, Moves, Fits, At, Handler, PCs
<1>10. CASE BarOld(w)
  <2>1. Fits([r EXCEPT !.pc = "issue"], n)
    BY <1>1, <1>10, Advances DEF BarOld, Fits, PCs
  <2>2. QED
    BY <1>1, <1>3, <1>10, <2>1 DEF BarOld, PCs
<1>11. CASE BarAccess(w)
  BY <1>1, <1>2, <1>11 DEF BarAccess, Moves, Fits, At, Handler, PCs
<1>12. CASE Revoke(w)
  <2>1. Fits([r EXCEPT !.pc = "barRefresh"], n)
    BY <1>1, <1>12, Advances DEF Revoke, Fits, PCs
  <2>2. QED
    BY <1>1, <1>3, <1>12, <2>1 DEF Revoke, PCs
<1>13. CASE BarRefresh(w) \/ SaveEdit(w) \/ BootCommit(w) \/ Abort(w)
  BY <1>1, <1>2, <1>13 DEF BarRefresh, SaveEdit, BootCommit, Abort
<1>14. QED
  BY <1>4, <1>5, <1>6, <1>7, <1>8, <1>9, <1>10, <1>11, <1>12, <1>13 DEF Step

LEMMA HandlersMove ==
  ASSUME SessionsTyped, [Next]_vars
  PROVE  HandlersFit'
<1>1. TokensTyped /\ HandlersFit /\ TokensTyped'
  BY TokensMove DEF SessionsTyped
<1>2. Len(pairs) \in Nat /\ Len(pairs') \in Nat /\ Len(pairs) <= Len(pairs')
  BY <1>1, PairsMove, PairsGrow DEF TokensTyped
<1>3. UNCHANGED req \/ \E w \in Workers : Moves(w)
  BY ArrivalsFit, StepsFit DEF Next, vars, Expire, Forget
<1>4. \A r : Fits(r, Len(pairs)) => Fits(r, Len(pairs'))
  BY <1>2, FitsLater
<1>5. ASSUME NEW w \in Workers, Moves(w)
      PROVE  HandlersFit'
  BY <1>1, <1>4, <1>5 DEF Moves, Goto, HandlersFit, Fits
<1>6. QED
  BY <1>1, <1>3, <1>4, <1>5 DEF HandlersFit

LEMMA AccountsTypedMove ==
  ASSUME SessionsTyped, [Next]_vars
  PROVE  AccountsTyped'
<1>1. CASE UNCHANGED account
  BY <1>1 DEF SessionsTyped, AccountsTyped
<1>2. ASSUME NEW u \in Users, NEW e \in Emails, NEW role \in {"customer", "chef"},
             Inserted(u, e, role)
      PROVE  AccountsTyped'
  BY <1>2 DEF Inserted, SessionsTyped, AccountsTyped, Row, AccountRow
<1>3. ASSUME NEW w \in Workers, NEW u \in Users, NEW row \in AccountRow, Updates(w, u, row)
      PROVE  AccountsTyped'
  BY <1>3 DEF Updates, SessionsTyped, AccountsTyped
<1>4. QED
  BY <1>1, <1>2, <1>3, AccountsMove DEF AccountStep

LEMMA SessionsTypedMove == SessionsTyped /\ [Next]_vars => SessionsTyped'
BY AccountsTypedMove, TokensMove, HandlersMove DEF SessionsTyped

-----------------------------------------------------------------------------
Redeems(w, p) == req[w].pair = p /\ req[w].pc \in {"check", "sync", "bar", "issue"}

(* A refresh token that may be redeemed has neither heir nor redeemer, and *)
(* one that is being redeemed has no heir and one redeemer.                *)
OneRedemption ==
  /\ \A p \in DOMAIN pairs : pairs[p].parent < p
  /\ \A p \in stored : ~HasHeir(p) /\ \A w \in Workers : ~Redeems(w, p)
  /\ \A p \in DOMAIN pairs : \A w \in Workers :
       Redeems(w, p) => ~HasHeir(p) /\ \A v \in Workers : Redeems(v, p) => v = w

(* logout deletes the key before it bars the token. *)
RevokedFirst == \A w \in Workers : req[w].pc = "barRefresh" => req[w].what \notin stored

(* What a handler knows of the row it loaded, as long as the row is at the *)
(* version it loaded.                                                      *)
Tells(r) ==
  r.user \in Users /\ r.pc \in {"mark", "sync", "edit", "boot"} =>
    /\ r.version <= account[r.user].version
    /\ r.version = account[r.user].version =>
         /\ Live(r.user)
         /\ r.pc \in {"mark", "sync"} => account[r.user].state = "active"

VersionsTell == \A w \in Workers : Tells(req[w])

SessionsInv ==
  /\ SessionsTyped /\ OneRedemption /\ RevokedFirst /\ VersionsTell
  /\ OneHeir /\ BarredIsSpent /\ EmailUnique

LEMMA SessionsInvStart == Init => SessionsInv
<1> SUFFICES ASSUME Init PROVE SessionsInv
  OBVIOUS
<1>1. SessionsTyped
  BY SessionsTypedStart
<1>2. OneRedemption /\ RevokedFirst /\ VersionsTell
  BY DEF Init, OneRedemption, RevokedFirst, VersionsTell, Tells, Redeems, Idle, At
<1>3. OneHeir /\ BarredIsSpent /\ EmailUnique
  BY DEF Init, OneHeir, BarredIsSpent, EmailUnique, Live, NoRow, Row
<1>4. QED
  BY <1>1, <1>2, <1>3 DEF SessionsInv

-----------------------------------------------------------------------------
(* Nothing is issued, nothing stored, and nobody begins to redeem. *)
Quiet ==
  /\ UNCHANGED pairs /\ stored' \subseteq stored
  /\ \A w \in Workers, p \in DOMAIN pairs : Redeems(w, p)' => Redeems(w, p)

(* The key of p is deleted, and w goes on to redeem it. *)
Takes(w, p) ==
  /\ UNCHANGED pairs /\ p \in stored /\ stored' = stored \ {p}
  /\ Redeems(w, p)' /\ \A v \in Workers \ {w} : req'[v] = req[v]

LEMMA RedemptionsMove ==
  ASSUME SessionsTyped, [Next]_vars
  PROVE  \/ Quiet
         \/ \E w \in Workers, p \in DOMAIN pairs : Takes(w, p)
         \/ \E w \in Workers : Issue(w)
<1>1. req \in [Workers -> Handler] /\ TokensTyped /\ DOMAIN pairs = 1 .. Len(pairs)
  BY DEF SessionsTyped, HandlersFit, TokensTyped
<1>2. ASSUME NEW w \in Workers, NEW r, Goto(w, r), UNCHANGED pairs, stored' \subseteq stored,
             \/ r.pc \notin {"check", "sync", "bar", "issue"}
             \/ r.pair \notin DOMAIN pairs
             \/ r.pair = req[w].pair /\ req[w].pc \in {"check", "sync", "bar", "issue"}
      PROVE  Quiet
  BY <1>1, <1>2 DEF Goto, Quiet, Redeems
<1>3. ASSUME NEW w \in Workers, Finish(w), UNCHANGED pairs, stored' \subseteq stored
      PROVE  Quiet
  <2>1. Idle.pc \notin {"check", "sync", "bar", "issue"}
    BY DEF Idle, At
  <2>2. QED
    BY <1>2, <1>3, <2>1 DEF Finish
<1>4. ASSUME NEW w \in Workers, NEW pc \in PCs, Advance(w, pc), UNCHANGED pairs, stored' \subseteq stored,
             pc \in {"check", "sync", "bar", "issue"} => req[w].pc \in {"check", "sync", "bar", "issue"}
      PROVE  Quiet
  <2> DEFINE r == [req[w] EXCEPT !.pc = pc]
  <2>1. r.pc = pc /\ r.pair = req[w].pair
    BY <1>1, Advances
  <2>2. Goto(w, r)
    BY <1>4 DEF Advance
  <2> HIDE DEF r
  <2>3. QED
    BY <1>2, <1>4, <2>1, <2>2
<1>5. ASSUME NEW w \in Workers, Arrive(w)
      PROVE  Quiet
  BY <1>2, <1>5 DEF Arrive, Boot, Register, Login, Edit, Refresh, Logout, At
<1>6. ASSUME NEW w \in Workers, InsertUser(w) \/ MarkLogin(w)
      PROVE  Quiet
  <2>1. ASSUME NEW u, Goto(w, At("issue", u, 0, 0, None)), UNCHANGED <<pairs, stored>>
        PROVE  Quiet
    BY <1>1, <1>2, <2>1, AtHas
  <2>2. QED
    BY <1>3, <1>6, <2>1 DEF InsertUser, MarkLogin
<1>7. ASSUME NEW w \in Workers, Consume(w)
      PROVE  Quiet \/ \E p \in DOMAIN pairs : Takes(w, p)
  <2>1. CASE req[w].pair \notin stored
    BY <1>3, <1>7, <2>1 DEF Consume
  <2>2. CASE req[w].pair \in stored
    <3> DEFINE r == [req[w] EXCEPT !.pc = "check"]
    <3>1. r.pc = "check" /\ r.pair = req[w].pair
      BY <1>1, Advances DEF PCs
    <3>2. req' = [req EXCEPT ![w] = r]
      BY <1>7, <2>2 DEF Consume, Advance, Goto
    <3> HIDE DEF r
    <3>3. Takes(w, req[w].pair)
      BY <1>1, <1>7, <2>2, <3>1, <3>2 DEF Consume, Takes, Redeems
    <3>4. QED
      BY <1>1, <2>2, <3>3 DEF TokensTyped
  <2>3. QED
    BY <2>1, <2>2
<1>8. ASSUME NEW w \in Workers, CheckUser(w)
      PROVE  Quiet
  <2>1. CASE Finish(w)
    BY <1>3, <1>8, <2>1 DEF CheckUser
  <2>2. CASE Advance(w, "bar")
    BY <1>4, <1>8, <2>2 DEF CheckUser, PCs
  <2>3. ASSUME NEW v, Goto(w, [req[w] EXCEPT !.pc = "sync", !.version = v])
        PROVE  Quiet
    <3> DEFINE r == [req[w] EXCEPT !.pc = "sync", !.version = v]
    <3>1. r.pair = req[w].pair
      BY <1>1 DEF Handler
    <3>2. Goto(w, r)
      BY <2>3
    <3> HIDE DEF r
    <3>3. QED
      BY <1>2, <1>8, <3>1, <3>2 DEF CheckUser
  <2>4. QED
    BY <1>8, <2>1, <2>2, <2>3 DEF CheckUser
<1>9. ASSUME NEW w \in Workers, SyncRole(w)
      PROVE  Quiet
  BY <1>2, <1>3, <1>9 DEF SyncRole, At
<1>10. ASSUME NEW w \in Workers, BarOld(w) \/ Revoke(w)
      PROVE  Quiet
  BY <1>4, <1>10 DEF BarOld, Revoke, PCs
<1>11. ASSUME NEW w \in Workers, BarAccess(w)
      PROVE  Quiet
  BY <1>2, <1>3, <1>11 DEF BarAccess, At
<1>12. ASSUME NEW w \in Workers, BarRefresh(w) \/ SaveEdit(w) \/ BootCommit(w) \/ Abort(w)
      PROVE  Quiet
  BY <1>3, <1>12 DEF BarRefresh, SaveEdit, BootCommit, Abort
<1>13. ASSUME NEW p \in DOMAIN pairs, Expire(p) \/ Forget(p)
      PROVE  Quiet
  BY <1>13 DEF Expire, Forget, Quiet, Redeems
<1>14. CASE UNCHANGED vars
  BY <1>14 DEF vars, Quiet, Redeems
<1>15. QED
  BY <1>5, <1>6, <1>7, <1>8, <1>9, <1>10, <1>11, <1>12, <1>13, <1>14 DEF Next, Step

LEMMA RedemptionsKept ==
  ASSUME SessionsInv, [Next]_vars
  PROVE  OneRedemption' /\ OneHeir'
<1>1. /\ SessionsTyped /\ TokensTyped /\ HandlersFit /\ OneRedemption /\ OneHeir
      /\ DOMAIN pairs = 1 .. Len(pairs) /\ Len(pairs) \in Nat /\ stored \subseteq 1 .. Len(pairs)
      /\ req \in [Workers -> Handler] /\ \A w \in Workers : req[w].pair \in 0 .. Len(pairs)
      /\ pairs \in Seq([owner : Users, parent : Nat])
  BY DEF SessionsInv, SessionsTyped, HandlersFit, Fits, Handler, TokensTyped
<1>9. ASSUME NEW p \in DOMAIN pairs
      PROVE  pairs[p].parent \in Nat
  <2>1. pairs[p] \in [owner : Users, parent : Nat]
    BY <1>1, ElementsOf
  <2>2. QED
    BY <2>1
<1>2. CASE Quiet
  <2>1. \A p \in DOMAIN pairs : HasHeir(p)' => HasHeir(p)
    BY <1>2 DEF Quiet, HasHeir
  <2>2. QED
    BY <1>1, <1>2, <2>1 DEF Quiet, OneRedemption, OneHeir
<1>3. ASSUME NEW w \in Workers, NEW p \in DOMAIN pairs, Takes(w, p)
      PROVE  OneRedemption' /\ OneHeir'
  <2>1. \A v \in Workers : ~Redeems(v, p)
    BY <1>1, <1>3 DEF Takes, OneRedemption
  <2>2. \A v \in Workers \ {w}, q \in DOMAIN pairs : Redeems(v, q)' => Redeems(v, q) /\ q # p
    BY <1>3, <2>1 DEF Takes, Redeems
  <2>3. \A q \in DOMAIN pairs : Redeems(w, q)' => q = p
    BY <1>3 DEF Takes, Redeems
  <2>4. \A q \in DOMAIN pairs : HasHeir(q)' => HasHeir(q)
    BY <1>3 DEF Takes, HasHeir
  <2>5. p \in stored /\ stored' = stored \ {p} /\ UNCHANGED pairs
    BY <1>3 DEF Takes
  <2>6. QED
    BY <1>1, <2>2, <2>3, <2>4, <2>5 DEF OneRedemption, OneHeir
<1>4. ASSUME NEW w \in Workers, Issue(w)
      PROVE  OneRedemption' /\ OneHeir'
  <2> DEFINE n == Len(pairs)
             parent == req[w].pair
  <2>1. /\ DOMAIN pairs' = 1 .. n + 1 /\ \A i \in 1 .. n : pairs'[i] = pairs[i]
        /\ pairs'[n + 1].parent = parent
    BY <1>1, <1>4, PairsGrow
  <2>2. /\ stored' = stored \cup {n + 1} /\ req[w].pc = "issue"
        /\ req' = [req EXCEPT ![w] = Idle] /\ parent \in 0 .. n
    BY <1>1, <1>4 DEF Issue, Finish, Goto
  <2>3. \A v \in Workers, q \in 1 .. n + 1 : Redeems(v, q)' => Redeems(v, q) /\ q <= n /\ v # w
    BY <1>1, <2>2 DEF Redeems, Idle, At
  <2>4. parent # 0 => /\ ~HasHeir(parent) /\ parent \notin stored
                      /\ \A v \in Workers : Redeems(v, parent) => v = w
    BY <1>1, <2>2 DEF OneRedemption, Redeems
  <2>5. \A q \in 1 .. n : q # parent => (HasHeir(q)' => HasHeir(q))
    BY <1>1, <2>1 DEF HasHeir
  <2>6. \A q : q = n + 1 => ~HasHeir(q)'
    BY <1>1, <1>9, <2>1, <2>2 DEF HasHeir, OneRedemption
  <2>7. OneRedemption'
    <3>1. \A q \in DOMAIN pairs' : pairs'[q].parent < q
      BY <1>1, <1>9, <2>1, <2>2 DEF OneRedemption
    <3>2. ASSUME NEW q \in stored'
          PROVE  ~HasHeir(q)' /\ \A v \in Workers : ~Redeems(v, q)'
      <4>1. CASE q = n + 1
        BY <1>1, <2>1, <2>3, <2>6, <4>1
      <4>2. CASE q \in stored
        BY <1>1, <2>3, <2>4, <2>5, <4>2 DEF OneRedemption
      <4>3. QED
        BY <2>2, <4>1, <4>2
    <3>3. ASSUME NEW q \in DOMAIN pairs', NEW v \in Workers, Redeems(v, q)'
          PROVE  ~HasHeir(q)' /\ \A x \in Workers : Redeems(x, q)' => x = v
      BY <1>1, <2>1, <2>2, <2>3, <2>4, <2>5, <3>3 DEF OneRedemption
    <3>4. QED
      BY <3>1, <3>2, <3>3 DEF OneRedemption
  <2>8. OneHeir'
    BY <1>1, <1>9, <2>1, <2>2, <2>4 DEF OneHeir, HasHeir
  <2>9. QED
    BY <2>7, <2>8
<1>5. QED
  BY <1>1, <1>2, <1>3, <1>4, RedemptionsMove

(* What a handler has loaded when it is about to update a row. *)
LoadedRow(r) ==
  /\ UNCHANGED account
  /\ r.user \in Users =>
       /\ r.version = account[r.user].version /\ Live(r.user)
       /\ r.pc \in {"mark", "sync"} => account[r.user].state = "active"

Changes(w) ==
  \E r : /\ Goto(w, r)
         /\ r.pc = "barRefresh" => req[w].what \notin stored' /\ r.what = req[w].what
         /\ r.pc \in {"mark", "sync", "edit", "boot"} => LoadedRow(r)

LEMMA HandlersChange ==
  ASSUME SessionsTyped, [Next]_vars
  PROVE  UNCHANGED req \/ \E w \in Workers : Changes(w)
<1>1. req \in [Workers -> Handler]
  BY DEF SessionsTyped, HandlersFit
<1>2. ASSUME NEW w \in Workers, NEW r, Goto(w, r), r.pc \notin {"barRefresh", "mark", "sync", "edit", "boot"}
      PROVE  Changes(w)
  BY <1>2 DEF Changes
<1>3. ASSUME NEW w \in Workers, Finish(w)
      PROVE  Changes(w)
  BY <1>2, <1>3 DEF Finish, Idle, At
<1>4. ASSUME NEW w \in Workers, NEW pc \in PCs \ {"barRefresh", "mark", "sync", "edit", "boot"},
             Advance(w, pc)
      PROVE  Changes(w)
  <2> DEFINE r == [req[w] EXCEPT !.pc = pc]
  <2>1. r.pc = pc /\ Goto(w, r)
    BY <1>1, <1>4, Advances DEF Advance
  <2> HIDE DEF r
  <2>2. QED
    BY <1>2, <1>4, <2>1
<1>5. ASSUME NEW w \in Workers, NEW r, Goto(w, r), r.pc # "barRefresh", LoadedRow(r)
      PROVE  Changes(w)
  BY <1>5 DEF Changes
<1>6. ASSUME NEW w \in Workers, NEW e \in Emails, Register(w, e)
      PROVE  Changes(w)
  BY <1>2, <1>6 DEF Register, At
<1>7. ASSUME NEW w \in Workers, NEW u \in Users, Login(w, u)
      PROVE  Changes(w)
  BY <1>5, <1>7 DEF Login, At, LoadedRow, Live
<1>8. ASSUME NEW w \in Workers, NEW u \in Users, NEW what \in Edits, Edit(w, u, what)
      PROVE  Changes(w)
  BY <1>5, <1>8 DEF Edit, At, LoadedRow
<1>9. ASSUME NEW w \in Workers, NEW p \in DOMAIN pairs, Refresh(w, p)
      PROVE  Changes(w)
  BY <1>2, <1>9 DEF Refresh, At
<1>10. ASSUME NEW w \in Workers, NEW p \in DOMAIN pairs, NEW q, Logout(w, p, q)
      PROVE  Changes(w)
  BY <1>2, <1>10 DEF Logout, At
<1>11. ASSUME NEW w \in Workers, Boot(w)
      PROVE  Changes(w)
  BY <1>5, <1>11, SessionConstants DEF Boot, At, LoadedRow, ByEmail
<1>12. ASSUME NEW w \in Workers,
              InsertUser(w) \/ MarkLogin(w) \/ SyncRole(w) \/ BarAccess(w)
      PROVE  Changes(w)
  <2>1. ASSUME NEW pc \in {"issue", "bar", "revoke"}, NEW u, NEW p, NEW what,
               Goto(w, At(pc, u, p, 0, what))
        PROVE  Changes(w)
    BY <1>2, <2>1, AtHas
  <2>2. QED
    BY <1>3, <1>12, <2>1 DEF InsertUser, MarkLogin, SyncRole, BarAccess
<1>13. ASSUME NEW w \in Workers, Consume(w) \/ BarOld(w)
      PROVE  Changes(w)
  BY <1>3, <1>4, <1>13 DEF Consume, BarOld, PCs
<1>14. ASSUME NEW w \in Workers, CheckUser(w)
      PROVE  Changes(w)
  <2> DEFINE row == account[req[w].user]
             r == [req[w] EXCEPT !.pc = "sync", !.version = row.version]
  <2>1. CASE Finish(w) \/ Advance(w, "bar")
    BY <1>3, <1>4, <2>1 DEF PCs
  <2>2. CASE Goto(w, r)
    <3>1. (row.state = "active" /\ UNCHANGED account) \/ Finish(w)
      BY <1>14 DEF CheckUser
    <3>2. r.pc = "sync" /\ r.version = row.version /\ r.user = req[w].user
      BY <1>1 DEF Handler
    <3>3. row.state = "active" /\ UNCHANGED account => LoadedRow(r)
      BY <3>2 DEF LoadedRow, Live
    <3> HIDE DEF r
    <3>4. QED
      BY <1>3, <1>5, <2>2, <3>1, <3>2, <3>3
  <2>3. QED
    BY <1>14, <2>1, <2>2 DEF CheckUser
<1>15. ASSUME NEW w \in Workers, Revoke(w)
      PROVE  Changes(w)
  <2> DEFINE r == [req[w] EXCEPT !.pc = "barRefresh"]
  <2>1. r.pc = "barRefresh" /\ r.what = req[w].what
    BY <1>1, Advances DEF PCs
  <2>2. Goto(w, r) /\ req[w].what \notin stored'
    BY <1>15 DEF Revoke, Advance
  <2> HIDE DEF r
  <2>3. QED
    BY <2>1, <2>2 DEF Changes
<1>16. ASSUME NEW w \in Workers,
              Issue(w) \/ BarRefresh(w) \/ SaveEdit(w) \/ BootCommit(w) \/ Abort(w)
      PROVE  Changes(w)
  BY <1>3, <1>16 DEF Issue, BarRefresh, SaveEdit, BootCommit, Abort
<1>17. QED
  BY <1>6, <1>7, <1>8, <1>9, <1>10, <1>11, <1>12, <1>13, <1>14, <1>15, <1>16
     DEF Next, Arrive, Step, Expire, Forget, vars

LEMMA RevokedFirstKept ==
  ASSUME SessionsInv, [Next]_vars
  PROVE  RevokedFirst'
<1>1. /\ SessionsTyped /\ HandlersFit /\ TokensTyped /\ RevokedFirst /\ req \in [Workers -> Handler]
      /\ Len(pairs) \in Nat
  BY DEF SessionsInv, SessionsTyped, HandlersFit, TokensTyped
<1>2. \A w \in Workers : req[w].pc = "barRefresh" => req[w].what \in 1 .. Len(pairs)
  BY <1>1 DEF HandlersFit, Fits
<1>3. CASE stored' \subseteq stored
  BY <1>1, <1>3, HandlersChange DEF RevokedFirst, Changes, Goto
<1>4. ASSUME NEW v \in Workers, Issue(v)
      PROVE  RevokedFirst'
  <2>1. stored' = stored \cup {Len(pairs) + 1} /\ req' = [req EXCEPT ![v] = Idle]
    BY <1>4 DEF Issue, Finish, Goto
  <2>2. Idle.pc # "barRefresh" /\ Len(pairs) + 1 \notin 1 .. Len(pairs)
    BY <1>1 DEF Idle, At
  <2>3. QED
    BY <1>1, <1>2, <2>1, <2>2 DEF RevokedFirst
<1>5. QED
  BY <1>1, <1>3, <1>4, RedemptionsMove DEF Quiet, Takes

LEMMA VersionsKept ==
  ASSUME SessionsInv, [Next]_vars
  PROVE  VersionsTell'
<1>1. /\ SessionsTyped /\ VersionsTell /\ req \in [Workers -> Handler]
      /\ \A u \in Users : account[u] \in AccountRow
      /\ account \in [Users -> AccountRow]
  BY DEF SessionsInv, SessionsTyped, HandlersFit, AccountsTyped
<1>2. \A w \in Workers : req[w].version \in Nat
  BY <1>1 DEF Handler
<1>3. \A u \in Users : account[u].version \in Nat
  BY <1>1 DEF AccountRow
<1>5. ASSUME NEW v \in Workers, req[v].user \in Users,
             req[v].pc \in {"mark", "sync", "edit", "boot"}
      PROVE  LET u == req[v].user IN
             /\ account[u] # NoRow
             /\ account'[u] = account[u] \/ account'[u].version > account[u].version
  <2> DEFINE u == req[v].user
  <2>1. NoRow.version = 0 /\ NoRow.state = "none"
    BY DEF NoRow, Row
  <2>2. account[u] # NoRow
    BY <1>1, <1>2, <1>5, <2>1 DEF VersionsTell, Tells, Live
  <2>3. ASSUME NEW x \in Users, NEW e \in Emails, NEW role \in {"customer", "chef"}, Inserted(x, e, role)
        PROVE  account'[u] = account[u]
    BY <1>1, <1>5, <2>2, <2>3 DEF Inserted
  <2>4. ASSUME NEW w \in Workers, NEW x \in Users, NEW row \in AccountRow, Updates(w, x, row)
        PROVE  account'[u] = account[u] \/ account'[u].version > account[u].version
    BY <1>1, <1>3, <1>5, <2>4 DEF Updates
  <2>5. QED
    BY <1>1, <2>2, <2>3, <2>4, AccountsMove DEF AccountStep
<1>6. ASSUME NEW v \in Workers
      PROVE  Tells(req[v])'
  <2>1. CASE req'[v] = req[v]
    <3>1. CASE req[v].user \in Users /\ req[v].pc \in {"mark", "sync", "edit", "boot"}
      <4>1. CASE account'[req[v].user] = account[req[v].user]
        BY <1>1, <2>1, <4>1 DEF VersionsTell, Tells, Live
      <4>2. CASE account'[req[v].user].version > account[req[v].user].version
        <5>1. req[v].version <= account[req[v].user].version
          BY <1>1, <3>1 DEF VersionsTell, Tells
        <5>2. account'[req[v].user].version \in Nat
          BY <3>1, SessionsTypedMove DEF SessionsInv, SessionsTyped, AccountsTyped, AccountRow
        <5>3. req[v].version < account'[req[v].user].version
          BY <1>2, <1>3, <3>1, <4>2, <5>1, <5>2
        <5>4. QED
          BY <1>2, <2>1, <5>2, <5>3 DEF Tells
      <4>3. QED
        BY <1>5, <3>1, <4>1, <4>2
    <3>2. QED
      BY <2>1, <3>1 DEF Tells
  <2>2. CASE req'[v].pc \notin {"mark", "sync", "edit", "boot"}
    BY <2>2 DEF Tells
  <2>3. CASE LoadedRow(req'[v])
    BY <1>3, <2>3 DEF LoadedRow, Tells, Live
  <2>4. \/ req'[v] = req[v] \/ LoadedRow(req'[v])
        \/ req'[v].pc \notin {"mark", "sync", "edit", "boot"}
    BY <1>1, HandlersChange DEF Changes, Goto
  <2>5. QED
    BY <2>1, <2>2, <2>3, <2>4
<1>7. QED
  BY <1>6 DEF VersionsTell

LEMMA BarredKept ==
  ASSUME SessionsInv, [Next]_vars
  PROVE  BarredIsSpent'
<1>1. /\ SessionsTyped /\ TokensTyped /\ BarredIsSpent /\ RevokedFirst /\ OneRedemption
      /\ Len(pairs) \in Nat /\ HandlersFit
      /\ barred \subseteq (1 .. Len(pairs)) \X {"access", "refresh"}
  BY DEF SessionsInv, SessionsTyped, TokensTyped
<1>2. ASSUME NEW w \in Workers, BarOld(w)
      PROVE  BarredIsSpent'
  <2>1. req[w].pair \in DOMAIN pairs /\ Redeems(w, req[w].pair)
    BY <1>1, <1>2 DEF BarOld, HandlersFit, Fits, Handler, TokensTyped, Redeems
  <2>2. req[w].pair \notin stored
    BY <1>1, <1>2, <2>1 DEF OneRedemption
  <2>3. QED
    BY <1>1, <1>2, <2>2 DEF BarOld, BarredIsSpent, RefreshOf
<1>3. ASSUME NEW w \in Workers, BarAccess(w)
      PROVE  BarredIsSpent'
  <2>1. stored' = stored /\ barred' \subseteq barred \cup {Access(req[w].pair)}
    BY <1>3 DEF BarAccess
  <2>2. QED
    BY <1>1, <2>1 DEF BarredIsSpent, RefreshOf, Access
<1>4. ASSUME NEW w \in Workers, BarRefresh(w)
      PROVE  BarredIsSpent'
  <2>1. /\ stored' = stored /\ barred' \subseteq barred \cup {RefreshOf(req[w].what)}
        /\ req[w].what \notin stored
    BY <1>1, <1>4 DEF BarRefresh, RevokedFirst
  <2>2. QED
    BY <1>1, <2>1 DEF BarredIsSpent, RefreshOf
<1>5. CASE stored' \subseteq stored /\ barred' \subseteq barred
  BY <1>1, <1>5 DEF BarredIsSpent, RefreshOf
<1>6. ASSUME NEW w \in Workers, Issue(w)
      PROVE  BarredIsSpent'
  <2>1. stored' = stored \cup {Len(pairs) + 1} /\ barred' = barred
    BY <1>6 DEF Issue
  <2>2. RefreshOf(Len(pairs) + 1) \notin barred
    BY <1>1 DEF RefreshOf
  <2>3. QED
    BY <1>1, <2>1, <2>2 DEF BarredIsSpent, RefreshOf
<1>7. ASSUME NEW w \in Workers, Arrive(w)
      PROVE  stored' \subseteq stored /\ barred' \subseteq barred
  BY <1>7 DEF Arrive, Boot, Register, Login, Edit, Refresh, Logout
<1>8. ASSUME NEW w \in Workers,
             \/ InsertUser(w) \/ MarkLogin(w) \/ Consume(w) \/ CheckUser(w) \/ SyncRole(w)
             \/ Revoke(w) \/ SaveEdit(w) \/ BootCommit(w) \/ Abort(w)
      PROVE  stored' \subseteq stored /\ barred' \subseteq barred
  BY <1>8 DEF InsertUser, MarkLogin, Consume, CheckUser, SyncRole, Revoke, SaveEdit, BootCommit, Abort
<1>9. ASSUME NEW p \in DOMAIN pairs, Expire(p) \/ Forget(p)
      PROVE  stored' \subseteq stored /\ barred' \subseteq barred
  BY <1>9 DEF Expire, Forget
<1>10. QED
  BY <1>2, <1>3, <1>4, <1>5, <1>6, <1>7, <1>8, <1>9 DEF Next, Step, vars

LEMMA EmailsKept ==
  ASSUME SessionsInv, [Next]_vars
  PROVE  EmailUnique'
<1>1. /\ SessionsTyped /\ account \in [Users -> AccountRow] /\ EmailUnique /\ VersionsTell
  BY DEF SessionsInv, SessionsTyped, AccountsTyped
<1>2. CASE UNCHANGED account
  BY <1>1, <1>2 DEF EmailUnique, Live
<1>3. ASSUME NEW x \in Users, NEW e \in Emails, NEW role \in {"customer", "chef"}, Inserted(x, e, role)
      PROVE  EmailUnique'
  <2>1. /\ account' = [account EXCEPT ![x] = Row("active", e, role, 1)]
        /\ \A u \in Users : Live(u) => account[u].email # e
    BY <1>3 DEF Inserted, ByEmail
  <2>2. Row("active", e, role, 1).email = e
    BY DEF Row
  <2>3. QED
    BY <1>1, <2>1, <2>2 DEF EmailUnique, Live
<1>4. ASSUME NEW w \in Workers, NEW x \in Users, NEW row \in AccountRow, Updates(w, x, row)
      PROVE  EmailUnique'
  <2>1. /\ account' = [account EXCEPT ![x] = row] /\ row.email = account[x].email
        /\ row.state # account[x].state => Live(x)
    BY <1>1, <1>4 DEF Updates, VersionsTell, Tells
  <2>2. QED
    BY <1>1, <2>1 DEF EmailUnique, Live
<1>5. QED
  BY <1>1, <1>2, <1>3, <1>4, AccountsMove DEF AccountStep

LEMMA SessionsInvKept == SessionsInv /\ [Next]_vars => SessionsInv'
BY SessionsTypedMove, RedemptionsKept, RevokedFirstKept, VersionsKept, BarredKept, EmailsKept
   DEF SessionsInv

LEMMA SessionsInvAlways == Spec => []SessionsInv
BY SessionsInvStart, SessionsInvKept, PTL DEF Spec

-----------------------------------------------------------------------------
LEMMA LogoutFinal ==
  ASSUME SessionsInv, [Next]_vars
  PROVE  \A p \in DOMAIN pairs : Ended(p) => Ended(p)'
<1> SUFFICES ASSUME NEW p \in DOMAIN pairs, Ended(p)
             PROVE  Ended(p)'
  OBVIOUS
<1>1. SessionsTyped /\ TokensTyped /\ HandlersFit /\ DOMAIN pairs = 1 .. Len(pairs) /\ Len(pairs) \in Nat
  BY DEF SessionsInv, SessionsTyped, TokensTyped
<1>2. Access(p)' \in barred' \cup expired'
  <2>1. Access(p) \in barred \cup expired /\ Access(p)' = Access(p)
    BY DEF Ended, Access
  <2>2. ASSUME NEW w \in Workers, Arrive(w)
        PROVE  barred \cup expired \subseteq barred' \cup expired'
    BY <2>2 DEF Arrive, Boot, Register, Login, Edit, Refresh, Logout
  <2>3. ASSUME NEW w \in Workers, Step(w)
        PROVE  barred \cup expired \subseteq barred' \cup expired'
    BY <2>3 DEF Step, InsertUser, MarkLogin, Consume, CheckUser, SyncRole, Revoke, SaveEdit,
         BootCommit, Abort, Issue, BarOld, BarAccess, BarRefresh
  <2>4. ASSUME NEW q \in DOMAIN pairs, Expire(q)
        PROVE  barred \cup expired \subseteq barred' \cup expired'
    BY <2>4 DEF Expire
  <2>5. ASSUME NEW q \in DOMAIN pairs, Forget(q)
        PROVE  Access(p) \in barred' \cup expired'
    BY <2>1, <2>5 DEF Forget, Access, RefreshOf
  <2>6. QED
    BY <2>1, <2>2, <2>3, <2>4, <2>5 DEF Next, vars
<1>3. ~HasHeir(p) /\ p \notin stored /\ \A w \in Workers : ~Redeems(w, p)
  BY DEF Ended, Redeeming, Redeems
<1>4. ~HasHeir(p)' /\ p \notin stored' /\ \A w \in Workers : ~Redeems(w, p)'
  <2>1. CASE Quiet
    BY <1>3, <2>1 DEF Quiet, HasHeir
  <2>2. ASSUME NEW w \in Workers, NEW q \in DOMAIN pairs, Takes(w, q)
        PROVE  ~HasHeir(p)' /\ p \notin stored' /\ \A v \in Workers : ~Redeems(v, p)'
    BY <1>3, <2>2 DEF Takes, HasHeir, Redeems
  <2>3. ASSUME NEW w \in Workers, Issue(w)
        PROVE  ~HasHeir(p)' /\ p \notin stored' /\ \A v \in Workers : ~Redeems(v, p)'
    <3>1. /\ DOMAIN pairs' = 1 .. Len(pairs) + 1
          /\ \A i \in 1 .. Len(pairs) : pairs'[i] = pairs[i]
          /\ pairs'[Len(pairs) + 1].parent = req[w].pair
      BY <1>1, <2>3, PairsGrow
    <3>2. /\ stored' = stored \cup {Len(pairs) + 1} /\ req[w].pc = "issue"
          /\ req' = [req EXCEPT ![w] = Idle]
      BY <2>3 DEF Issue, Finish, Goto
    <3>3. req[w].pair # p
      BY <1>3, <3>2 DEF Redeems
    <3>4. ~HasHeir(p)' /\ p \notin stored'
      BY <1>1, <1>3, <3>1, <3>2, <3>3 DEF HasHeir
    <3>5. \A v \in Workers : ~Redeems(v, p)'
      BY <1>1, <1>3, <3>2 DEF Redeems, Idle, At, HandlersFit
    <3>6. QED
      BY <3>4, <3>5
  <2>4. QED
    BY <1>1, <2>1, <2>2, <2>3, RedemptionsMove DEF SessionsInv
<1>5. QED
  BY <1>2, <1>4 DEF Ended, Redeeming, Redeems

LEMMA LoginActive ==
  ASSUME SessionsInv, [Next]_vars, NEW w \in Workers,
         req[w].pc = "mark", req'[w].pc = "issue"
  PROVE  account[req[w].user].state = "active"
<1>1. /\ req \in [Workers -> Handler] /\ VersionsTell /\ req[w].user \in Users
  BY DEF SessionsInv, SessionsTyped, HandlersFit, Fits
<1>2. ASSUME NEW v \in Workers, Arrive(v)
      PROVE  v # w
  <2>1. req[v] = Idle
    BY <1>2 DEF Arrive, Boot, Register, Login, Edit, Refresh, Logout
  <2>2. QED
    BY <2>1 DEF Idle, At
<1>3. ASSUME NEW v \in Workers, Step(v), ~MarkLogin(v)
      PROVE  v # w \/ Abort(v)
  BY <1>3 DEF Step, InsertUser, Issue, Consume, CheckUser, SyncRole, BarOld, BarAccess, Revoke,
       BarRefresh, SaveEdit, BootCommit
<1>4. ~Finish(w)
  BY <1>1 DEF Finish, Goto, Idle, At
<1>5. \A v \in Workers : \A r : v # w /\ Goto(v, r) => req'[w] = req[w]
  BY <1>1 DEF Goto
<1>6. req'[w] # req[w]
  OBVIOUS
<1>7. MarkLogin(w)
  <2>1. ASSUME NEW v \in Workers, Arrive(v) \/ Step(v)
        PROVE  \E r : Goto(v, r)
    BY <1>1, <2>1, ArrivalsFit, StepsFit DEF SessionsInv, Moves
  <2>2. QED
    BY <1>2, <1>3, <1>4, <1>5, <1>6, <2>1 DEF Next, vars, Expire, Forget, Abort
<1>8. req[w].version = account[req[w].user].version
  BY <1>4, <1>7 DEF MarkLogin, Fresh
<1>9. QED
  BY <1>1, <1>8 DEF VersionsTell, Tells

LEMMA ClosedStays ==
  ASSUME SessionsInv, [Next]_vars, NEW u \in Users,
         account[u].state \in {"inactive", "deleted"}, account'[u].state = "active"
  PROVE  \E w \in Workers :
           /\ req[w].user = u /\ req'[w] = Idle
           /\ req[w].version = account[u].version
           /\ req[w].pc = "boot" \/ req[w].what = "restore"
<1>1. /\ SessionsTyped /\ account \in [Users -> AccountRow] /\ req \in [Workers -> Handler]
  BY DEF SessionsInv, SessionsTyped, AccountsTyped, HandlersFit
<1>2. ASSUME NEW x \in Users, NEW e \in Emails, NEW role \in {"customer", "chef"}
      PROVE  ~Inserted(x, e, role)
  BY <1>1 DEF Inserted, NoRow, Row
<1>3. ASSUME NEW w \in Workers, NEW x \in Users, NEW row \in AccountRow, Updates(w, x, row)
      PROVE  /\ req[w].user = u /\ req'[w] = Idle
             /\ req[w].version = account[u].version
             /\ req[w].pc = "boot" \/ req[w].what = "restore"
  <2>1. x = u /\ row.state = "active"
    BY <1>1, <1>3 DEF Updates
  <2>2. QED
    BY <1>1, <1>3, <2>1 DEF Updates
<1>4. QED
  BY <1>1, <1>2, <1>3, AccountsMove DEF AccountStep

(* Sessions keep all that is promised of them, for any number of accounts, *)
(* handlers, token pairs and updates.                                      *)
THEOREM SessionsHold == Spec => SessionsCorrect
<1>1. SessionsInv => TypeOK /\ OneHeir /\ BarredIsSpent /\ EmailUnique
  BY SessionsTypedMeans DEF SessionsInv
<1>2. SessionsInv /\ [Next]_vars => [\A p \in DOMAIN pairs : Ended(p) => Ended(p)']_vars
  BY LogoutFinal
<1>3. SessionsInv /\ [Next]_vars =>
        [\A w \in Workers :
           req[w].pc = "mark" /\ req'[w].pc = "issue"
             => account[req[w].user].state = "active"]_vars
  BY LoginActive
<1>4. SessionsInv /\ [Next]_vars =>
        [\A u \in Users :
           account[u].state \in {"inactive", "deleted"} /\ account'[u].state = "active"
             => \E w \in Workers :
                  /\ req[w].user = u /\ req'[w] = Idle
                  /\ req[w].version = account[u].version
                  /\ \/ req[w].pc = "boot"
                     \/ req[w].what = "restore"]_vars
  BY ClosedStays
<1>5. QED
  BY <1>1, <1>2, <1>3, <1>4, SessionsInvAlways, PTL
     DEF SessionsCorrect, Spec, LogoutIsFinal, LoginsAreActive, ClosedStaysClosed

-----------------------------------------------------------------------------
(* Wishlists *)

Founds == UNION {[S -> Nat] : S \in SUBSET Products}

WishStates ==
  [pc : {"idle", "make", "act", "save"},
   kind : {"show", "clear", "prefer", "add", "remove", None},
   product : Products \cup {None}, found : Founds]

ItemRow == [live : BOOLEAN, gen : 0 .. MaxGen]

(* What is about to be removed has been found. *)
WishesFit(r) ==
  /\ r.pc # "idle" /\ r.kind \in {"add", "remove"} => r.product \in Products
  /\ r.pc = "save" /\ r.kind = "remove" => r.product \in DOMAIN r.found

WishInv ==
  /\ single \subseteq Singles /\ item \in [Products -> ItemRow]
  /\ wreq \in [Workers -> WishStates]
  /\ \A w \in Workers : WishesFit(wreq[w])

LEMMA FoundsHave ==
  ASSUME NEW f \in Founds
  PROVE  /\ DOMAIN f \subseteq Products
         /\ \A p \in Products, n \in Nat : With(f, p, n) \in Founds /\ p \in DOMAIN With(f, p, n)
<1>1. PICK S \in SUBSET Products : f \in [S -> Nat]
  BY DEF Founds
<1>2. ASSUME NEW p \in Products, NEW n \in Nat
      PROVE  With(f, p, n) \in Founds /\ p \in DOMAIN With(f, p, n)
  <2>1. With(f, p, n) \in [S \cup {p} -> Nat]
    BY <1>1 DEF With
  <2>2. S \cup {p} \in SUBSET Products
    BY <1>1
  <2>3. QED
    BY <2>1, <2>2 DEF Founds
<1>3. QED
  BY <1>1, <1>2

LEMMA LoadedIsFound ==
  ASSUME item \in [Products -> ItemRow]
  PROVE  Loaded \in Founds
<1>1. Loaded \in [LiveItems -> Nat]
  BY DEF Loaded, LiveItems, ItemRow
<1>2. LiveItems \in SUBSET Products
  BY DEF LiveItems
<1>3. QED
  BY <1>1, <1>2 DEF Founds

LEMMA NoneFound == <<>> \in Founds
<1>1. <<>> \in [{} -> Nat]
  OBVIOUS
<1>2. QED
  BY <1>1 DEF Founds

LEMMA WishIdleFits == WishIdle \in WishStates /\ WishesFit(WishIdle)
BY NoneFound DEF WishIdle, WishAt, WishStates, WishesFit

LEMMA WishInvStart == WishInit => WishInv
BY WishIdleFits, WishlistBounds DEF WishInit, WishInv, ItemRow, Singles

(* The only ways a row of an item changes: a new one where there is none,  *)
(* and the rows of a request that found them, all together.                *)
ItemStep ==
  \/ UNCHANGED item
  \/ \E p \in Products :
       /\ ~item[p].live /\ item[p].gen < MaxGen
       /\ item' = [item EXCEPT ![p] = [live |-> TRUE, gen |-> item[p].gen + 1]]
  \/ \E w \in Workers :
       /\ wreq[w].kind \in {"remove", "clear"} /\ wreq'[w] = WishIdle
       /\ \A p \in Doomed(wreq[w]) : p \in DOMAIN wreq[w].found /\ SameRow(wreq[w], p)
       /\ item' = [p \in Products |-> IF p \in Doomed(wreq[w])
                     THEN [item[p] EXCEPT !.live = FALSE] ELSE item[p]]

LEMMA WishMoves ==
  ASSUME WishInv, WishNext
  PROVE  ItemStep /\ wreq' \in [Workers -> WishStates] /\ single' \subseteq Singles
           /\ \A w \in Workers : WishesFit(wreq'[w])
<1> DEFINE Goal == ItemStep /\ wreq' \in [Workers -> WishStates] /\ single' \subseteq Singles
                     /\ \A w \in Workers : WishesFit(wreq'[w])
<1>1. /\ wreq \in [Workers -> WishStates] /\ \A w \in Workers : WishesFit(wreq[w])
      /\ item \in [Products -> ItemRow] /\ single \subseteq Singles
  BY DEF WishInv
<1>2. ASSUME NEW w \in Workers, NEW r \in WishStates, WishesFit(r), WishGoto(w, r), ItemStep,
             single' \subseteq Singles
      PROVE  Goal
  BY <1>1, <1>2 DEF WishGoto
<1>3. ASSUME NEW w \in Workers, WishGoto(w, WishIdle), ItemStep, single' \subseteq Singles
      PROVE  Goal
  BY <1>2, <1>3, WishIdleFits
<1>4. ASSUME NEW w \in Workers, NEW kind \in {"show", "clear", "prefer", "add", "remove"},
             NEW p \in Products \cup {None}, AskFor(w, kind, p)
      PROVE  Goal
  <2>1. kind \in {"add", "remove"} => p \in Products
    BY <1>4 DEF AskFor
  <2>2. \A pc \in {"act", "make"} : \A f \in Founds :
          WishAt(pc, kind, p, f) \in WishStates /\ WishesFit(WishAt(pc, kind, p, f))
    BY <2>1 DEF WishAt, WishStates, WishesFit
  <2>3. <<>> \in Founds /\ Loaded \in Founds
    BY <1>1, LoadedIsFound, NoneFound
  <2>4. QED
    BY <1>1, <1>2, <1>4, <2>2, <2>3 DEF AskFor, ItemStep
<1>5. ASSUME NEW w \in Workers, Make(w)
      PROVE  Goal
  <2>6. PICK f \in Founds : f = Loaded
    BY <1>1, LoadedIsFound
  <2> DEFINE r == [wreq[w] EXCEPT !.pc = "act", !.found = f]
  <2>1. /\ r \in WishStates /\ r.pc = "act" /\ r.kind = wreq[w].kind /\ r.product = wreq[w].product
    BY <1>1, <2>6 DEF WishStates
  <2>2. WishesFit(r)
    BY <1>1, <1>5, <2>1 DEF Make, WishesFit
  <2>3. single' \subseteq Singles /\ ItemStep
    BY <1>1, <1>5 DEF Make, Which, Singles, ItemStep
  <2>4. WishGoto(w, WishIdle) \/ WishGoto(w, r)
    BY <1>5, <2>6 DEF Make
  <2> HIDE DEF r
  <2>5. QED
    BY <1>2, <1>3, <2>1, <2>2, <2>3, <2>4
<1>6. ASSUME NEW w \in Workers, GetItem(w)
      PROVE  Goal
  <2> DEFINE f == With(wreq[w].found, wreq[w].product, item[wreq[w].product].gen)
             r == [wreq[w] EXCEPT !.pc = "save", !.found = f]
  <2>1. wreq[w].product \in Products /\ wreq[w].found \in Founds /\ item[wreq[w].product].gen \in Nat
    BY <1>1, <1>6 DEF GetItem, WishesFit, WishStates, ItemRow
  <2>2. f \in Founds /\ wreq[w].product \in DOMAIN f
    BY <2>1, FoundsHave
  <2>3. /\ r \in WishStates /\ r.found = f
        /\ r.kind = wreq[w].kind /\ r.product = wreq[w].product
    BY <1>1, <2>2 DEF WishStates
  <2>4. WishGoto(w, WishIdle) \/ WishGoto(w, r)
    BY <1>6 DEF GetItem
  <2>5. ItemStep /\ single' \subseteq Singles
    BY <1>1, <1>6 DEF GetItem, ItemStep
  <2> HIDE DEF r, f
  <2>6. WishesFit(r)
    BY <2>1, <2>2, <2>3 DEF WishesFit
  <2>7. QED
    BY <1>2, <1>3, <2>3, <2>4, <2>5, <2>6
<1>7. ASSUME NEW w \in Workers, AddItem(w)
      PROVE  Goal
  <2>1. wreq[w].product \in Products
    BY <1>1, <1>7 DEF AddItem, WishesFit
  <2>2. ItemStep
    BY <1>7, <2>1 DEF AddItem, ItemStep
  <2>3. QED
    BY <1>1, <1>3, <1>7, <2>2 DEF AddItem
<1>8. ASSUME NEW w \in Workers, DeleteItems(w)
      PROVE  Goal
  <2>1. \A p \in Doomed(wreq[w]) : p \in DOMAIN wreq[w].found
    BY <1>1, <1>8 DEF DeleteItems, Doomed, WishesFit
  <2>2. wreq[w].kind \in {"remove", "clear"} /\ wreq'[w] = WishIdle
    BY <1>1, <1>8 DEF DeleteItems, WishGoto
  <2>3. ItemStep
    BY <1>8, <2>1, <2>2 DEF DeleteItems, ItemStep
  <2>4. QED
    BY <1>1, <1>3, <1>8, <2>3 DEF DeleteItems
<1>9. ASSUME NEW w \in Workers, EndWish(w)
      PROVE  Goal
  BY <1>1, <1>3, <1>9 DEF EndWish, ItemStep
<1>10. QED
  BY <1>4, <1>5, <1>6, <1>7, <1>8, <1>9 DEF WishNext

LEMMA WishInvKept == WishInv /\ [WishNext]_wishVars => WishInv'
<1>1. ASSUME WishInv, ItemStep
      PROVE  item' \in [Products -> ItemRow]
  <2>1. \A p \in Products : item[p] \in ItemRow /\ [item[p] EXCEPT !.live = FALSE] \in ItemRow
    BY <1>1 DEF WishInv, ItemRow
  <2>2. CASE \E p \in Products :
               /\ ~item[p].live /\ item[p].gen < MaxGen
               /\ item' = [item EXCEPT ![p] = [live |-> TRUE, gen |-> item[p].gen + 1]]
    BY <1>1, <2>2, WishlistBounds DEF WishInv, ItemRow
  <2>3. QED
    BY <1>1, <2>1, <2>2 DEF ItemStep, WishInv
<1>2. CASE UNCHANGED wishVars
  BY <1>2 DEF wishVars, WishInv
<1>3. QED
  BY <1>1, <1>2, WishMoves DEF WishInv

LEMMA ItemsSeen ==
  ASSUME WishInv, WishNext, NEW p \in Products, item[p].live, item'[p] # item[p]
  PROVE  \E w \in Workers :
           /\ wreq[w].kind \in {"remove", "clear"} /\ wreq'[w] = WishIdle
           /\ p \in DOMAIN wreq[w].found /\ SameRow(wreq[w], p)
<1>1. item \in [Products -> ItemRow]
  BY DEF WishInv
<1>2. QED
  BY <1>1, WishMoves DEF ItemStep

(* Wishlists keep all that is promised of them, for any number of products *)
(* and of rows of each.                                                    *)
THEOREM WishlistsHold == WishSpec => WishlistsCorrect
<1>1. WishInv => WishTypeOK
  <2> SUFFICES ASSUME WishInv PROVE WishTypeOK
    OBVIOUS
  <2>1. \A w \in Workers : wreq[w].found \in Founds
    BY DEF WishInv, WishStates
  <2>2. QED
    BY <2>1, FoundsHave DEF WishInv, WishTypeOK, ItemRow
<1>2. WishInv /\ [WishNext]_wishVars =>
        [\A p \in Products :
           item[p].live /\ item'[p] # item[p] =>
             \E w \in Workers :
               /\ wreq[w].kind \in {"remove", "clear"} /\ wreq'[w] = WishIdle
               /\ p \in DOMAIN wreq[w].found /\ SameRow(wreq[w], p)]_wishVars
  BY ItemsSeen
<1>3. QED
  BY <1>1, <1>2, WishInvStart, WishInvKept, PTL
     DEF WishSpec, WishlistsCorrect, ItemsGoOnlyWhenSeen

-----------------------------------------------------------------------------
(* Inbox *)

NoteRow == [state : {"none", "live", "deleted"}, isRead : BOOLEAN, version : Nat]

NoNote == Note("none", FALSE, 0)
NewNote == Note("live", FALSE, 1)

NoteStates ==
  [pc : {"idle", "send", "audit", "read", "delete"}, sending : Sendings \cup {None},
   to : SUBSET Readers, version : Nat]

Notes == [Sendings -> [Readers -> NoteRow]]

InboxTyped ==
  /\ active \subseteq Readers /\ audited \cup sent \subseteq Sendings
  /\ since \in [Sendings -> SUBSET Readers]
  /\ note \in Notes
  /\ nreq \in [Workers -> NoteStates]
  /\ \A w \in Workers : nreq[w].pc # "idle" => nreq[w].sending \in Sendings

(* A sending has rows once it is committed, and then it has them for those *)
(* its handler is sending it to, among them all who were active throughout.*)
Sends ==
  /\ \A s \in Sendings \ sent, u \in Readers : note[s][u] = NoNote
  /\ \A w \in Workers : nreq[w].pc = "send" =>
       /\ nreq[w].sending \notin sent
       /\ since[nreq[w].sending] \subseteq nreq[w].to
       /\ \A v \in Workers : nreq[v].pc # "idle" /\ nreq[v].sending = nreq[w].sending => v = w
  /\ \A w \in Workers : nreq[w].pc \in {"audit", "read", "delete"} => nreq[w].sending \in sent

(* A handler that loaded a row for an update at the version it still has   *)
(* found it live.                                                          *)
NotesTell ==
  \A w \in Workers : nreq[w].pc \in {"read", "delete"} =>
    \A u \in nreq[w].to :
      LET n == note[nreq[w].sending][u] IN
      /\ nreq[w].version <= n.version
      /\ n.version = nreq[w].version => n.state = "live"

InboxInv == InboxTyped /\ Sends /\ NotesTell /\ BroadcastReaches /\ AuditedIsSent

LEMMA NewNotes ==
  /\ NoNote \in NoteRow /\ NoNote.state = "none" /\ NoNote.isRead = FALSE
  /\ NewNote \in NoteRow /\ NewNote.state = "live" /\ NewNote.isRead = FALSE
BY DEF NoNote, NewNote, Note, NoteRow

LEMMA NoteWritten ==
  ASSUME NEW n \in NoteRow
  PROVE  LET r == Note("live", TRUE, n.version + 1)
             d == Note("deleted", n.isRead, n.version + 1)
         IN /\ {r, d} \subseteq NoteRow /\ r.version = n.version + 1 /\ d.version = n.version + 1
            /\ r.state = "live" /\ r.isRead
            /\ d.state = "deleted" /\ d.isRead = n.isRead
BY DEF Note, NoteRow

LEMMA NoteAtFields ==
  ASSUME NEW pc, NEW s, NEW to, NEW v
  PROVE  LET r == NoteAt(pc, s, to, v) IN
         /\ r.pc = pc /\ r.sending = s /\ r.to = to /\ r.version = v
         /\ pc \in {"idle", "send", "audit", "read", "delete"} /\ s \in Sendings \cup {None}
              /\ to \in SUBSET Readers /\ v \in Nat => r \in NoteStates
BY DEF NoteAt, NoteStates

LEMMA NoteIdleFits == NoteIdle \in NoteStates /\ NoteIdle.pc = "idle"
BY NoteAtFields DEF NoteIdle

LEMMA InboxStart == InboxInit => InboxInv
<1> SUFFICES ASSUME InboxInit PROVE InboxInv
  OBVIOUS
<1>1. InboxTyped
  BY NewNotes, NoteIdleFits DEF InboxInit, InboxTyped, Notes, NoNote
<1>2. Sends /\ NotesTell /\ BroadcastReaches /\ AuditedIsSent
  BY NoteIdleFits DEF InboxInit, Sends, NoNote, NotesTell, BroadcastReaches, AuditedIsSent
<1>3. QED
  BY <1>1, <1>2 DEF InboxInv

(* What may become of a row: it is sent, marked with all others, or        *)
(* written by a handler that loaded it at the version it has.              *)
NoteStep(s, u) ==
  LET n == note[s][u]  m == note'[s][u] IN
  \/ m = n
  \/ \E w \in Workers :
       /\ nreq[w].pc = "send" /\ nreq[w].sending = s /\ s \in sent'
       /\ m = NewNote
  \/ n.state = "live" /\ m.state = "live" /\ m.isRead /\ m.version = n.version
  \/ \E w \in Workers :
       /\ nreq[w].pc \in {"read", "delete"} /\ nreq[w].sending = s /\ u \in nreq[w].to
       /\ nreq[w].version = n.version /\ m.version = n.version + 1
       /\ \/ m.state = "live" /\ m.isRead
          \/ m.state = "deleted" /\ m.isRead = n.isRead

LEMMA NotesMove ==
  ASSUME InboxTyped, InboxNext
  PROVE  note' \in Notes /\ \A s \in Sendings, u \in Readers : NoteStep(s, u)
<1>1. /\ note \in Notes /\ nreq \in [Workers -> NoteStates]
      /\ \A w \in Workers : nreq[w].to \subseteq Readers
      /\ \A w \in Workers : nreq[w].pc # "idle" => nreq[w].sending \in Sendings
  BY DEF InboxTyped, NoteStates
<1>2. \A s \in Sendings, u \in Readers : note[s][u] \in NoteRow
  BY <1>1 DEF Notes
<1>3. CASE UNCHANGED note
  BY <1>1, <1>3 DEF NoteStep
<1>4. ASSUME NEW w \in Workers, Send(w)
      PROVE  note' \in Notes /\ \A s \in Sendings, u \in Readers : NoteStep(s, u)
  <2>1. NewNote \in NoteRow
    BY NewNotes
  <2> DEFINE t == nreq[w].sending
             row(u) == IF u \in nreq[w].to THEN NewNote ELSE note[t][u]
  <2>2. /\ note' = [note EXCEPT ![t] = [u \in Readers |-> row(u)]]
        /\ nreq[w].pc = "send" /\ t \in sent'
    BY <1>4 DEF Send, NewNote
  <2>3. t \in Sendings
    BY <1>1, <2>2
  <2>4. \A u \in Readers : row(u) \in NoteRow /\ row(u) \in {note[t][u], NewNote}
    BY <1>2, <2>1, <2>3
  <2> HIDE DEF row
  <2>5. note' \in Notes
    BY <1>1, <2>2, <2>3, <2>4 DEF Notes
  <2>6. ASSUME NEW s \in Sendings, NEW u \in Readers
        PROVE  NoteStep(s, u)
    <3>1. note'[s][u] = note[s][u] \/ (s = t /\ note'[s][u] = NewNote)
      <4>1. s # t => note'[s] = note[s]
        BY <1>1, <2>2 DEF Notes
      <4>2. s = t => note'[s] = [x \in Readers |-> row(x)]
        BY <1>1, <2>2 DEF Notes
      <4>3. s = t => note'[s][u] = row(u)
        BY <4>2
      <4>4. CASE s = t
        BY <2>4, <4>3, <4>4
      <4>5. CASE s # t
        BY <4>1, <4>5
      <4>6. QED
        BY <4>4, <4>5
    <3>2. QED
      BY <2>2, <3>1 DEF NoteStep
  <2>7. QED
    BY <2>5, <2>6
<1>5. ASSUME NEW w \in Workers, WriteNote(w), note' # note
      PROVE  note' \in Notes /\ \A s \in Sendings, u \in Readers : NoteStep(s, u)
  <2> DEFINE t == nreq[w].sending
             new(n) == IF nreq[w].pc = "read" THEN Note("live", TRUE, n.version + 1)
                                              ELSE Note("deleted", n.isRead, n.version + 1)
  <2>1. PICK x \in nreq[w].to :
          /\ note[t][x].version = nreq[w].version
          /\ note' = [note EXCEPT ![t][x] = new(note[t][x])]
    BY <1>5 DEF WriteNote
  <2>2. nreq[w].pc \in {"read", "delete"} /\ t \in Sendings /\ x \in Readers
    BY <1>1, <1>5 DEF WriteNote
  <2> DEFINE m == new(note[t][x])
  <2>3. /\ m \in NoteRow /\ m.version = note[t][x].version + 1
        /\ \/ m.state = "live" /\ m.isRead
           \/ m.state = "deleted" /\ m.isRead = note[t][x].isRead
    BY <1>2, <2>2, NoteWritten
  <2>4. note' = [note EXCEPT ![t][x] = m]
    BY <2>1
  <2> HIDE DEF m
  <2>5. note' \in Notes
    BY <1>1, <2>2, <2>3, <2>4 DEF Notes
  <2>6. ASSUME NEW s \in Sendings, NEW u \in Readers
        PROVE  NoteStep(s, u)
    <3>1. note'[s][u] = note[s][u] \/ (s = t /\ u = x /\ note'[s][u] = m)
      <4>1. note[s] \in [Readers -> NoteRow]
        BY <1>1 DEF Notes
      <4>2. CASE s = t
        <5>1. note'[s] = [note[s] EXCEPT ![x] = m]
          BY <1>1, <2>2, <2>4, <4>2 DEF Notes
        <5>2. note'[s][u] = IF u = x THEN m ELSE note[s][u]
          BY <4>1, <5>1
        <5>3. QED
          BY <4>2, <5>2
      <4>3. CASE s # t
        BY <1>1, <2>2, <2>4, <4>3 DEF Notes
      <4>4. QED
        BY <4>2, <4>3
    <3>2. QED
      BY <2>1, <2>2, <2>3, <3>1 DEF NoteStep
  <2>7. QED
    BY <2>5, <2>6
<1>6. ASSUME NEW x \in Readers, MarkAllRead(x)
      PROVE  note' \in Notes /\ \A s \in Sendings, u \in Readers : NoteStep(s, u)
  <2> DEFINE read(n) == IF n.state = "live" THEN [n EXCEPT !.isRead = TRUE] ELSE n
  <2>1. note' = [s \in Sendings |-> [note[s] EXCEPT ![x] = read(@)]]
    BY <1>6 DEF MarkAllRead
  <2>2. ASSUME NEW n \in NoteRow
        PROVE  /\ read(n) \in NoteRow
               /\ \/ read(n) = n
                  \/ /\ n.state = "live" /\ read(n).state = "live" /\ read(n).isRead
                     /\ read(n).version = n.version
    BY DEF NoteRow
  <2> HIDE DEF read
  <2>3. \A s \in Sendings : note[s] \in [Readers -> NoteRow]
    BY <1>1 DEF Notes
  <2>4. note' \in Notes
    BY <1>2, <2>1, <2>2, <2>3 DEF Notes
  <2>5. ASSUME NEW s \in Sendings, NEW u \in Readers
        PROVE  NoteStep(s, u)
    <3>1. note'[s][u] = note[s][u] \/ note'[s][u] = read(note[s][u])
      BY <2>1, <2>3
    <3>2. QED
      BY <1>2, <2>2, <3>1 DEF NoteStep
  <2>6. QED
    BY <2>4, <2>5
<1>7. QED
  BY <1>3, <1>4, <1>5, <1>6
     DEF InboxNext, Address, Audit, OpenNote, WriteNote, Toggle, AbortNote

LEMMA InboxTypedKept ==
  ASSUME InboxTyped, InboxNext
  PROVE  InboxTyped'
<1> DEFINE Rest == /\ active' \subseteq Readers /\ audited' \cup sent' \subseteq Sendings
                   /\ since' \in [Sendings -> SUBSET Readers]
           Fit(q) == /\ q \in [Workers -> NoteStates]
                     /\ \A w \in Workers : q[w].pc # "idle" => q[w].sending \in Sendings
<1>1. /\ nreq \in [Workers -> NoteStates] /\ active \subseteq Readers
      /\ audited \cup sent \subseteq Sendings /\ since \in [Sendings -> SUBSET Readers]
      /\ \A w \in Workers : nreq[w].pc # "idle" => nreq[w].sending \in Sendings
      /\ \A w \in Workers : nreq[w].to \subseteq Readers
      /\ \A s \in Sendings, u \in Readers : note[s][u].version \in Nat
  BY DEF InboxTyped, NoteStates, Notes, NoteRow
<1>2. ASSUME NEW w \in Workers, NEW r \in NoteStates, NoteGoto(w, r),
             r.pc # "idle" => r.sending \in Sendings
      PROVE  Fit(nreq')
  BY <1>1, <1>2 DEF NoteGoto
<1>3. ASSUME NEW w \in Workers, NoteGoto(w, NoteIdle)
      PROVE  Fit(nreq')
  BY <1>2, <1>3, NoteIdleFits
<1>4. ASSUME NEW w \in Workers, NEW s \in Sendings, NEW to \in SUBSET Readers, Address(w, s, to)
      PROVE  Rest /\ Fit(nreq')
  <2>1. Fit(nreq')
    BY <1>2, <1>4, NoteAtFields DEF Address
  <2>2. Rest
    BY <1>1, <1>4 DEF Address
  <2>3. QED
    BY <2>1, <2>2
<1>5. ASSUME NEW w \in Workers, NEW s \in Sendings, NEW u \in Readers,
             NEW pc \in {"read", "delete"}, OpenNote(w, s, u, pc)
      PROVE  Rest /\ Fit(nreq')
  <2>1. Fit(nreq')
    BY <1>1, <1>2, <1>5, NoteAtFields DEF OpenNote
  <2>2. QED
    BY <1>1, <1>5, <2>1 DEF OpenNote
<1>6. ASSUME NEW w \in Workers, Send(w)
      PROVE  Rest /\ Fit(nreq')
  <2> DEFINE r == [nreq[w] EXCEPT !.pc = "audit"]
  <2>1. r \in NoteStates /\ r.sending = nreq[w].sending
    BY <1>1 DEF NoteStates
  <2>2. NoteGoto(w, r) /\ nreq[w].pc = "send"
    BY <1>6 DEF Send
  <2> HIDE DEF r
  <2>3. Fit(nreq')
    BY <1>1, <1>2, <2>1, <2>2
  <2>4. QED
    BY <1>1, <1>6, <2>2, <2>3 DEF Send
<1>7. ASSUME NEW w \in Workers, Audit(w) \/ WriteNote(w) \/ AbortNote(w)
      PROVE  Rest /\ Fit(nreq')
  <2>1. Fit(nreq')
    BY <1>3, <1>7 DEF Audit, WriteNote, AbortNote
  <2>2. QED
    BY <1>1, <1>7, <2>1 DEF Audit, WriteNote, AbortNote
<1>8. ASSUME NEW u \in Readers, MarkAllRead(u) \/ Toggle(u)
      PROVE  Rest /\ Fit(nreq')
  BY <1>1, <1>8 DEF MarkAllRead, Toggle
<1>9. Rest /\ Fit(nreq')
  BY <1>4, <1>5, <1>6, <1>7, <1>8 DEF InboxNext
<1>10. QED
  BY <1>9, NotesMove DEF InboxTyped

(* What a step does to the handlers and to what they send.                 *)
SendingStep ==
  \/ \E w \in Workers, s \in Sendings, to \in SUBSET Readers : Address(w, s, to)
  \/ \E w \in Workers, s \in Sendings, u \in Readers, pc \in {"read", "delete"} :
       OpenNote(w, s, u, pc)
  \/ \E w \in Workers : Send(w)
  \/ /\ sent' = sent
     /\ \A s \in Sendings : since'[s] \subseteq since[s] /\ (s \in sent => since'[s] = since[s])
     /\ \A w \in Workers : nreq'[w] = nreq[w] \/ nreq'[w].pc = "idle"

LEMMA SendingsMove ==
  ASSUME InboxTyped, InboxNext
  PROVE  SendingStep
<1>1. nreq \in [Workers -> NoteStates] /\ since \in [Sendings -> SUBSET Readers]
  BY DEF InboxTyped
<1>2. ASSUME NEW w \in Workers, NoteGoto(w, NoteIdle)
      PROVE  \A v \in Workers : nreq'[v] = nreq[v] \/ nreq'[v].pc = "idle"
  BY <1>1, <1>2, NoteIdleFits DEF NoteGoto
<1>3. ASSUME NEW w \in Workers, Audit(w) \/ WriteNote(w) \/ AbortNote(w)
      PROVE  SendingStep
  BY <1>1, <1>2, <1>3 DEF Audit, WriteNote, AbortNote, SendingStep
<1>4. ASSUME NEW u \in Readers, MarkAllRead(u) \/ Toggle(u)
      PROVE  SendingStep
  BY <1>1, <1>4 DEF MarkAllRead, Toggle, SendingStep
<1>5. QED
  BY <1>3, <1>4 DEF InboxNext, SendingStep

LEMMA SendsKept ==
  ASSUME InboxInv, InboxNext
  PROVE  Sends' /\ BroadcastReaches'
<1>1. /\ InboxTyped /\ Sends /\ BroadcastReaches /\ nreq \in [Workers -> NoteStates]
      /\ since \in [Sendings -> SUBSET Readers] /\ InboxTyped'
      /\ sent \subseteq Sendings
      /\ \A w \in Workers : nreq[w].pc # "idle" => nreq[w].sending \in Sendings
  BY InboxTypedKept DEF InboxInv, InboxTyped
<1>2. \A s \in Sendings, u \in Readers : NoteStep(s, u)
  BY <1>1, NotesMove
<1>3. /\ NoNote.state = "none" /\ NewNote.state = "live"
  BY NewNotes
<1>4. ASSUME NEW s \in Sendings, NEW u \in Readers
      PROVE  note[s][u].state # "none" => note'[s][u].state # "none"
  BY <1>2, <1>3, <1>4 DEF NoteStep
<1>5. ASSUME NEW s \in Sendings \ sent, NEW u \in Readers,
             s \notin sent'
      PROVE  note'[s][u] = NoNote
  <2>1. note[s][u] = NoNote
    BY <1>1, <1>5 DEF Sends
  <2>2. \A w \in Workers : nreq[w].pc \in {"read", "delete"} => nreq[w].sending # s
    BY <1>1, <1>5 DEF Sends
  <2>3. QED
    BY <1>2, <1>3, <1>5, <2>1, <2>2 DEF NoteStep
<1>6. ASSUME NEW w \in Workers, NEW s \in Sendings, NEW to \in SUBSET Readers, Address(w, s, to)
      PROVE  Sends' /\ BroadcastReaches'
  <2> DEFINE r == NoteAt("send", s, to, 0)
  <2>1. r.pc = "send" /\ r.sending = s /\ r.to = to
    BY NoteAtFields
  <2>2. /\ nreq' = [nreq EXCEPT ![w] = r] /\ sent' = sent /\ note' = note
        /\ s \notin sent /\ \A v \in Workers : nreq[v].sending # s
        /\ since'[s] \subseteq to /\ \A t \in Sendings : t # s => since'[t] = since[t]
    BY <1>1, <1>6 DEF Address, NoteGoto, Taken
  <2> HIDE DEF r
  <2>3. Sends'
    BY <1>1, <2>1, <2>2 DEF Sends
  <2>4. BroadcastReaches'
    BY <1>1, <2>2 DEF BroadcastReaches
  <2>5. QED
    BY <2>3, <2>4
<1>7. ASSUME NEW w \in Workers, NEW s \in Sendings, NEW x \in Readers,
             NEW pc \in {"read", "delete"}, OpenNote(w, s, x, pc)
      PROVE  Sends' /\ BroadcastReaches'
  <2> DEFINE r == NoteAt(pc, s, {x}, note[s][x].version)
  <2>1. r.pc = pc /\ r.sending = s
    BY NoteAtFields
  <2>2. /\ nreq' = [nreq EXCEPT ![w] = r] /\ sent' = sent /\ note' = note /\ since' = since
        /\ note[s][x].state = "live"
    BY <1>7 DEF OpenNote, NoteGoto
  <2> HIDE DEF r
  <2>3. s \in sent
    BY <1>1, <1>3, <2>2 DEF Sends
  <2>4. Sends'
    BY <1>1, <2>1, <2>2, <2>3 DEF Sends
  <2>5. BroadcastReaches'
    BY <1>1, <2>2 DEF BroadcastReaches
  <2>6. QED
    BY <2>4, <2>5
<1>8. ASSUME NEW w \in Workers, Send(w)
      PROVE  Sends' /\ BroadcastReaches'
  <2> DEFINE s == nreq[w].sending
             r == [nreq[w] EXCEPT !.pc = "audit"]
  <2>1. r.pc = "audit" /\ r.sending = s /\ nreq[w] \in NoteStates
    BY <1>1 DEF NoteStates
  <2>2. /\ nreq' = [nreq EXCEPT ![w] = r] /\ sent' = sent \cup {s} /\ since' = since
        /\ nreq[w].pc = "send"
    BY <1>8 DEF Send, NoteGoto
  <2>3. s \in Sendings /\ s \notin sent /\ since[s] \subseteq nreq[w].to /\ nreq[w].to \subseteq Readers
    BY <1>1, <2>1, <2>2 DEF Sends, NoteStates
  <2>4. \A v \in Workers : nreq[v].pc # "idle" /\ nreq[v].sending = s => v = w
    BY <1>1, <2>2 DEF Sends
  <2> HIDE DEF r
  <2>5. \A u \in since[s] : note'[s][u].state # "none"
    <3>1. note \in Notes
      BY <1>1 DEF InboxTyped
    <3>2. note'[s] = [u \in Readers |-> IF u \in nreq[w].to THEN NewNote ELSE note[s][u]]
      BY <1>8, <2>3, <3>1 DEF Send, Notes, NewNote
    <3>3. QED
      BY <1>3, <2>3, <3>2
  <2>6. Sends'
    <3>1. \A t \in Sendings \ sent', u \in Readers : note'[t][u] = NoNote
      <4> SUFFICES ASSUME NEW t \in Sendings \ sent', NEW u \in Readers
                   PROVE  note'[t][u] = NoNote
        OBVIOUS
      <4>1. t # s /\ t \notin sent
        BY <2>2
      <4>2. note'[t] = note[t]
        BY <1>1, <1>8, <4>1 DEF Send, InboxTyped, Notes
      <4>3. QED
        BY <1>1, <4>1, <4>2 DEF Sends
    <3>2. QED
      BY <1>1, <2>1, <2>2, <2>3, <2>4, <3>1 DEF Sends
  <2>7. BroadcastReaches'
    BY <1>1, <1>4, <2>2, <2>3, <2>5 DEF BroadcastReaches
  <2>8. QED
    BY <2>6, <2>7
<1>9. ASSUME sent' = sent,
             \A s \in Sendings : since'[s] \subseteq since[s] /\ (s \in sent => since'[s] = since[s]),
             \A w \in Workers : nreq'[w] = nreq[w] \/ nreq'[w].pc = "idle"
      PROVE  Sends' /\ BroadcastReaches'
  <2>1. \A s \in Sendings \ sent, u \in Readers : note'[s][u] = NoNote
    <3> SUFFICES ASSUME NEW s \in Sendings \ sent, NEW u \in Readers
                 PROVE  note'[s][u] = NoNote
      OBVIOUS
    <3>1. QED
      BY <1>5, <1>9
  <2>2. Sends'
    BY <1>1, <1>9, <2>1 DEF Sends
  <2>3. BroadcastReaches'
    BY <1>1, <1>4, <1>9 DEF BroadcastReaches
  <2>4. QED
    BY <2>2, <2>3
<1>10. QED
  BY <1>1, <1>6, <1>7, <1>8, <1>9, SendingsMove DEF SendingStep

LEMMA NotesTellKept ==
  ASSUME InboxInv, InboxNext
  PROVE  NotesTell'
<1>1. /\ InboxTyped /\ Sends /\ NotesTell /\ nreq \in [Workers -> NoteStates] /\ note \in Notes
      /\ \A w \in Workers : nreq[w].pc # "idle" => nreq[w].sending \in Sendings
  BY DEF InboxInv, InboxTyped
<1>2. \A s \in Sendings, u \in Readers : NoteStep(s, u) /\ note[s][u].version \in Nat
  BY <1>1, NotesMove DEF Notes, NoteRow
<1>3. ASSUME NEW w \in Workers, nreq[w].pc \in {"read", "delete"}, NEW u \in nreq[w].to
      PROVE  LET s == nreq[w].sending IN
             /\ nreq[w].version <= note'[s][u].version
             /\ note'[s][u].version = nreq[w].version => note'[s][u].state = "live"
  <2> DEFINE s == nreq[w].sending
  <2>1. /\ s \in Sendings /\ s \in sent /\ u \in Readers /\ nreq[w].version \in Nat
    BY <1>1, <1>3 DEF Sends, NoteStates
  <2>2. /\ nreq[w].version <= note[s][u].version
        /\ note[s][u].version = nreq[w].version => note[s][u].state = "live"
    BY <1>1, <1>3 DEF NotesTell
  <2>3. NoteStep(s, u) /\ note[s][u].version \in Nat
    BY <1>2, <2>1
  <2>4. \A v \in Workers : ~(nreq[v].pc = "send" /\ nreq[v].sending = s)
    BY <1>1, <2>1 DEF Sends
  <2> HIDE DEF s
  <2>5. \/ note'[s][u] = note[s][u]
        \/ note'[s][u].state = "live" /\ note'[s][u].version = note[s][u].version
        \/ note'[s][u].version = note[s][u].version + 1
    BY <2>3, <2>4 DEF NoteStep
  <2>6. /\ nreq[w].version <= note'[s][u].version
        /\ note'[s][u].version = nreq[w].version => note'[s][u].state = "live"
    BY <2>1, <2>2, <2>3, <2>5
  <2>7. QED
    BY <2>6 DEF s
<1>4. ASSUME NEW w \in Workers, nreq'[w] = nreq[w] \/ nreq'[w].pc \notin {"read", "delete"}
      PROVE  nreq'[w].pc \in {"read", "delete"} =>
               \A u \in nreq'[w].to :
                 LET n == note'[nreq'[w].sending][u] IN
                 /\ nreq'[w].version <= n.version
                 /\ n.version = nreq'[w].version => n.state = "live"
  BY <1>3, <1>4
<1>5. ASSUME NEW v \in Workers, NEW s \in Sendings, NEW to \in SUBSET Readers, Address(v, s, to)
      PROVE  \A w \in Workers : nreq'[w] = nreq[w] \/ nreq'[w].pc \notin {"read", "delete"}
  BY <1>1, <1>5, NoteAtFields DEF Address, NoteGoto
<1>6. ASSUME NEW v \in Workers, Send(v)
      PROVE  \A w \in Workers : nreq'[w] = nreq[w] \/ nreq'[w].pc \notin {"read", "delete"}
  <2> DEFINE r == [nreq[v] EXCEPT !.pc = "audit"]
  <2>1. r.pc = "audit"
    BY <1>1 DEF NoteStates
  <2>2. nreq' = [nreq EXCEPT ![v] = r]
    BY <1>6 DEF Send, NoteGoto
  <2> HIDE DEF r
  <2>3. QED
    BY <1>1, <2>1, <2>2
<1>7. ASSUME NEW v \in Workers, NEW s \in Sendings, NEW x \in Readers,
             NEW pc \in {"read", "delete"}, OpenNote(v, s, x, pc)
      PROVE  NotesTell'
  <2> DEFINE r == NoteAt(pc, s, {x}, note[s][x].version)
  <2>1. r.pc = pc /\ r.sending = s /\ r.to = {x} /\ r.version = note[s][x].version
    BY NoteAtFields
  <2>2. nreq' = [nreq EXCEPT ![v] = r] /\ note' = note /\ note[s][x].state = "live"
    BY <1>7 DEF OpenNote, NoteGoto
  <2>3. note[s][x].version \in Nat
    BY <1>2
  <2> HIDE DEF r
  <2>4. \A w \in Workers : w # v => nreq'[w] = nreq[w]
    BY <1>1, <2>2
  <2>5. nreq'[v] = r
    BY <1>1, <2>2
  <2>6. QED
    BY <1>1, <2>1, <2>2, <2>3, <2>4, <2>5 DEF NotesTell
<1>8. QED
  BY <1>1, <1>4, <1>5, <1>6, <1>7, SendingsMove DEF SendingStep, NotesTell

LEMMA AuditsKept ==
  ASSUME InboxInv, InboxNext
  PROVE  AuditedIsSent'
<1>1. Sends /\ AuditedIsSent /\ InboxTyped
  BY DEF InboxInv
<1>2. sent \subseteq sent'
  BY DEF InboxNext, Address, Send, Audit, OpenNote, WriteNote, MarkAllRead, Toggle, AbortNote
<1>3. ASSUME NEW w \in Workers, Audit(w)
      PROVE  AuditedIsSent'
  BY <1>1, <1>3 DEF Audit, Sends, AuditedIsSent
<1>4. QED
  BY <1>1, <1>2, <1>3
     DEF InboxNext, Address, Send, OpenNote, WriteNote, MarkAllRead, Toggle, AbortNote, AuditedIsSent

LEMMA InboxInvKept == InboxInv /\ [InboxNext]_inboxVars => InboxInv'
<1>1. ASSUME InboxInv, InboxNext
      PROVE  InboxInv'
  BY <1>1, InboxTypedKept, SendsKept, NotesTellKept, AuditsKept DEF InboxInv
<1>2. ASSUME InboxInv, UNCHANGED inboxVars
      PROVE  InboxInv'
  BY <1>2 DEF inboxVars, InboxInv, InboxTyped, Notes, Sends, NotesTell, BroadcastReaches, AuditedIsSent
<1>3. QED
  BY <1>1, <1>2

LEMMA ReadStays ==
  ASSUME InboxInv, InboxNext, NEW s \in Sendings, NEW u \in Readers
  PROVE  /\ note[s][u].isRead => note'[s][u].isRead
         /\ note[s][u].state = "deleted" => note'[s][u].state = "deleted"
<1>1. InboxTyped /\ Sends /\ NotesTell /\ NoteStep(s, u)
  BY NotesMove DEF InboxInv
<1>2. ASSUME NEW w \in Workers, nreq[w].pc = "send", nreq[w].sending = s
      PROVE  note[s][u].isRead = FALSE /\ note[s][u].state = "none"
  BY <1>1, <1>2, NewNotes DEF Sends
<1>3. ASSUME NEW w \in Workers, nreq[w].pc \in {"read", "delete"}, nreq[w].sending = s,
             u \in nreq[w].to, nreq[w].version = note[s][u].version
      PROVE  note[s][u].state = "live"
  BY <1>1, <1>3 DEF NotesTell
<1>4. QED
  BY <1>1, <1>2, <1>3 DEF NoteStep

(* Inboxes keep all that is promised of them, for any number of users and  *)
(* of broadcasts at once.                                                  *)
THEOREM InboxHolds == InboxSpec => InboxCorrect
<1>1. InboxInv => InboxTypeOK /\ BroadcastReaches /\ AuditedIsSent
  BY DEF InboxInv, InboxTyped, InboxTypeOK, Notes, NoteRow, NoteStates
<1>2. InboxInv /\ [InboxNext]_inboxVars =>
        [\A s \in Sendings, u \in Readers :
           /\ note[s][u].isRead => note'[s][u].isRead
           /\ note[s][u].state = "deleted" => note'[s][u].state = "deleted"]_inboxVars
  BY ReadStays
<1>3. QED
  BY <1>1, <1>2, InboxStart, InboxInvKept, PTL DEF InboxSpec, InboxCorrect, ReadStaysRead

-----------------------------------------------------------------------------
(* Avatars *)

Pictures == [shown : BOOLEAN, version : Nat]

AvatarStates == [pc : {"idle", "upload", "destroy", "show", "clear"}, row : Pictures]

Excused == hosted \/ stripped \/ \E w \in Workers : Destroyed(w)

(* Whoever is to show the file it stored finds it there, or the row moved  *)
(* on since, or a deletion is about to say why not.                        *)
ShowsHosted == \A w \in Workers : avreq[w].pc = "show" /\ Current(w) => Excused

AvatarInv ==
  /\ avatar \in Pictures /\ avatar.version \in 1 .. MaxSaves
  /\ hosted \in BOOLEAN /\ stripped \in BOOLEAN
  /\ avreq \in [Workers -> AvatarStates]
  /\ \A w \in Workers : avreq[w].row.version <= avatar.version
  /\ ShownIsHosted /\ ShowsHosted

LEMMA AvatarIdleFits ==
  AvatarIdle \in AvatarStates /\ AvatarIdle.pc = "idle" /\ AvatarIdle.row.version = 0
BY DEF AvatarIdle, AvatarAt, AvatarStates, Picture, Pictures

LEMMA PictureHas ==
  ASSUME NEW shown \in BOOLEAN, NEW v \in Nat
  PROVE  LET p == Picture(shown, v) IN
         p \in Pictures /\ p.version = v /\ p.shown = shown
BY DEF Picture, Pictures

LEMMA AvatarStart == AvatarInit => AvatarInv
<1> SUFFICES ASSUME AvatarInit PROVE AvatarInv
  OBVIOUS
<1>1. avatar \in Pictures /\ avatar.version = 1 /\ ~avatar.shown
  BY PictureHas DEF AvatarInit
<1>2. avatar.version \in 1 .. MaxSaves
  BY <1>1, AvatarBounds
<1>3. /\ hosted \in BOOLEAN /\ stripped \in BOOLEAN
      /\ avreq \in [Workers -> AvatarStates]
      /\ \A w \in Workers : avreq[w].pc = "idle" /\ avreq[w].row.version = 0
  BY AvatarIdleFits DEF AvatarInit
<1>4. QED
  BY <1>1, <1>2, <1>3 DEF AvatarInv, ShownIsHosted, ShowsHosted

LEMMA AvatarFields ==
  ASSUME NEW r \in AvatarStates, NEW pc \in {"idle", "upload", "destroy", "show", "clear"}
  PROVE  LET s == [r EXCEPT !.pc = pc] IN
         s \in AvatarStates /\ s.pc = pc /\ s.row = r.row
BY DEF AvatarStates

(* Handlers load the row as it is, and keep it while they go on. *)
LEMMA AvatarsMove ==
  ASSUME AvatarInv, NEW w \in Workers, NEW r \in AvatarStates, AvatarGoto(w, r),
         r.row.version <= avatar.version
  PROVE  /\ avreq' \in [Workers -> AvatarStates]
         /\ avreq'[w] = r /\ \A v \in Workers : v # w => avreq'[v] = avreq[v]
         /\ \A v \in Workers : avreq'[v].row.version <= avatar.version
BY DEF AvatarInv, AvatarGoto

LEMMA AvatarStep ==
  ASSUME AvatarInv, AvatarNext
  PROVE  AvatarInv'
<1>1. /\ avatar \in Pictures /\ avatar.version \in 1 .. MaxSaves /\ avatar.version \in Nat
      /\ hosted \in BOOLEAN /\ stripped \in BOOLEAN
      /\ avreq \in [Workers -> AvatarStates]
      /\ \A w \in Workers : avreq[w].row.version <= avatar.version /\ avreq[w].row.version \in Nat
      /\ ShownIsHosted /\ ShowsHosted
  BY DEF AvatarInv, AvatarStates, Pictures
<1>2. ASSUME NEW w \in Workers, NEW pc \in {"upload", "destroy"}, LoadUser(w, pc)
      PROVE  AvatarInv'
  <2> DEFINE r == AvatarAt(pc, avatar)
  <2>1. r \in AvatarStates /\ r.pc = pc /\ r.row = avatar
    BY <1>1 DEF AvatarAt, AvatarStates
  <2>2. AvatarGoto(w, r) /\ UNCHANGED <<avatar, hosted, stripped>> /\ avreq[w].pc = "idle"
    BY <1>2, AvatarIdleFits DEF LoadUser
  <2> HIDE DEF r
  <2>3. /\ avreq' \in [Workers -> AvatarStates]
        /\ avreq'[w] = r /\ \A v \in Workers : v # w => avreq'[v] = avreq[v]
        /\ \A v \in Workers : avreq'[v].row.version <= avatar.version
    BY <1>1, <2>1, <2>2, AvatarsMove
  <2>4. Excused => Excused'
    BY <2>2, <2>3 DEF Excused, Destroyed
  <2>5. QED
    BY <1>1, <2>1, <2>2, <2>3, <2>4 DEF AvatarInv, ShownIsHosted, ShowsHosted, Excused, Current
<1>3. ASSUME NEW w \in Workers, StoreFile(w)
      PROVE  AvatarInv'
  <2> DEFINE r == [avreq[w] EXCEPT !.pc = "show"]
  <2>1. r \in AvatarStates /\ r.pc = "show" /\ r.row = avreq[w].row
    BY <1>1, AvatarFields
  <2>2. /\ UNCHANGED <<avatar, stripped>> /\ avreq[w].pc = "upload"
        /\ \/ hosted' = TRUE /\ AvatarGoto(w, r)
           \/ hosted' = hosted /\ AvatarGoto(w, AvatarIdle)
    BY <1>3 DEF StoreFile
  <2> HIDE DEF r
  <2>3. \E s \in {r, AvatarIdle} :
        /\ avreq' \in [Workers -> AvatarStates]
        /\ avreq'[w] = s /\ (\A v \in Workers : v # w => avreq'[v] = avreq[v])
        /\ \A v \in Workers : avreq'[v].row.version <= avatar.version
        /\ s = r => hosted'
        /\ s # r => hosted' = hosted
    BY <1>1, <2>1, <2>2, AvatarsMove, AvatarIdleFits
  <2>4. Excused => Excused'
    BY <2>2, <2>3 DEF Excused, Destroyed
  <2>5. QED
    BY <1>1, <2>1, <2>2, <2>3, <2>4, AvatarIdleFits
       DEF AvatarInv, ShownIsHosted, ShowsHosted, Excused, Current
<1>4. ASSUME NEW w \in Workers, DestroyFile(w)
      PROVE  AvatarInv'
  <2> DEFINE r == [avreq[w] EXCEPT !.pc = "clear"]
  <2>1. r \in AvatarStates /\ r.pc = "clear" /\ r.row = avreq[w].row
    BY <1>1, AvatarFields
  <2>2. /\ UNCHANGED <<avatar, stripped>> /\ avreq[w].pc = "destroy" /\ hosted' \in BOOLEAN
        /\ \/ hosted' = hosted /\ AvatarGoto(w, r)
           \/ avreq[w].row.shown /\ AvatarGoto(w, r)
           \/ hosted' = hosted /\ AvatarGoto(w, AvatarIdle)
    BY <1>1, <1>4 DEF DestroyFile
  <2> HIDE DEF r
  <2>3. \E s \in {r, AvatarIdle} :
        /\ avreq' \in [Workers -> AvatarStates]
        /\ avreq'[w] = s /\ (\A v \in Workers : v # w => avreq'[v] = avreq[v])
        /\ \A v \in Workers : avreq'[v].row.version <= avatar.version
        /\ hosted' = hosted \/ (s = r /\ avreq[w].row.shown)
    BY <1>1, <2>1, <2>2, AvatarsMove, AvatarIdleFits
  <2>4. Excused => Excused'
    BY <2>1, <2>2, <2>3 DEF Excused, Destroyed
  <2>5. QED
    BY <1>1, <2>1, <2>2, <2>3, <2>4, AvatarIdleFits
       DEF AvatarInv, ShownIsHosted, ShowsHosted, Excused, Current
<1>5. ASSUME NEW w \in Workers, CommitAvatar(w)
      PROVE  AvatarInv'
  <2>1. /\ avreq' \in [Workers -> AvatarStates]
        /\ avreq'[w] = AvatarIdle /\ (\A v \in Workers : v # w => avreq'[v] = avreq[v])
        /\ \A v \in Workers : avreq'[v].row.version <= avatar.version
    BY <1>1, <1>5, AvatarsMove, AvatarIdleFits DEF CommitAvatar
  <2>2. hosted' = hosted /\ avreq[w].pc \in {"show", "clear"} /\ avatar.version < MaxSaves
    BY <1>5 DEF CommitAvatar
  <2>3. CASE /\ avreq[w].pc = "clear" /\ ~avreq[w].row.shown
             /\ UNCHANGED <<avatar, stripped>>
    <3>1. Excused => Excused'
      BY <2>1, <2>2, <2>3 DEF Excused, Destroyed
    <3>2. QED
      BY <1>1, <2>1, <2>2, <2>3, <3>1, AvatarIdleFits
         DEF AvatarInv, ShownIsHosted, ShowsHosted, Excused, Current
  <2>4. CASE ~Current(w) /\ UNCHANGED avatar /\ stripped' = (stripped \/ Destroyed(w))
    <3>1. Excused => Excused'
      BY <1>1, <2>1, <2>2, <2>4 DEF Excused, Destroyed
    <3>2. stripped' \in BOOLEAN
      BY <1>1, <2>4 DEF Destroyed
    <3>3. QED
      BY <1>1, <2>1, <2>2, <2>4, <3>1, <3>2, AvatarIdleFits
         DEF AvatarInv, ShownIsHosted, ShowsHosted, Excused, Current
  <2>5. CASE /\ Current(w) /\ UNCHANGED stripped
             /\ avatar' = Picture(avreq[w].pc = "show", avatar.version + 1)
    <3>1. /\ avatar' \in Pictures /\ avatar'.version = avatar.version + 1
          /\ avatar'.version \in 1 .. MaxSaves
          /\ avatar'.shown => avreq[w].pc = "show"
      <4> DEFINE shows == avreq[w].pc = "show"
      <4>1. shows \in BOOLEAN /\ avatar.version + 1 \in Nat /\ avatar' = Picture(shows, avatar.version + 1)
        BY <1>1, <2>5
      <4> HIDE DEF shows
      <4>2. avatar' \in Pictures /\ avatar'.version = avatar.version + 1 /\ avatar'.shown = shows
        BY <4>1, PictureHas
      <4>3. avatar'.version \in 1 .. MaxSaves
        BY <1>1, <2>2, <4>2, AvatarBounds
      <4>4. avatar'.shown => shows
        BY <4>2
      <4>5. QED
        BY <4>2, <4>3, <4>4 DEF shows
    <3>2. avreq[w].pc = "show" => Excused /\ Excused'
      BY <1>1, <2>1, <2>2, <2>5 DEF ShowsHosted, Excused, Destroyed
    <3>3. \A v \in Workers : ~Current(v)'
      BY <1>1, <2>1, <3>1 DEF Current
    <3>4. \A v \in Workers : avreq'[v].row.version <= avatar'.version
      BY <1>1, <2>1, <3>1, AvatarIdleFits
    <3>5. QED
      BY <1>1, <2>1, <2>2, <2>5, <3>1, <3>2, <3>3, <3>4
         DEF AvatarInv, ShownIsHosted, ShowsHosted, Excused
  <2>6. QED
    BY <1>5, <2>3, <2>4, <2>5 DEF CommitAvatar
<1>6. ASSUME OtherSave
      PROVE  AvatarInv'
  <2>1. /\ avatar' \in Pictures /\ avatar'.version = avatar.version + 1
        /\ avatar'.version \in 1 .. MaxSaves /\ avatar'.shown = avatar.shown
    BY <1>1, <1>6, AvatarBounds DEF OtherSave, Pictures
  <2>2. UNCHANGED <<hosted, avreq, stripped>>
    BY <1>6 DEF OtherSave
  <2>3. Excused' = Excused /\ \A v \in Workers : ~Current(v)'
    BY <1>1, <2>1, <2>2 DEF Excused, Destroyed, Current
  <2>4. QED
    BY <1>1, <2>1, <2>2, <2>3 DEF AvatarInv, ShownIsHosted, ShowsHosted, Excused
<1>7. ASSUME NEW w \in Workers, AbortAvatar(w)
      PROVE  AvatarInv'
  <2>1. /\ avreq' \in [Workers -> AvatarStates]
        /\ avreq'[w] = AvatarIdle /\ (\A v \in Workers : v # w => avreq'[v] = avreq[v])
        /\ \A v \in Workers : avreq'[v].row.version <= avatar.version
    BY <1>1, <1>7, AvatarsMove, AvatarIdleFits DEF AbortAvatar
  <2>2. /\ UNCHANGED <<avatar, hosted>> /\ stripped' = (stripped \/ Destroyed(w))
        /\ stripped' \in BOOLEAN
    BY <1>1, <1>7 DEF AbortAvatar, Destroyed
  <2>3. Excused => Excused'
    BY <1>1, <2>1, <2>2 DEF Excused, Destroyed
  <2>4. QED
    BY <1>1, <2>1, <2>2, <2>3, AvatarIdleFits
       DEF AvatarInv, ShownIsHosted, ShowsHosted, Excused, Current
<1>8. QED
  BY <1>2, <1>3, <1>4, <1>5, <1>6, <1>7 DEF AvatarNext

LEMMA AvatarInvKept == AvatarInv /\ [AvatarNext]_avatarVars => AvatarInv'
<1>1. CASE UNCHANGED avatarVars
  BY <1>1 DEF avatarVars, AvatarInv, ShownIsHosted, ShowsHosted, Excused, Destroyed, Current
<1>2. QED
  BY <1>1, AvatarStep

LEMMA OnlyDeletions ==
  ASSUME AvatarNext, hosted, ~hosted'
  PROVE  \E w \in Workers : avreq[w].pc = "destroy"
BY DEF AvatarNext, LoadUser, StoreFile, DestroyFile, CommitAvatar, AbortAvatar, OtherSave

(* Avatars keep all that is promised of them, for any number of handlers   *)
(* and of changes of the row.                                              *)
THEOREM AvatarsHold == AvatarSpec => AvatarsCorrect
<1>1. AvatarInv => AvatarTypeOK /\ ShownIsHosted
  BY DEF AvatarInv, AvatarTypeOK, Pictures
<1>2. AvatarInv /\ [AvatarNext]_avatarVars =>
        [hosted /\ ~hosted' => \E w \in Workers : avreq[w].pc = "destroy"]_avatarVars
  BY OnlyDeletions
<1>3. QED
  BY <1>1, <1>2, AvatarStart, AvatarInvKept, PTL
     DEF AvatarSpec, AvatarsCorrect, OnlyDeletionsDestroy

-----------------------------------------------------------------------------
(* Addresses *)

AddressRows == [state : {"none", "live", "deleted"}, isDefault : BOOLEAN, version : Nat]

Drafts == UNION {[S -> AddressRows] : S \in SUBSET Rows}

AddressKinds == {"create", "choose", "unset", "edit", "delete", "promote", "last"}

AddressRequest ==
  [pc : {"idle", "clear", "clearing", "write", "list", "commit"},
   kind : AddressKinds \cup {None}, row : Rows \cup {None}, version : Nat,
   was : BOOLEAN, old : Rows \cup {None}]

IsDefault(x) == x.state = "live" /\ x.isDefault

(* A default that clear_defaults has cleared.                              *)
Cleared(d, table, a) ==
  IsDefault(table[a]) /\ d[a] = [table[a] EXCEPT !.isDefault = FALSE]

(* What a handler loaded: the row has this version still or a later one,   *)
(* and if it has it still it is live, and the default only if it was.      *)
LoadedFits(r, table) ==
  /\ r.row \in Rows
  /\ table[r.row].state # "none"
  /\ r.version <= table[r.row].version
  /\ r.version = table[r.row].version =>
       table[r.row].state = "live" /\ (table[r.row].isDefault => r.was)

(* What a handler wrote: only clear_defaults writes and moves no version.  *)
WrittenFits(d, table) ==
  \A a \in DOMAIN d :
    /\ d[a].state # "none"
    /\ table[a].version <= d[a].version
    /\ d[a].version = table[a].version =>
         d[a].state = table[a].state /\ (d[a].isDefault => table[a].isDefault)

(* What a handler has written by the time it is where it is.               *)
CreateFits(r, d, table) ==
  /\ r.pc \in {"clear", "clearing", "write", "commit"}
  /\ r.version < MaxAddresses
  /\ r.pc \in {"clear", "clearing"} => r.was
  /\ r.pc = "write" => (\A a \in DOMAIN d : Cleared(d, table, a)) /\ (r.was \/ DOMAIN d = {})
  /\ r.pc = "commit" =>
       /\ r.row \in DOMAIN d /\ d[r.row].state = "live" /\ d[r.row].isDefault = r.was
       /\ \A a \in DOMAIN d \ {r.row} : Cleared(d, table, a)
       /\ r.was \/ (DOMAIN d = {r.row} /\ table[r.row].state = "none")

ChooseFits(r, d, table) ==
  /\ r.pc \in {"clear", "clearing", "write", "commit"}
  /\ r.row \in Rows
  /\ r.pc = "write" => \A a \in DOMAIN d : Cleared(d, table, a)
  /\ r.pc = "commit" => r.row \in DOMAIN d /\ IsDefault(d[r.row])

EditFits(r, d, table) ==
  /\ r.pc \in {"write", "commit"}
  /\ r.row \in Rows
  /\ r.pc = "write" => DOMAIN d = {}
  /\ r.pc = "commit" =>
       /\ DOMAIN d = {r.row} /\ d[r.row].state = table[r.row].state
       /\ d[r.row].isDefault = table[r.row].isDefault

UnsetFits(r, d, table) ==
  /\ r.pc \in {"write", "commit"}
  /\ r.row \in Rows
  /\ r.pc = "write" => DOMAIN d = {}

DeleteFits(r, d, table) ==
  /\ r.pc \in {"write", "list", "commit"}
  /\ r.row \in Rows
  /\ r.pc = "write" => DOMAIN d = {}
  /\ r.pc \in {"list", "commit"} =>
       /\ DOMAIN d = {r.row} /\ d[r.row].state = "deleted"
       /\ d[r.row].isDefault = table[r.row].isDefault
       /\ table[r.row].state = "live"
  /\ r.pc = "commit" => ~ IsDefault(table[r.row])

PromoteFits(r, d, table) ==
  /\ r.pc \in {"write", "commit"}
  /\ r.row \in Rows
  /\ r.pc = "write" => /\ r.row \notin DOMAIN d
                       /\ \A a \in DOMAIN d : /\ d[a].state = "deleted"
                                              /\ d[a].isDefault => IsDefault(table[a])
  /\ r.was => \A a \in DOMAIN d : ~ IsDefault(table[a])
  /\ r.pc = "commit" /\ ~ r.was => r.row \in DOMAIN d /\ IsDefault(d[r.row])

KindFits(r, d, table) ==
  /\ r.pc \in {"idle", "clear", "clearing"} => DOMAIN d = {}
  /\ r.pc # "idle" => r.kind \in AddressKinds
  /\ r.pc \in {"clear", "clearing", "write"} /\ r.kind # "create" => LoadedFits(r, table)
  /\ r.pc # "idle" =>
       /\ r.kind = "create" => CreateFits(r, d, table)
       /\ r.kind = "choose" => ChooseFits(r, d, table)
       /\ r.kind = "edit" => EditFits(r, d, table)
       /\ r.kind = "unset" => UnsetFits(r, d, table)
       /\ r.kind = "delete" => DeleteFits(r, d, table)
       /\ r.kind = "promote" => PromoteFits(r, d, table)
       /\ r.kind = "last" => r.pc = "commit"

RequestFits(r, d, table) ==
  /\ r \in AddressRequest
  /\ d \in Drafts
  /\ r.pc = "idle" => r = AddressIdle
  /\ r.pc = "clearing" => r.old \in Rows
  /\ WrittenFits(d, table)
  /\ KindFits(r, d, table)

(* A transaction holds an entry of the index over default addresses.       *)
WroteDefault(d) == \E a \in DOMAIN d : IsDefault(d[a])

Holds(d, table) == \E a \in DOMAIN d : IsDefault(table[a]) \/ IsDefault(d[a])

(* The only default that a transaction sees is one it wrote.               *)
Sole(d, table) ==
  \E a \in DOMAIN d :
    /\ IsDefault(d[a])
    /\ \A b \in DOMAIN d : IsDefault(d[b]) => b = a
    /\ \A b \in Rows \ DOMAIN d : ~ IsDefault(table[b])

RowsApart == \A v, w \in Workers : v # w => DOMAIN draft[v] \cap DOMAIN draft[w] = {}

SingleDefault(table) == \A a, b \in Rows : IsDefault(table[a]) /\ IsDefault(table[b]) => a = b

Unborn(table) == \A a \in Rows : table[a].state = "none" => table[a].version = 0

WriterHolds(w) ==
  WroteDefault(draft[w]) =>
    /\ areq[w].pc = "commit"
    /\ Sole(draft[w], address)
    /\ \A v \in Workers \ {w} : ~ Holds(draft[v], address)

AddressInv ==
  /\ address \in [Rows -> AddressRows]
  /\ draft \in [Workers -> Drafts]
  /\ areq \in [Workers -> AddressRequest]
  /\ \A w \in Workers : RequestFits(areq[w], draft[w], address)
  /\ RowsApart
  /\ SingleDefault(address)
  /\ Unborn(address)
  /\ \A w \in Workers : WriterHolds(w)

-----------------------------------------------------------------------------
LEMMA Drafted ==
  ASSUME NEW d \in Drafts
  PROVE  /\ DOMAIN d \subseteq Rows
         /\ \A a \in DOMAIN d : d[a] \in AddressRows
BY DEF Drafts

LEMMA NothingDrafted ==
  /\ <<>> \in Drafts
  /\ DOMAIN <<>> = {}
<1>1. <<>> = [a \in {} |-> 0]
  OBVIOUS
<1>2. <<>> \in [{} -> AddressRows]
  BY <1>1
<1>3. QED
  BY <1>2 DEF Drafts

LEMMA DraftedToo ==
  ASSUME NEW d \in Drafts, NEW a \in Rows, NEW x \in AddressRows
  PROVE  /\ With(d, a, x) \in Drafts
         /\ DOMAIN With(d, a, x) = DOMAIN d \cup {a}
         /\ With(d, a, x)[a] = x
         /\ \A b \in DOMAIN d \ {a} : With(d, a, x)[b] = d[b]
<1> DEFINE e == With(d, a, x)
<1>1. /\ e = [b \in DOMAIN d \cup {a} |-> IF b = a THEN x ELSE d[b]]
      /\ DOMAIN d \cup {a} \in SUBSET Rows
      /\ \A b \in DOMAIN d : d[b] \in AddressRows
  BY Drafted DEF With
<1> HIDE DEF e
<1>2. e \in [DOMAIN d \cup {a} -> AddressRows]
  BY <1>1
<1>3. QED
  BY <1>1, <1>2 DEF Drafts, e

LEMMA IdleAddress ==
  ASSUME NEW table
  PROVE  /\ AddressIdle \in AddressRequest /\ AddressIdle.pc = "idle"
         /\ RequestFits(AddressIdle, <<>>, table)
         /\ ~ WroteDefault(<<>>) /\ ~ Holds(<<>>, table)
<1>1. AddressIdle \in AddressRequest /\ AddressIdle.pc = "idle"
  BY DEF AddressIdle, AddressAt, AddressRequest
<1>2. RequestFits(AddressIdle, <<>>, table)
  BY <1>1, NothingDrafted DEF RequestFits, WrittenFits, KindFits
<1>3. QED
  BY <1>1, <1>2, NothingDrafted DEF WroteDefault, Holds

LEMMA AddressStart ==
  ASSUME AddressInit
  PROVE  AddressInv
<1>1. address \in [Rows -> AddressRows] /\ \A a \in Rows : address[a].state = "none" /\ address[a].version = 0
  BY DEF AddressInit, AddressRow, AddressRows
<1>2. draft \in [Workers -> Drafts] /\ \A w \in Workers : draft[w] = <<>>
  BY NothingDrafted DEF AddressInit
<1>3. areq \in [Workers -> AddressRequest] /\ \A w \in Workers : areq[w] = AddressIdle
  BY IdleAddress DEF AddressInit
<1>4. \A w \in Workers : RequestFits(areq[w], draft[w], address) /\ WriterHolds(w)
  BY <1>2, <1>3, IdleAddress DEF WriterHolds
<1>5. RowsApart
  BY <1>2, NothingDrafted DEF RowsApart
<1>6. SingleDefault(address) /\ Unborn(address)
  BY <1>1 DEF SingleDefault, Unborn, IsDefault
<1>7. QED
  BY <1>1, <1>2, <1>3, <1>4, <1>5, <1>6 DEF AddressInv

(* A handler that only moves.                                              *)
LEMMA MoveKeeps ==
  ASSUME AddressInv, NEW w \in Workers, NEW r,
         AddressGoto(w, r), UNCHANGED <<address, draft>>,
         RequestFits(r, draft[w], address),
         areq[w].pc # "commit"
  PROVE  AddressInv'
<1>1. areq' = [areq EXCEPT ![w] = r] /\ r \in AddressRequest
  BY DEF AddressGoto, RequestFits
<1>2. areq' \in [Workers -> AddressRequest] /\ areq'[w] = r
      /\ \A v \in Workers \ {w} : areq'[v] = areq[v]
  BY <1>1 DEF AddressInv
<1>3. \A v \in Workers : RequestFits(areq[v], draft[v], address)' 
  <2>1. ASSUME NEW v \in Workers PROVE RequestFits(areq'[v], draft'[v], address')
    <3>1. address' = address /\ draft' = draft
      OBVIOUS
    <3>2. CASE v = w
      BY <1>2, <3>1, <3>2
    <3>3. CASE v # w
      BY <1>2, <3>1, <3>3 DEF AddressInv
    <3>4. QED
      BY <3>2, <3>3
  <2>2. QED
    BY <2>1
<1>4. \A v \in Workers : WriterHolds(v)'
  <2>1. ~ WroteDefault(draft[w])
    BY DEF AddressInv, WriterHolds
  <2>2. QED
    BY <1>2, <2>1 DEF AddressInv, WriterHolds
<1>5. RowsApart'
  BY DEF AddressInv, RowsApart
<1>6. QED
  BY <1>2, <1>3, <1>4, <1>5 DEF AddressInv

(* A transaction that is rolled back.                                      *)
LEMMA RollBackKeeps ==
  ASSUME AddressInv, NEW w \in Workers, RollBack(w), UNCHANGED address
  PROVE  AddressInv'
<1>1. /\ areq' = [areq EXCEPT ![w] = AddressIdle]
      /\ draft' = [draft EXCEPT ![w] = <<>>]
  BY DEF RollBack, AddressGoto
<1>2. /\ areq' \in [Workers -> AddressRequest] /\ areq'[w] = AddressIdle
      /\ \A v \in Workers \ {w} : areq'[v] = areq[v]
  BY <1>1, IdleAddress DEF AddressInv
<1>3. /\ draft' \in [Workers -> Drafts] /\ draft'[w] = <<>>
      /\ \A v \in Workers \ {w} : draft'[v] = draft[v]
  BY <1>1, NothingDrafted DEF AddressInv
<1>4. ASSUME NEW v \in Workers
      PROVE  RequestFits(areq'[v], draft'[v], address') /\ WriterHolds(v)'
  <2>1. CASE v = w
    BY <1>2, <1>3, <2>1, IdleAddress DEF WriterHolds
  <2>2. CASE v # w
    <3>1. RequestFits(areq'[v], draft'[v], address')
      BY <1>2, <1>3, <2>2 DEF AddressInv
    <3>2. WriterHolds(v)'
      BY <1>2, <1>3, <2>2, IdleAddress DEF AddressInv, WriterHolds
    <3>3. QED
      BY <3>1, <3>2
  <2>3. QED
    BY <2>1, <2>2
<1>5. RowsApart'
  BY <1>3, NothingDrafted DEF AddressInv, RowsApart
<1>6. QED
  BY <1>2, <1>3, <1>4, <1>5 DEF AddressInv

(* The holders of the index, by the rows they wrote.                       *)
LEMMA HoldersHold ==
  ASSUME AddressInv, NEW v \in Workers
  PROVE  v \in IndexHolders <=> Holds(draft[v], address)
<1>1. DOMAIN draft[v] \subseteq Rows
  BY Drafted DEF AddressInv
<1>2. \A a \in DOMAIN draft[v] : (a \in Defaults(address) <=> IsDefault(address[a]))
  BY <1>1 DEF Defaults, LiveRows, IsDefault
<1>3. \A a \in DOMAIN draft[v] : (a \in Defaults(View(v)) <=> IsDefault(draft[v][a]))
  BY <1>1 DEF Defaults, LiveRows, IsDefault, View
<1>4. QED
  BY <1>2, <1>3 DEF IndexHolders, Holds

(* A handler that writes a row nobody else has written.                    *)
LEMMA PutKeeps ==
  ASSUME AddressInv, NEW w \in Workers, NEW r, NEW a \in Rows, NEW x \in AddressRows,
         AddressGoto(w, r), Put(w, a, x), UNCHANGED address,
         RequestFits(r, With(draft[w], a, x), address),
         areq[w].pc # "commit", LockedBy(a) \subseteq {w},
         IsDefault(x) => /\ r.pc = "commit" /\ IndexHolders \subseteq {w}
                         /\ MayWrite(w, a, x)
  PROVE  AddressInv'
<1> DEFINE e == With(draft[w], a, x)
<1>1. areq' = [areq EXCEPT ![w] = r] /\ r \in AddressRequest
  BY DEF AddressGoto, RequestFits
<1>2. areq' \in [Workers -> AddressRequest] /\ areq'[w] = r
      /\ \A v \in Workers \ {w} : areq'[v] = areq[v]
  BY <1>1 DEF AddressInv
<1>3. draft[w] \in Drafts /\ DOMAIN draft[w] \subseteq Rows
  BY Drafted DEF AddressInv
<1>4. /\ e \in Drafts /\ DOMAIN e = DOMAIN draft[w] \cup {a} /\ e[a] = x
      /\ \A b \in DOMAIN draft[w] \ {a} : e[b] = draft[w][b]
  <2>1. e \in Drafts
    BY <1>3, DraftedToo
  <2>2. DOMAIN e = DOMAIN draft[w] \cup {a}
    BY <1>3, DraftedToo
  <2>3. e[a] = x
    BY <1>3, DraftedToo
  <2>4. \A b \in DOMAIN draft[w] \ {a} : e[b] = draft[w][b]
    BY <1>3, DraftedToo
  <2>5. QED
    BY <2>1, <2>2, <2>3, <2>4
<1>5. draft' = [draft EXCEPT ![w] = e]
  BY DEF Put
<1>6. RequestFits(r, e, address)
  OBVIOUS
<1> HIDE DEF e
<1>7. draft' \in [Workers -> Drafts] /\ draft'[w] = e
      /\ \A v \in Workers \ {w} : draft'[v] = draft[v]
  BY <1>4, <1>5 DEF AddressInv
<1>8. \A v \in Workers \ {w} : a \notin DOMAIN draft[v]
  BY DEF LockedBy
<1>9. RowsApart'
  BY <1>4, <1>7, <1>8 DEF AddressInv, RowsApart
<1>10. \A v \in Workers : RequestFits(areq[v], draft[v], address)'
  <2>1. ASSUME NEW v \in Workers PROVE RequestFits(areq'[v], draft'[v], address')
    <3>1. CASE v = w
      BY <1>2, <1>6, <1>7, <3>1
    <3>2. CASE v # w
      BY <1>2, <1>7, <3>2 DEF AddressInv
    <3>3. QED
      BY <3>1, <3>2
  <2>2. QED
    BY <2>1
<1>11. ~ WroteDefault(draft[w])
  BY DEF AddressInv, WriterHolds
<1>12. ASSUME NEW v \in Workers \ {w}, WroteDefault(draft[v])
       PROVE  ~ Holds(e, address)
  <2>1. Sole(draft[v], address) /\ ~ Holds(draft[w], address)
    BY <1>12 DEF AddressInv, WriterHolds
  <2>2. v \in IndexHolders
    BY <1>12, HoldersHold DEF WroteDefault, Holds
  <2>3. ~ IsDefault(x)
    BY <2>2
  <2>4. ~ IsDefault(address[a])
    BY <1>8, <2>1 DEF Sole
  <2>5. QED
    BY <1>4, <2>1, <2>3, <2>4 DEF Holds
<1>13. ASSUME IsDefault(x)
       PROVE  Sole(e, address) /\ \A v \in Workers \ {w} : ~ Holds(draft[v], address)
  <2>1. \A v \in Workers \ {w} : ~ Holds(draft[v], address)
    BY <1>13, HoldersHold
  <2>2. \A b \in DOMAIN e : IsDefault(e[b]) => b = a
    BY <1>4, <1>11 DEF WroteDefault
  <2>3. ASSUME NEW b \in Rows \ DOMAIN e PROVE ~ IsDefault(address[b])
    <3>1. b # a /\ b \notin DOMAIN draft[w]
      BY <1>4
    <3>2. CASE a \in Defaults(address)
      BY <3>1, <3>2 DEF Defaults, LiveRows, AddressInv, SingleDefault, IsDefault
    <3>3. CASE a \notin Defaults(address)
      <4>1. Defaults(View(w)) \ {a} = {}
        BY <1>13, <3>3 DEF MayWrite, IsDefault
      <4>2. View(w)[b] = address[b]
        BY <3>1 DEF View
      <4>3. QED
        BY <3>1, <4>1, <4>2 DEF Defaults, LiveRows, IsDefault
    <3>4. QED
      BY <3>2, <3>3
  <2>4. QED
    BY <1>4, <1>13, <2>1, <2>2, <2>3 DEF Sole
<1>14. ASSUME NEW v \in Workers PROVE WriterHolds(v)'
  <2>1. CASE v = w
    <3>1. SUFFICES ASSUME WroteDefault(e)
                   PROVE  /\ r.pc = "commit" /\ Sole(e, address)
                          /\ \A u \in Workers \ {w} : ~ Holds(draft[u], address)
      BY <1>2, <1>7, <2>1 DEF WriterHolds
    <3>2. IsDefault(x)
      BY <1>4, <1>11, <3>1 DEF WroteDefault
    <3>3. QED
      BY <1>13, <3>2
  <2>2. CASE v # w
    <3>1. SUFFICES ASSUME WroteDefault(draft[v])
                   PROVE  /\ areq[v].pc = "commit" /\ Sole(draft[v], address)
                          /\ \A u \in Workers \ {v} : ~ Holds(draft'[u], address)
      BY <1>2, <1>7, <2>2 DEF WriterHolds
    <3>2. /\ areq[v].pc = "commit" /\ Sole(draft[v], address)
          /\ \A u \in Workers \ {v} : ~ Holds(draft[u], address)
      BY <3>1 DEF AddressInv, WriterHolds
    <3>3. ASSUME NEW u \in Workers \ {v} PROVE ~ Holds(draft'[u], address)
      BY <1>7, <1>12, <2>2, <3>1, <3>2
    <3>4. QED
      BY <3>2, <3>3
  <2>3. QED
    BY <2>1, <2>2
<1>15. QED
  BY <1>2, <1>7, <1>9, <1>10, <1>14 DEF AddressInv

(* What others commit changes nothing of what a handler goes by.           *)
LEMMA OthersCommit ==
  ASSUME NEW table \in [Rows -> AddressRows], NEW after \in [Rows -> AddressRows],
         NEW r, NEW d, RequestFits(r, d, table),
         \A a \in DOMAIN d : after[a] = table[a],
         \A a \in Rows :
           after[a] # table[a] =>
             /\ after[a].state # "none"
             /\ table[a].version <= after[a].version
             /\ after[a].version = table[a].version =>
                  after[a].state = table[a].state /\ (after[a].isDefault => table[a].isDefault)
  PROVE  RequestFits(r, d, after)
<1>1. WrittenFits(d, after)
  BY DEF RequestFits, WrittenFits
<1>2. LoadedFits(r, table) => LoadedFits(r, after)
  <2> SUFFICES ASSUME LoadedFits(r, table) PROVE LoadedFits(r, after)
    OBVIOUS
  <2> DEFINE a == r.row
  <2>1. /\ a \in Rows /\ r.version \in Nat /\ table[a].version \in Nat
        /\ after[a].version \in Nat
    BY DEF LoadedFits, RequestFits, AddressRequest, AddressRows
  <2> HIDE DEF a
  <2>2. CASE after[a] = table[a]
    BY <2>1, <2>2 DEF LoadedFits, a
  <2>3. CASE after[a] # table[a]
    <3>1. r.version <= table[a].version /\ table[a].version <= after[a].version
      BY <2>1, <2>3 DEF LoadedFits, a
    <3>2. r.version <= after[a].version
      BY <2>1, <3>1
    <3>3. ASSUME r.version = after[a].version
          PROVE  after[a].state = "live" /\ (after[a].isDefault => r.was)
      <4>1. r.version = table[a].version /\ after[a].version = table[a].version
        BY <2>1, <3>1, <3>3
      <4>2. QED
        BY <2>1, <2>3, <4>1 DEF LoadedFits, a
    <3>4. QED
      BY <2>1, <2>3, <3>2, <3>3 DEF LoadedFits, a
  <2>4. QED
    BY <2>2, <2>3
<1>3. CreateFits(r, d, table) => CreateFits(r, d, after)
  BY DEF CreateFits, Cleared
<1>4. ChooseFits(r, d, table) => ChooseFits(r, d, after)
  BY DEF ChooseFits, Cleared
<1>5. EditFits(r, d, table) => EditFits(r, d, after)
  BY DEF EditFits
<1>6. UnsetFits(r, d, table) => UnsetFits(r, d, after)
  BY DEF UnsetFits
<1>7. DeleteFits(r, d, table) => DeleteFits(r, d, after)
  BY DEF DeleteFits
<1>8. PromoteFits(r, d, table) => PromoteFits(r, d, after)
  BY DEF PromoteFits
<1>9. KindFits(r, d, after)
  BY <1>2, <1>3, <1>4, <1>5, <1>6, <1>7, <1>8 DEF RequestFits, KindFits
<1>10. QED
  BY <1>1, <1>9 DEF RequestFits

(* The table that a commit leaves.                                         *)
LEMMA ViewOf ==
  ASSUME AddressInv, NEW w \in Workers
  PROVE  /\ View(w) \in [Rows -> AddressRows]
         /\ \A a \in DOMAIN draft[w] : a \in Rows /\ View(w)[a] = draft[w][a]
         /\ \A a \in Rows \ DOMAIN draft[w] : View(w)[a] = address[a]
BY Drafted DEF AddressInv, View

LEMMA CommitKeepsInv ==
  ASSUME AddressInv, NEW w \in Workers, CommitAddresses(w)
  PROVE  AddressInv'
<1>1. /\ address' = View(w)
      /\ areq' = [areq EXCEPT ![w] = AddressIdle]
      /\ draft' = [draft EXCEPT ![w] = <<>>]
  BY DEF CommitAddresses, RollBack, AddressGoto
<1>2. /\ areq' \in [Workers -> AddressRequest] /\ areq'[w] = AddressIdle
      /\ \A v \in Workers \ {w} : areq'[v] = areq[v]
  BY <1>1, IdleAddress DEF AddressInv
<1>3. /\ draft' \in [Workers -> Drafts] /\ draft'[w] = <<>>
      /\ \A v \in Workers \ {w} : draft'[v] = draft[v]
  BY <1>1, NothingDrafted DEF AddressInv
<1>4. /\ address' \in [Rows -> AddressRows]
      /\ \A a \in DOMAIN draft[w] : a \in Rows /\ address'[a] = draft[w][a]
      /\ \A a \in Rows \ DOMAIN draft[w] : address'[a] = address[a]
  BY <1>1, ViewOf
<1>5. WrittenFits(draft[w], address)
  BY DEF AddressInv, RequestFits
<1>6. ASSUME NEW v \in Workers PROVE RequestFits(areq'[v], draft'[v], address')
  <2>1. CASE v = w
    BY <1>2, <1>3, <2>1, IdleAddress
  <2>2. CASE v # w
    <3>1. RequestFits(areq[v], draft[v], address)
      BY DEF AddressInv
    <3>2. \A a \in DOMAIN draft[v] : a \in Rows /\ a \notin DOMAIN draft[w]
      BY <2>2, Drafted DEF AddressInv, RowsApart
    <3>3. \A a \in DOMAIN draft[v] : address'[a] = address[a]
      BY <1>4, <3>2
    <3>4. \A a \in Rows :
            address'[a] # address[a] =>
              /\ address'[a].state # "none"
              /\ address[a].version <= address'[a].version
              /\ address'[a].version = address[a].version =>
                   /\ address'[a].state = address[a].state
                   /\ address'[a].isDefault => address[a].isDefault
      BY <1>4, <1>5 DEF WrittenFits
    <3>5. RequestFits(areq[v], draft[v], address')
      BY <1>4, <3>1, <3>3, <3>4, OthersCommit DEF AddressInv
    <3>6. QED
      BY <1>2, <1>3, <2>2, <3>5
  <2>3. QED
    BY <2>1, <2>2
<1>7. RowsApart'
  BY <1>3, NothingDrafted DEF AddressInv, RowsApart
<1>8. Unborn(address')
  BY <1>4, <1>5 DEF AddressInv, Unborn, WrittenFits
<1>9. CASE WroteDefault(draft[w])
  <2>1. Sole(draft[w], address) /\ \A v \in Workers \ {w} : ~ Holds(draft[v], address)
    BY <1>9 DEF AddressInv, WriterHolds
  <2>2. SingleDefault(address')
    BY <1>4, <2>1 DEF Sole, SingleDefault
  <2>3. \A v \in Workers : ~ WroteDefault(draft'[v])
    BY <1>3, <2>1, IdleAddress DEF Holds, WroteDefault
  <2>4. QED
    BY <1>2, <1>3, <1>4, <1>6, <1>7, <1>8, <2>2, <2>3 DEF AddressInv, WriterHolds
<1>10. CASE ~ WroteDefault(draft[w])
  <2>1. \A a \in Rows : IsDefault(address'[a]) => IsDefault(address[a])
    BY <1>4, <1>10 DEF WroteDefault
  <2>2. SingleDefault(address')
    BY <2>1 DEF AddressInv, SingleDefault
  <2>3. ASSUME NEW v \in Workers, WroteDefault(draft'[v])
        PROVE  /\ areq'[v].pc = "commit"
               /\ Sole(draft'[v], address')
               /\ \A u \in Workers \ {v} : ~ Holds(draft'[u], address')
    <3>1. v # w /\ draft'[v] = draft[v] /\ areq'[v] = areq[v]
      BY <1>2, <1>3, <2>3, IdleAddress
    <3>2. /\ areq[v].pc = "commit" /\ Sole(draft[v], address)
          /\ \A u \in Workers \ {v} : ~ Holds(draft[u], address)
      BY <2>3, <3>1 DEF AddressInv, WriterHolds
    <3>3. Sole(draft[v], address')
      BY <2>1, <3>2 DEF Sole
    <3>4. \A u \in Workers : DOMAIN draft[u] \subseteq Rows
      BY Drafted DEF AddressInv
    <3>5. ASSUME NEW u \in Workers \ {v} PROVE ~ Holds(draft'[u], address')
      <4>1. CASE u = w
        BY <1>3, <4>1, IdleAddress
      <4>2. CASE u # w
        BY <1>3, <2>1, <3>2, <3>4, <4>2 DEF Holds
      <4>3. QED
        BY <4>1, <4>2
    <3>6. QED
      BY <3>1, <3>2, <3>3, <3>5
  <2>4. QED
    BY <1>2, <1>3, <1>4, <1>6, <1>7, <1>8, <2>2, <2>3 DEF AddressInv, WriterHolds
<1>11. QED
  BY <1>9, <1>10

-----------------------------------------------------------------------------
LEMMA FieldsOfRequest ==
  ASSUME AddressInv, NEW w \in Workers
  PROVE  /\ areq[w] \in AddressRequest
         /\ draft[w] \in Drafts /\ DOMAIN draft[w] \subseteq Rows
         /\ RequestFits(areq[w], draft[w], address)
         /\ WrittenFits(draft[w], address)
         /\ KindFits(areq[w], draft[w], address)
         /\ areq[w].pc \in {"idle", "clear", "clearing"} => DOMAIN draft[w] = {}
BY Drafted DEF AddressInv, RequestFits, KindFits

LEMMA LiveRowsCounted ==
  ASSUME NEW table
  PROVE  IsFiniteSet(LiveRows(table)) /\ Cardinality(LiveRows(table)) \in Nat
<1>1. IsFiniteSet(Rows)
  BY AddressBounds, FS_Interval DEF Rows
<1>2. LiveRows(table) \subseteq Rows
  BY DEF LiveRows
<1>3. QED
  BY <1>1, <1>2, FS_Subset, FS_CardinalityType

LEMMA CountKeeps ==
  ASSUME AddressInv, NEW w \in Workers, NEW wanted \in BOOLEAN, CountAddresses(w, wanted)
  PROVE  AddressInv'
<1>1. PICK first \in BOOLEAN : first <=> (wanted \/ Counted = 0)
  BY Zenon
<1> DEFINE r == AddressAt(IF first THEN "clear" ELSE "write", "create", None, Counted, first)
<1>2. /\ areq[w] = AddressIdle /\ Counted < MaxAddresses
      /\ AddressGoto(w, r) /\ UNCHANGED <<address, draft>>
  <2>1. (wanted \/ Counted = 0) = first
    BY <1>1, Zenon
  <2>2. QED
    BY <2>1, Zenon DEF CountAddresses
<1>3. Counted \in Nat
  BY LiveRowsCounted DEF Counted
<1>4. areq[w].pc = "idle"
  BY <1>2, IdleAddress
<1>5. DOMAIN draft[w] = {}
  BY <1>4, FieldsOfRequest
<1>6. /\ r.pc \in {"clear", "write"} /\ (r.pc \in {"clear", "clearing"} => r.was)
      /\ r.kind = "create" /\ r.version = Counted /\ r.was = first
      /\ r \in AddressRequest
  BY <1>3 DEF AddressAt, AddressRequest, AddressKinds
<1> HIDE DEF r
<1>7. KindFits(r, draft[w], address)
  <2>1. r.version < MaxAddresses
    BY <1>2, <1>6
  <2>2. CreateFits(r, draft[w], address)
    <3>1. r.pc \in {"clear", "clearing"} => r.was
      BY <1>6, Zenon
    <3>2. r.pc \in {"clear", "clearing", "write", "commit"} /\ r.pc # "commit"
      BY <1>6
    <3>3. QED
      BY <1>5, <2>1, <3>1, <3>2 DEF CreateFits
  <2>3. QED
    BY <1>5, <1>6, <2>2 DEF KindFits, AddressKinds
<1>8. RequestFits(r, draft[w], address)
  BY <1>6, <1>7, FieldsOfRequest DEF RequestFits
<1>9. QED
  BY <1>2, <1>4, <1>8, MoveKeeps

LEMMA LoadKeeps ==
  ASSUME AddressInv, NEW w \in Workers, NEW a \in Rows,
         NEW kind \in {"choose", "unset", "edit", "delete"}, LoadAddress(w, a, kind)
  PROVE  AddressInv'
<1> DEFINE r == AddressAt(IF kind = "choose" THEN "clear" ELSE "write",
                          kind, a, address[a].version, address[a].isDefault)
<1>1. /\ areq[w] = AddressIdle /\ address[a].state = "live"
      /\ AddressGoto(w, r) /\ UNCHANGED <<address, draft>>
  BY DEF LoadAddress, LiveRows
<1>2. areq[w].pc = "idle"
  BY <1>1, IdleAddress
<1>3. DOMAIN draft[w] = {}
  BY <1>2, FieldsOfRequest
<1>4. address[a].version \in Nat /\ address[a].isDefault \in BOOLEAN
  BY DEF AddressInv, AddressRows
<1>5. /\ r.pc = (IF kind = "choose" THEN "clear" ELSE "write") /\ r.kind = kind /\ r.row = a
      /\ r.version = address[a].version /\ r.was = address[a].isDefault
      /\ r \in AddressRequest
  BY <1>4 DEF AddressAt, AddressRequest, AddressKinds
<1> HIDE DEF r
<1>6. LoadedFits(r, address)
  BY <1>1, <1>4, <1>5 DEF LoadedFits
<1>7. KindFits(r, draft[w], address)
  BY <1>3, <1>5, <1>6
     DEF KindFits, ChooseFits, EditFits, UnsetFits, DeleteFits, AddressKinds
<1>8. RequestFits(r, draft[w], address)
  BY <1>5, <1>7, FieldsOfRequest DEF RequestFits
<1>9. QED
  BY <1>1, <1>2, <1>8, MoveKeeps

(* clear_defaults is for who makes a default.                              *)
LEMMA WhoClears ==
  ASSUME AddressInv, NEW w \in Workers, areq[w].pc \in {"clear", "clearing"}
  PROVE  areq[w].kind \in {"create", "choose"}
BY FieldsOfRequest DEF KindFits, EditFits, UnsetFits, DeleteFits, PromoteFits, AddressKinds

LEMMA FindKeeps ==
  ASSUME AddressInv, NEW w \in Workers, FindDefaults(w)
  PROVE  AddressInv'
<1> DEFINE r == areq[w]
<1>1. r.pc = "clear" /\ UNCHANGED <<address, draft>>
  BY DEF FindDefaults
<1>2. r.kind \in {"create", "choose"} /\ r \in AddressRequest /\ DOMAIN draft[w] = {}
  BY <1>1, WhoClears, FieldsOfRequest
<1>3. CASE AddressGoto(w, [r EXCEPT !.pc = "write"])
  <2> DEFINE n == [r EXCEPT !.pc = "write"]
  <2>1. /\ n \in AddressRequest /\ n.pc = "write" /\ n.kind = r.kind /\ n.row = r.row
        /\ n.version = r.version /\ n.was = r.was
    BY <1>2 DEF AddressRequest
  <2> HIDE DEF n
  <2>2. KindFits(n, draft[w], address)
    BY <1>1, <1>2, <2>1, FieldsOfRequest
       DEF KindFits, CreateFits, ChooseFits, LoadedFits
  <2>3. RequestFits(n, draft[w], address)
    BY <2>1, <2>2, FieldsOfRequest DEF RequestFits
  <2>4. QED
    BY <1>1, <1>3, <2>3, MoveKeeps DEF n
<1>4. ASSUME NEW a \in Rows, AddressGoto(w, [r EXCEPT !.pc = "clearing", !.old = a])
      PROVE  AddressInv'
  <2> DEFINE n == [r EXCEPT !.pc = "clearing", !.old = a]
  <2>1. /\ n \in AddressRequest /\ n.pc = "clearing" /\ n.kind = r.kind /\ n.row = r.row
        /\ n.version = r.version /\ n.was = r.was /\ n.old = a
    BY <1>2 DEF AddressRequest
  <2> HIDE DEF n
  <2>2. KindFits(n, draft[w], address)
    BY <1>1, <1>2, <2>1, FieldsOfRequest
       DEF KindFits, CreateFits, ChooseFits, LoadedFits
  <2>3. RequestFits(n, draft[w], address)
    BY <2>1, <2>2, FieldsOfRequest DEF RequestFits
  <2>4. QED
    BY <1>1, <1>4, <2>3, MoveKeeps DEF n
<1>5. QED
  BY <1>3, <1>4 DEF FindDefaults, Defaults, LiveRows

LEMMA ClearKeeps ==
  ASSUME AddressInv, NEW w \in Workers, ClearDefaults(w)
  PROVE  AddressInv'
<1> DEFINE r == areq[w]
           n == [r EXCEPT !.pc = "write", !.old = None]
<1>0. PICK a \in Rows : a = r.old
  BY FieldsOfRequest DEF ClearDefaults, RequestFits
<1> DEFINE x == [address[a] EXCEPT !.isDefault = FALSE]
<1>1. /\ r.pc = "clearing" /\ LockedBy(a) = {} /\ address' = address /\ AddressGoto(w, n)
      /\ IF a \in Defaults(address) THEN Put(w, a, x) ELSE UNCHANGED draft
  BY <1>0 DEF ClearDefaults
<1>2. /\ r.kind \in {"create", "choose"} /\ r \in AddressRequest /\ DOMAIN draft[w] = {}
      /\ draft[w] \in Drafts /\ a \in Rows /\ r.pc # "commit"
  BY <1>1, WhoClears, FieldsOfRequest DEF RequestFits
<1>3. /\ n \in AddressRequest /\ n.pc = "write" /\ n.kind = r.kind /\ n.row = r.row
      /\ n.version = r.version /\ n.was = r.was
  BY <1>2 DEF AddressRequest
<1> HIDE DEF n
<1>4. CASE a \notin Defaults(address)
  <2>1. KindFits(n, draft[w], address)
    BY <1>1, <1>2, <1>3, FieldsOfRequest
       DEF KindFits, CreateFits, ChooseFits, LoadedFits
  <2>2. RequestFits(n, draft[w], address)
    BY <1>3, <2>1, FieldsOfRequest DEF RequestFits
  <2>3. QED
    BY <1>1, <1>2, <1>4, <2>2, MoveKeeps
<1>5. CASE a \in Defaults(address)
  <2>1. address[a] \in AddressRows /\ address[a].state = "live" /\ address[a].isDefault
    BY <1>2, <1>5 DEF AddressInv, Defaults, LiveRows
  <2>2. PICK y \in AddressRows : y = x
    BY <2>1 DEF AddressRows
  <2>3. y.state = "live" /\ y.version = address[a].version /\ ~ y.isDefault
    BY <2>1, <2>2 DEF AddressRows
  <2> HIDE DEF x
  <2> DEFINE e == With(draft[w], a, y)
  <2>4. e \in Drafts
    BY <1>2, DraftedToo
  <2>5. DOMAIN e = {a}
    <3>1. DOMAIN e = DOMAIN draft[w] \cup {a}
      BY <1>2, DraftedToo
    <3>2. QED
      BY <1>2, <3>1
  <2>6. e[a] = y
    BY <1>2, DraftedToo
  <2> HIDE DEF e
  <2>7. WrittenFits(e, address)
    BY <2>1, <2>3, <2>5, <2>6 DEF WrittenFits, AddressRows
  <2>8. KindFits(n, e, address)
    <3>1. \A b \in DOMAIN e : Cleared(e, address, b)
      BY <2>1, <2>2, <2>5, <2>6 DEF Cleared, IsDefault, x
    <3>2. KindFits(r, draft[w], address)
      BY FieldsOfRequest
    <3>3. r.kind = "create" => n.was
      <4>1. SUFFICES ASSUME r.kind = "create" PROVE r.was
        BY <1>3
      <4>2. QED
        BY <1>1, <3>2, <4>1 DEF KindFits, CreateFits
    <3>4. QED
      BY <1>1, <1>2, <1>3, <3>1, <3>2, <3>3
         DEF KindFits, CreateFits, ChooseFits, LoadedFits
  <2>9. RequestFits(n, e, address)
    BY <1>3, <2>4, <2>7, <2>8 DEF RequestFits
  <2>10. ~ IsDefault(y) /\ Put(w, a, y)
    BY <1>1, <1>5, <2>2, <2>3 DEF IsDefault
  <2>11. QED
    BY <1>1, <1>2, <2>9, <2>10, PutKeeps DEF e
<1>6. QED
  BY <1>4, <1>5

LEMMA InsertKeeps ==
  ASSUME AddressInv, NEW w \in Workers, NEW a \in Rows, InsertAddress(w, a)
  PROVE  AddressInv'
<1> DEFINE r == areq[w]
           n == [r EXCEPT !.pc = "commit", !.row = a]
<1>0. PICK x \in AddressRows : x = AddressRow("live", r.was, 1)
  BY FieldsOfRequest DEF AddressRow, AddressRows, AddressRequest
<1>1. /\ r.pc = "write" /\ r.kind = "create" /\ address[a].state = "none"
      /\ LockedBy(a) = {} /\ address' = address /\ ~ MustWait(w, x)
      /\ IF MayWrite(w, a, x) THEN Put(w, a, x) /\ AddressGoto(w, n) ELSE RollBack(w)
  BY <1>0 DEF InsertAddress
<1>2. /\ r \in AddressRequest /\ draft[w] \in Drafts /\ WrittenFits(draft[w], address)
      /\ KindFits(r, draft[w], address)
  BY FieldsOfRequest
<1>3. /\ n \in AddressRequest /\ n.pc = "commit" /\ n.kind = "create" /\ n.row = a
      /\ n.version = r.version /\ n.was = r.was
  BY <1>1, <1>2 DEF AddressRequest
<1>4. x.state = "live" /\ x.version = 1 /\ x.isDefault = r.was
  BY <1>0 DEF AddressRow
<1> HIDE DEF n
<1>5. CASE MayWrite(w, a, x)
  <2> DEFINE e == With(draft[w], a, x)
  <2>1. /\ r.version < MaxAddresses /\ \A b \in DOMAIN draft[w] : Cleared(draft[w], address, b)
        /\ r.was \/ DOMAIN draft[w] = {}
    BY <1>1, <1>2 DEF KindFits, CreateFits
  <2>2. e \in Drafts
    BY <1>2, DraftedToo
  <2>3. DOMAIN e = DOMAIN draft[w] \cup {a}
    BY <1>2, DraftedToo
  <2>4. e[a] = x
    BY <1>2, DraftedToo
  <2>5. \A b \in DOMAIN draft[w] \ {a} : e[b] = draft[w][b]
    BY <1>2, DraftedToo
  <2> HIDE DEF e
  <2>6. WrittenFits(e, address)
    <3>1. address[a].version = 0
      BY <1>1 DEF AddressInv, Unborn
    <3>2. QED
      BY <1>2, <1>4, <2>3, <2>4, <2>5, <3>1 DEF WrittenFits
  <2>7. \A b \in DOMAIN e \ {a} : Cleared(e, address, b)
    BY <2>1, <2>3, <2>5 DEF Cleared
  <2>8. n.was \/ (DOMAIN e = {a} /\ address[a].state = "none")
    <3>1. CASE r.was
      BY <1>3, <3>1
    <3>2. CASE DOMAIN draft[w] = {}
      BY <1>1, <2>3, <3>2
    <3>3. QED
      BY <2>1, <3>1, <3>2
  <2>9. CreateFits(n, e, address)
    <3>1. n.row \in DOMAIN e /\ e[n.row].state = "live" /\ e[n.row].isDefault = n.was
      BY <1>3, <1>4, <2>3, <2>4
    <3>2. QED
      BY <1>3, <2>1, <2>7, <2>8, <3>1 DEF CreateFits
  <2>10. KindFits(n, e, address)
    BY <1>3, <2>9 DEF KindFits, AddressKinds
  <2>11. RequestFits(n, e, address)
    BY <1>3, <2>2, <2>6, <2>10 DEF RequestFits
  <2>12. IsDefault(x) => n.pc = "commit" /\ IndexHolders \subseteq {w} /\ MayWrite(w, a, x)
    BY <1>1, <1>3, <1>5 DEF MustWait, IsDefault
  <2>13. /\ AddressGoto(w, n) /\ Put(w, a, x) /\ areq[w].pc # "commit"
         /\ LockedBy(a) \subseteq {w} /\ address' = address
    BY <1>1, <1>5
  <2>14. QED
    BY <2>11, <2>12, <2>13, PutKeeps DEF e
<1>6. CASE ~ MayWrite(w, a, x)
  BY <1>1, <1>6, RollBackKeeps
<1>7. QED
  BY <1>5, <1>6

(* The row that an UPDATE writes.                                          *)
LEMMA WhatChanges ==
  ASSUME AddressInv, NEW w \in Workers, NEW a \in Rows, a = areq[w].row,
         areq[w].kind \in {"choose", "promote", "unset", "edit", "delete"}
  PROVE  /\ Changed(w) \in AddressRows
         /\ Changed(w).version = View(w)[a].version + 1
         /\ areq[w].kind \in {"choose", "promote"} =>
              Changed(w).state = "live" /\ Changed(w).isDefault
         /\ areq[w].kind = "unset" => ~ Changed(w).isDefault
         /\ areq[w].kind = "unset" => Changed(w).state = "live"
         /\ areq[w].kind = "edit" => Changed(w).state = View(w)[a].state
         /\ areq[w].kind = "delete" => Changed(w).state = "deleted"
         /\ areq[w].kind \in {"edit", "delete"} =>
              Changed(w).isDefault = View(w)[a].isDefault
<1>1. PICK old \in AddressRows : old = View(w)[a]
  BY ViewOf
<1>2. PICK x : x = Changed(w)
  OBVIOUS
<1>3. CASE areq[w].kind \in {"choose", "promote"}
  <2>1. x = AddressRow("live", TRUE, old.version + 1)
    BY <1>1, <1>2, <1>3 DEF Changed
  <2>2. x \in AddressRows /\ x.version = old.version + 1 /\ x.state = "live"
    BY <2>1 DEF AddressRow, AddressRows
  <2>3. x.isDefault
    BY <2>1 DEF AddressRow
  <2>4. QED
    BY <1>1, <1>2, <1>3, <2>2, <2>3
<1>4. CASE areq[w].kind = "unset"
  <2>1. x = AddressRow("live", FALSE, old.version + 1)
    BY <1>1, <1>2, <1>4 DEF Changed
  <2>2. QED
    BY <1>1, <1>2, <1>4, <2>1 DEF AddressRow, AddressRows
<1>5. CASE areq[w].kind = "edit"
  <2>1. x = [old EXCEPT !.version = old.version + 1]
    BY <1>1, <1>2, <1>5 DEF Changed
  <2>2. QED
    BY <1>1, <1>2, <1>5, <2>1 DEF AddressRows
<1>6. CASE areq[w].kind = "delete"
  <2>1. x = [old EXCEPT !.state = "deleted", !.version = old.version + 1]
    BY <1>1, <1>2, <1>6 DEF Changed
  <2>2. x \in AddressRows /\ x.version = old.version + 1 /\ x.state = "deleted"
    <3>1. x.version = old.version + 1
      BY <2>1 DEF AddressRows
    <3>2. x.state = "deleted"
      BY <2>1 DEF AddressRows
    <3>3. old.version + 1 \in Nat
      BY DEF AddressRows
    <3>4. x \in AddressRows
      BY <2>1, <3>3 DEF AddressRows
    <3>5. QED
      BY <3>1, <3>2, <3>4
  <2>3. x.isDefault = old.isDefault
    BY <2>1 DEF AddressRows
  <2>4. QED
    BY <1>1, <1>2, <1>6, <2>2, <2>3
<1>7. QED
  BY <1>3, <1>4, <1>5, <1>6

LEMMA UpdateKeeps ==
  ASSUME AddressInv, NEW w \in Workers, UpdateAddress(w)
  PROVE  AddressInv'
<1> DEFINE r == areq[w]
<1>1. /\ r.pc = "write" /\ r.kind # "create" /\ address' = address
      /\ NoChange(r) \/ LockedBy(r.row) \subseteq {w}
  BY DEF UpdateAddress
<1>2. /\ r \in AddressRequest /\ draft[w] \in Drafts /\ WrittenFits(draft[w], address)
      /\ KindFits(r, draft[w], address)
  BY FieldsOfRequest
<1>3. r.kind \in {"choose", "promote", "unset", "edit", "delete"} /\ LoadedFits(r, address)
  BY <1>1, <1>2 DEF KindFits, AddressKinds
<1>4. CASE NoChange(r)
  <2> DEFINE n == [r EXCEPT !.pc = "commit"]
  <2>1. AddressGoto(w, n) /\ UNCHANGED <<address, draft>>
    BY <1>1, <1>4 DEF UpdateAddress
  <2>2. /\ n \in AddressRequest /\ n.pc = "commit" /\ n.kind = r.kind /\ n.row = r.row
        /\ n.version = r.version /\ n.was = r.was
    BY <1>2 DEF AddressRequest
  <2> HIDE DEF n
  <2>3. KindFits(n, draft[w], address)
    <3>1. CASE r.was
      BY <1>1, <1>2, <1>4, <2>2, <3>1 DEF KindFits, NoChange, PromoteFits
    <3>2. CASE ~ r.was
      BY <1>1, <1>2, <1>4, <2>2, <3>2 DEF KindFits, NoChange, UnsetFits
    <3>3. QED
      BY <3>1, <3>2
  <2>4. RequestFits(n, draft[w], address)
    BY <1>2, <2>2, <2>3 DEF RequestFits
  <2>5. QED
    BY <1>1, <2>1, <2>4, MoveKeeps
<1>5. CASE ~ NoChange(r) /\ View(w)[r.row].version # r.version
  BY <1>1, <1>5, RollBackKeeps DEF UpdateAddress
<1>6. CASE ~ NoChange(r) /\ View(w)[r.row].version = r.version
  <2>1. PICK a \in Rows : a = r.row
    BY <1>3 DEF LoadedFits
  <2>2. PICK old \in AddressRows : old = View(w)[a]
    BY ViewOf
  <2>3. PICK x \in AddressRows : x = Changed(w)
    BY <1>3, <2>1, WhatChanges
  <2>4. PICK last \in BOOLEAN : last <=> (r.kind = "delete" /\ r.was)
    BY Zenon
  <2> DEFINE n == [r EXCEPT !.pc = IF last THEN "list" ELSE "commit"]
  <2>5. /\ ~ MustWait(w, x)
        /\ IF MayWrite(w, a, x) THEN Put(w, a, x) /\ AddressGoto(w, n) ELSE RollBack(w)
    <3>1. (r.kind = "delete" /\ r.was) = last
      BY <2>4, Zenon
    <3>2. QED
      BY <1>6, <2>1, <2>3, <3>1, Zenon DEF UpdateAddress
  <2>6. /\ n \in AddressRequest /\ n.pc = (IF last THEN "list" ELSE "commit") /\ n.kind = r.kind
        /\ n.row = a /\ n.version = r.version /\ n.was = r.was
    BY <1>2, <2>1 DEF AddressRequest
  <2> HIDE DEF n
  <2>7. /\ x.version = old.version + 1
        /\ r.kind \in {"choose", "promote"} => IsDefault(x)
        /\ r.kind = "unset" => x.state = "live" /\ ~ IsDefault(x)
        /\ r.kind = "edit" => x.state = old.state
        /\ r.kind = "delete" => x.state = "deleted"
        /\ r.kind \in {"edit", "delete"} => x.isDefault = old.isDefault
    BY <1>3, <2>1, <2>2, <2>3, WhatChanges DEF IsDefault
  <2>8. old.version >= address[a].version /\ old.version = r.version
    <3>1. CASE a \in DOMAIN draft[w]
      BY <1>2, <1>6, <2>1, <2>2, <3>1, ViewOf DEF WrittenFits
    <3>2. CASE a \notin DOMAIN draft[w]
      BY <1>6, <2>1, <2>2, <3>2, ViewOf DEF AddressRows
    <3>3. QED
      BY <3>1, <3>2
  <2>9. CASE MayWrite(w, a, x)
    <3> DEFINE e == With(draft[w], a, x)
    <3>1. e \in Drafts
      BY <1>2, DraftedToo
    <3>2. DOMAIN e = DOMAIN draft[w] \cup {a}
      BY <1>2, DraftedToo
    <3>3. e[a] = x
      BY <1>2, DraftedToo
    <3>4. \A b \in DOMAIN draft[w] \ {a} : e[b] = draft[w][b]
      BY <1>2, DraftedToo
    <3> HIDE DEF e
    <3>5. DOMAIN draft[w] = {} => DOMAIN e = {a} /\ old = address[a]
      BY <2>2, <3>2, ViewOf
    <3>6. address[a].version \in Nat /\ old.version \in Nat /\ address[a].state # "none"
      BY <1>3, <2>1 DEF AddressInv, AddressRows, LoadedFits
    <3>7. x.state # "none"
      <4>1. CASE r.kind = "edit"
        BY <1>1, <1>2, <2>7, <3>5, <3>6, <4>1 DEF KindFits, EditFits
      <4>2. CASE r.kind # "edit"
        BY <1>3, <2>7, <4>2 DEF IsDefault
      <4>3. QED
        BY <4>1, <4>2
    <3>8. WrittenFits(e, address)
      BY <1>2, <2>7, <2>8, <3>2, <3>3, <3>4, <3>6, <3>7 DEF WrittenFits
    <3>9. KindFits(n, e, address)
      <4>1. CASE r.kind = "choose"
        <5>1. n.pc = "commit"
          BY <2>4, <2>6, <4>1
        <5>2. QED
          BY <2>6, <2>7, <3>2, <3>3, <4>1, <5>1 DEF KindFits, ChooseFits, AddressKinds
      <4>2. CASE r.kind = "promote"
        <5>1. n.pc = "commit" /\ ~ r.was
          BY <1>6, <2>4, <2>6, <4>2 DEF NoChange
        <5>2. QED
          BY <2>6, <2>7, <3>2, <3>3, <4>2, <5>1 DEF KindFits, PromoteFits, AddressKinds
      <4>3. CASE r.kind = "unset"
        <5>1. n.pc = "commit"
          BY <2>4, <2>6, <4>3
        <5>2. QED
          BY <2>6, <4>3, <5>1 DEF KindFits, UnsetFits, AddressKinds
      <4>4. CASE r.kind = "edit"
        <5>1. n.pc = "commit"
          BY <2>4, <2>6, <4>4
        <5>2. DOMAIN draft[w] = {}
          BY <1>1, <1>2, <4>4 DEF KindFits, EditFits
        <5>3. QED
          BY <2>6, <2>7, <3>3, <3>5, <4>4, <5>1, <5>2 DEF KindFits, EditFits, AddressKinds
      <4>5. CASE r.kind = "delete"
        <5>1. n.pc \in {"list", "commit"} /\ (n.pc = "commit" => ~ last)
          BY <2>6
        <5>2. DOMAIN draft[w] = {}
          BY <1>1, <1>2, <4>5 DEF KindFits, DeleteFits
        <5>3. address[a].state = "live" /\ (address[a].isDefault => r.was)
          BY <1>3, <2>1, <2>8, <3>5, <5>2 DEF LoadedFits
        <5>4. n.pc = "commit" => ~ IsDefault(address[a])
          BY <2>4, <4>5, <5>1, <5>3 DEF IsDefault
        <5>5. DeleteFits(n, e, address)
          BY <2>6, <2>7, <3>3, <3>5, <4>5, <5>1, <5>2, <5>3, <5>4 DEF DeleteFits
        <5>6. QED
          BY <2>6, <4>5, <5>1, <5>5 DEF KindFits, AddressKinds
      <4>6. QED
        BY <1>3, <4>1, <4>2, <4>3, <4>4, <4>5
    <3>10. RequestFits(n, e, address)
      <4>1. n.pc \in {"list", "commit"}
        BY <2>6
      <4>2. QED
        BY <2>6, <3>1, <3>8, <3>9, <4>1 DEF RequestFits
    <3>11. IsDefault(x) => n.pc = "commit" /\ IndexHolders \subseteq {w} /\ MayWrite(w, a, x)
      <4>1. IsDefault(x) => n.pc = "commit"
        BY <2>4, <2>6, <2>7 DEF IsDefault
      <4>2. IsDefault(x) => IndexHolders \subseteq {w}
        BY <2>5 DEF MustWait, IsDefault
      <4>3. QED
        BY <2>9, <4>1, <4>2
    <3>12. /\ AddressGoto(w, n) /\ Put(w, a, x) /\ areq[w].pc # "commit"
           /\ LockedBy(a) \subseteq {w} /\ address' = address
      BY <1>1, <1>6, <2>1, <2>5, <2>9
    <3>13. QED
      BY <3>10, <3>11, <3>12, PutKeeps DEF e
  <2>10. CASE ~ MayWrite(w, a, x)
    BY <1>1, <2>5, <2>10, RollBackKeeps
  <2>11. QED
    BY <2>9, <2>10
<1>7. QED
  BY <1>4, <1>5, <1>6

(* Of some rows, one is the newest.                                        *)
LEMMA NewestOf ==
  ASSUME NEW T, T \subseteq Rows, T # {}
  PROVE  \E a \in T : \A b \in T : b <= a
<1> DEFINE R == OpToRel(<, Nat)
           U == {MaxRows - b : b \in T}
<1>1. IsWellFoundedOn(R, Nat)
  BY NatLessThanWellFounded
<1>2. \A i, j \in Nat : i < j => <<i, j>> \in R
  BY DEF OpToRel
<1>3. MaxRows \in Nat /\ \A b \in T : b \in Nat /\ MaxRows - b \in Nat
  BY AddressBounds DEF Rows
<1>4. U \subseteq Nat /\ U # {}
  BY <1>3
<1> HIDE DEF R
<1>5. PICK k \in U : \A j \in U : ~ (<<j, k>> \in R)
  <2> HIDE DEF U
  <2>1. QED
    BY <1>1, <1>4, WFMin, Zenon
<1>6. PICK a \in T : k = MaxRows - a
  OBVIOUS
<1>7. ASSUME NEW b \in T PROVE b <= a
  <2>1. MaxRows - b \in U /\ k \in Nat /\ MaxRows - b \in Nat
    BY <1>3, <1>4
  <2>2. ~ (MaxRows - b < k)
    BY <1>2, <1>5, <2>1
  <2>3. QED
    BY <1>3, <1>6, <2>1, <2>2
<1>8. QED
  BY <1>7

LEMMA FirstListedLives ==
  ASSUME NEW table, LiveRows(table) # {}
  PROVE  FirstListed(table) \in LiveRows(table)
<1>1. LiveRows(table) \subseteq Rows /\ Defaults(table) \subseteq LiveRows(table)
  BY DEF LiveRows, Defaults
<1>2. CASE Defaults(table) # {}
  <2>1. FirstListed(table) \in Defaults(table)
    BY <1>2, Zenon DEF FirstListed
  <2>2. QED
    BY <1>1, <2>1
<1>3. CASE Defaults(table) = {}
  <2>1. \E a \in LiveRows(table) : \A b \in LiveRows(table) : b <= a
    BY <1>1, NewestOf
  <2>2. FirstListed(table) = CHOOSE a \in LiveRows(table) : \A b \in LiveRows(table) : b <= a
    BY <1>3, Zenon DEF FirstListed
  <2>3. QED
    BY <2>1, <2>2, Zenon
<1>4. QED
  BY <1>2, <1>3

LEMMA ListKeeps ==
  ASSUME AddressInv, NEW w \in Workers, ListRemaining(w)
  PROVE  AddressInv'
<1> DEFINE r == areq[w]
           table == View(w)
<1>1. r.pc = "list" /\ UNCHANGED <<address, draft>>
  BY DEF ListRemaining
<1>2. /\ r \in AddressRequest /\ draft[w] \in Drafts /\ WrittenFits(draft[w], address)
      /\ KindFits(r, draft[w], address)
  BY FieldsOfRequest
<1>3. r.kind = "delete" /\ DeleteFits(r, draft[w], address)
  BY <1>1, <1>2 DEF KindFits, CreateFits, ChooseFits, EditFits, UnsetFits, PromoteFits,
                    AddressKinds
<1>4. PICK a \in Rows : a = r.row
  BY <1>3 DEF DeleteFits
<1>5. /\ DOMAIN draft[w] = {a} /\ draft[w][a].state = "deleted"
      /\ draft[w][a].isDefault = address[a].isDefault /\ address[a].state = "live"
  BY <1>1, <1>3, <1>4 DEF DeleteFits
<1>6. CASE LiveRows(table) = {}
  <2> DEFINE n == AddressAt("commit", "last", None, 0, FALSE)
  <2>1. AddressGoto(w, n)
    BY <1>6 DEF ListRemaining
  <2>2. n \in AddressRequest /\ n.pc = "commit" /\ n.kind = "last"
    BY DEF AddressAt, AddressRequest, AddressKinds
  <2> HIDE DEF n
  <2>3. RequestFits(n, draft[w], address)
    BY <1>2, <2>2 DEF RequestFits, KindFits, AddressKinds
  <2>4. QED
    BY <1>1, <2>1, <2>3, MoveKeeps
<1>7. CASE LiveRows(table) # {}
  <2>1. PICK b \in Rows : b = FirstListed(table)
    BY <1>7, FirstListedLives DEF LiveRows
  <2> DEFINE n == AddressAt("write", "promote", b, table[b].version, table[b].isDefault)
  <2>2. AddressGoto(w, n)
    BY <1>7, <2>1 DEF ListRemaining
  <2>3. table[b].state = "live"
    BY <1>7, <2>1, FirstListedLives DEF LiveRows
  <2>4. b # a
    BY <1>5, <2>3, ViewOf
  <2>5. table[b] = address[b] /\ address[b] \in AddressRows
    BY <1>5, <2>4, ViewOf DEF AddressInv
  <2>6. /\ n \in AddressRequest /\ n.pc = "write" /\ n.kind = "promote" /\ n.row = b
        /\ n.version = address[b].version /\ n.was = address[b].isDefault
    BY <2>5 DEF AddressAt, AddressRequest, AddressKinds, AddressRows
  <2> HIDE DEF n, table
  <2>7. LoadedFits(n, address)
    BY <2>3, <2>5, <2>6 DEF LoadedFits, AddressRows
  <2>8. PromoteFits(n, draft[w], address)
    <3>1. b \notin DOMAIN draft[w]
      BY <1>5, <2>4
    <3>2. \A c \in DOMAIN draft[w] : /\ draft[w][c].state = "deleted"
                                     /\ draft[w][c].isDefault => IsDefault(address[c])
      BY <1>5 DEF IsDefault
    <3>3. n.was => \A c \in DOMAIN draft[w] : ~ IsDefault(address[c])
      <4>1. SUFFICES ASSUME n.was, IsDefault(address[a]) PROVE FALSE
        BY <1>5
      <4>2. IsDefault(address[b])
        BY <2>3, <2>5, <2>6, <4>1 DEF IsDefault
      <4>3. QED
        BY <2>4, <4>1, <4>2 DEF AddressInv, SingleDefault
    <3>4. QED
      BY <2>6, <3>1, <3>2, <3>3 DEF PromoteFits
  <2>9. KindFits(n, draft[w], address)
    BY <2>6, <2>7, <2>8 DEF KindFits, AddressKinds
  <2>10. RequestFits(n, draft[w], address)
    BY <1>2, <2>6, <2>9 DEF RequestFits
  <2>11. QED
    BY <1>1, <2>2, <2>10, MoveKeeps
<1>8. QED
  BY <1>6, <1>7

LEMMA AddressesKept ==
  ASSUME AddressInv, [AddressNext]_addressVars
  PROVE  AddressInv'
<1>1. CASE AddressNext
  <2>1. PICK w \in Workers :
          \/ \E wanted \in BOOLEAN : CountAddresses(w, wanted)
          \/ \E a \in Rows, kind \in {"choose", "unset", "edit", "delete"} :
               LoadAddress(w, a, kind)
          \/ AddressStep(w)
          \/ AbortAddresses(w)
    BY <1>1 DEF AddressNext
  <2>2. CASE AbortAddresses(w)
    BY <2>2, RollBackKeeps DEF AbortAddresses
  <2>3. CASE AddressStep(w)
    BY <2>3, FindKeeps, ClearKeeps, UpdateKeeps, InsertKeeps, ListKeeps, CommitKeepsInv
       DEF AddressStep
  <2>4. QED
    BY <2>1, <2>2, <2>3, CountKeeps, LoadKeeps
<1>2. CASE UNCHANGED addressVars
  <2>1. address' = address /\ draft' = draft /\ areq' = areq
    BY <1>2 DEF addressVars
  <2>2. \A w \in Workers : WriterHolds(w) => WriterHolds(w)'
    BY <2>1 DEF WriterHolds
  <2>3. RowsApart => RowsApart'
    BY <2>1 DEF RowsApart
  <2>4. QED
    BY <2>1, <2>2, <2>3 DEF AddressInv
<1>3. QED
  BY <1>1, <1>2

-----------------------------------------------------------------------------
LEMMA AddressesTyped ==
  ASSUME AddressInv
  PROVE  AddressTypeOK
<1>1. address \in [Rows -> AddressRows]
  BY DEF AddressInv
<1>2. ASSUME NEW w \in Workers
      PROVE  /\ DOMAIN draft[w] \subseteq Rows
             /\ \A a \in DOMAIN draft[w] : draft[w][a] \in AddressRows
             /\ areq[w].row \in Rows \cup {None} /\ areq[w].was \in BOOLEAN
  BY FieldsOfRequest, Drafted DEF AddressRequest
<1>3. QED
  BY <1>1, <1>2 DEF AddressTypeOK, AddressRows

LEMMA DefaultIsOne ==
  ASSUME AddressInv
  PROVE  OneDefault
<1>1. \A a, b \in Defaults(address) : a = b
  BY DEF AddressInv, SingleDefault, Defaults, LiveRows, IsDefault
<1>2. CASE Defaults(address) = {}
  BY <1>2, FS_EmptySet DEF OneDefault
<1>3. CASE Defaults(address) # {}
  <2>1. PICK a : Defaults(address) = {a}
    BY <1>1, <1>3
  <2>2. Cardinality({a}) = 1
    BY FS_Singleton
  <2>3. QED
    BY <2>1, <2>2 DEF OneDefault
<1>4. QED
  BY <1>2, <1>3

(* Who waits and is waited for has written the committed default, unless   *)
(* it deletes an address that was not it any more.                         *)
LEMMA EntangledHolds ==
  ASSUME AddressInv, NEW w \in Workers, Entangled(w), ~ DeletedStale(w)
  PROVE  \E a \in DOMAIN draft[w] : IsDefault(address[a])
<1> DEFINE r == areq[w]
           d == draft[w]
<1>1. PICK y \in Workers : WaitsFor(y, w)
  BY DEF Entangled
<1>2. PICK a : a \in DOMAIN d
  BY <1>1, HoldersHold DEF WaitsFor, LockedBy, Holds
<1>3. PICK x \in Workers : WaitsFor(w, x)
  BY DEF Entangled
<1>4. KindFits(r, d, address)
  BY FieldsOfRequest
<1>5. r.pc = "write" /\ r.kind \in AddressKinds
  BY <1>2, <1>3, <1>4 DEF WaitsFor, KindFits
<1>6. r.kind \in {"create", "choose", "promote"}
  BY <1>2, <1>4, <1>5 DEF KindFits, EditFits, UnsetFits, DeleteFits, AddressKinds
<1>7. CASE r.kind = "create"
  BY <1>2, <1>4, <1>5, <1>7 DEF KindFits, CreateFits, Cleared
<1>8. CASE r.kind = "choose"
  BY <1>2, <1>4, <1>5, <1>8 DEF KindFits, ChooseFits, Cleared
<1>9. CASE r.kind = "promote"
  <2>1. d[a].state = "deleted" /\ (d[a].isDefault => IsDefault(address[a]))
    BY <1>2, <1>4, <1>5, <1>9 DEF KindFits, PromoteFits
  <2>2. QED
    BY <1>2, <1>9, <2>1 DEF DeletedStale
<1>10. QED
  BY <1>6, <1>7, <1>8, <1>9

LEMMA CirclesAreStale ==
  ASSUME AddressInv
  PROVE  DeadlockNeedsStaleDefault
<1> SUFFICES ASSUME NEW w \in Workers, NEW v \in Workers, w # v, Entangled(w), Entangled(v),
                    ~ DeletedStale(w), ~ DeletedStale(v)
             PROVE  FALSE
  BY DEF DeadlockNeedsStaleDefault
<1>1. PICK a \in DOMAIN draft[w] : IsDefault(address[a])
  BY EntangledHolds
<1>2. PICK b \in DOMAIN draft[v] : IsDefault(address[b])
  BY EntangledHolds
<1>3. a \in Rows /\ b \in Rows
  BY FieldsOfRequest
<1>4. a = b
  BY <1>1, <1>2, <1>3 DEF AddressInv, SingleDefault
<1>5. QED
  BY <1>4 DEF AddressInv, RowsApart

(* Only a commit changes what is committed.                                *)
LEMMA CommitChanges ==
  ASSUME AddressInv, [AddressNext]_addressVars, NEW w \in Workers,
         areq[w].pc # "idle", areq'[w] = AddressIdle, address' # address
  PROVE  CommitAddresses(w)
<1>1. PICK u \in Workers : CommitAddresses(u)
  <2>1. AddressNext
    BY DEF addressVars
  <2>2. PICK u \in Workers :
          \/ \E wanted \in BOOLEAN : CountAddresses(u, wanted)
          \/ \E a \in Rows, kind \in {"choose", "unset", "edit", "delete"} :
               LoadAddress(u, a, kind)
          \/ AddressStep(u)
          \/ AbortAddresses(u)
    BY <2>1 DEF AddressNext
  <2>3. CASE AddressStep(u)
    BY <2>3 DEF AddressStep, FindDefaults, ClearDefaults, UpdateAddress, InsertAddress,
                ListRemaining
  <2>4. QED
    BY <2>2, <2>3 DEF CountAddresses, LoadAddress, AbortAddresses
<1>2. u = w
  <2>1. areq' = [areq EXCEPT ![u] = AddressIdle]
    BY <1>1 DEF CommitAddresses, RollBack, AddressGoto
  <2>2. QED
    BY <2>1, IdleAddress DEF AddressInv
<1>3. QED
  BY <1>1, <1>2

LEMMA LimitRaced ==
  ASSUME AddressInv, [AddressNext]_addressVars, NEW w \in Workers,
         areq[w].pc = "commit", areq[w].kind = "create", areq'[w] = AddressIdle,
         Cardinality(LiveRows(address')) > Counted,
         Cardinality(LiveRows(address')) > MaxAddresses
  PROVE  Counted > areq[w].version
<1> DEFINE r == areq[w]
           before == LiveRows(address)
           after == LiveRows(address')
<1>2. /\ IsFiniteSet(before) /\ Cardinality(before) \in Nat
      /\ IsFiniteSet(after) /\ Cardinality(after) \in Nat
  BY LiveRowsCounted
<1>3. address' # address
  BY <1>2 DEF Counted
<1>4. CommitAddresses(w)
  BY <1>3, CommitChanges
<1>5. r.pc = "commit" /\ address' = View(w)
  BY <1>4 DEF CommitAddresses
<1>6. CreateFits(r, draft[w], address) /\ r \in AddressRequest
  BY <1>5, FieldsOfRequest DEF KindFits
<1>7. PICK a \in Rows : a = r.row
  BY <1>5, <1>6, FieldsOfRequest DEF CreateFits
<1>8. after \subseteq before \cup {a}
  <2>1. ASSUME NEW b \in after, b # a PROVE b \in before
    <3>1. b \in Rows /\ View(w)[b].state = "live"
      BY <1>5 DEF LiveRows
    <3>2. CASE b \in DOMAIN draft[w]
      <4>1. Cleared(draft[w], address, b)
        BY <1>5, <1>6, <1>7, <2>1, <3>2 DEF CreateFits
      <4>2. QED
        BY <3>1, <4>1 DEF Cleared, IsDefault, LiveRows
    <3>3. CASE b \notin DOMAIN draft[w]
      BY <3>1, <3>3, ViewOf DEF LiveRows
    <3>4. QED
      BY <3>2, <3>3
  <2>2. QED
    BY <2>1
<1> HIDE DEF before, after
<1>9. /\ IsFiniteSet(before \cup {a})
      /\ Cardinality(before \cup {a}) \in {Cardinality(before), Cardinality(before) + 1}
  BY <1>2, FS_AddElement
<1>10. Cardinality(after) <= Cardinality(before \cup {a})
  BY <1>8, <1>9, FS_Subset
<1>11. r.version < MaxAddresses /\ r.version \in Nat
  BY <1>6 DEF CreateFits, AddressRequest
<1>12. Cardinality(after) > MaxAddresses /\ Counted = Cardinality(before)
  BY DEF before, after, Counted
<1>13. QED
  BY <1>2, <1>9, <1>10, <1>11, <1>12, AddressBounds

LEMMA DefaultNotLost ==
  ASSUME AddressInv, [AddressNext]_addressVars, NEW w \in Workers,
         Defaults(address) # {}, Defaults(address') = {},
         areq[w].pc = "commit", areq'[w] = AddressIdle, address' # address,
         areq[w].kind \notin {"unset", "last"}
  PROVE  FALSE
<1> DEFINE r == areq[w]
           d == draft[w]
<1>1. address' = View(w)
  BY CommitChanges DEF CommitAddresses
<1>2. PICK a \in Rows : IsDefault(address[a])
  BY DEF Defaults, LiveRows, IsDefault
<1>3. \A b \in Rows : ~ IsDefault(View(w)[b])
  BY <1>1 DEF Defaults, LiveRows, IsDefault
<1>4. \A b \in DOMAIN d : ~ IsDefault(d[b])
  BY <1>3, ViewOf
<1>5. a \in DOMAIN d
  BY <1>2, <1>3, ViewOf
<1>6. KindFits(r, d, address)
  BY FieldsOfRequest
<1>7. r.kind \in {"create", "choose", "edit", "delete", "promote"}
  BY <1>6 DEF KindFits, AddressKinds
<1>8. CASE r.kind = "create"
  BY <1>2, <1>4, <1>5, <1>6, <1>8 DEF KindFits, CreateFits, IsDefault
<1>9. CASE r.kind = "choose"
  BY <1>4, <1>6, <1>9 DEF KindFits, ChooseFits
<1>10. CASE r.kind = "edit"
  BY <1>2, <1>4, <1>5, <1>6, <1>10 DEF KindFits, EditFits, IsDefault
<1>11. CASE r.kind = "delete"
  BY <1>2, <1>5, <1>6, <1>11 DEF KindFits, DeleteFits
<1>12. CASE r.kind = "promote"
  BY <1>2, <1>4, <1>5, <1>6, <1>12 DEF KindFits, PromoteFits
<1>13. QED
  BY <1>7, <1>8, <1>9, <1>10, <1>11, <1>12

LEMMA ChosenStays ==
  ASSUME AddressInv, [AddressNext]_addressVars, NEW w \in Workers,
         areq[w].pc = "commit", areq[w].kind = "choose",
         areq'[w] = AddressIdle, address' # address
  PROVE  Defaults(address') = {areq[w].row}
<1> DEFINE d == draft[w]
<1>1. address' = View(w)
  BY CommitChanges DEF CommitAddresses
<1>2. PICK a \in DOMAIN d : a = areq[w].row /\ IsDefault(d[a])
  BY FieldsOfRequest DEF KindFits, ChooseFits
<1>3. Sole(d, address)
  BY <1>2 DEF AddressInv, WriterHolds, WroteDefault
<1>4. \A b \in Rows : IsDefault(View(w)[b]) <=> b = a
  BY <1>2, <1>3, ViewOf DEF Sole
<1>5. a \in Rows
  BY <1>2, FieldsOfRequest
<1>6. QED
  BY <1>1, <1>2, <1>4, <1>5 DEF Defaults, LiveRows, IsDefault

(* The addresses of a customer, for every number of addresses, changes and *)
(* workers: one default at most, the chosen one is it, none lost unasked,  *)
(* and the only races are the two that the order of the statements leaves. *)
THEOREM AddressesHold == AddressSpec => AddressesCorrect
<1>1. AddressInit => AddressInv
  BY AddressStart
<1>2. AddressInv /\ [AddressNext]_addressVars => AddressInv'
  BY AddressesKept
<1>3. AddressInv => AddressTypeOK /\ OneDefault /\ DeadlockNeedsStaleDefault
  BY AddressesTyped, DefaultIsOne, CirclesAreStale
<1>4. ASSUME AddressInv, [AddressNext]_addressVars
      PROVE  \A w \in Workers :
               /\ areq[w].pc = "commit" /\ areq[w].kind = "create" /\ areq'[w] = AddressIdle
               /\ Cardinality(LiveRows(address')) > Counted
               /\ Cardinality(LiveRows(address')) > MaxAddresses
               => Counted > areq[w].version
  BY <1>4, LimitRaced
<1>5. ASSUME AddressInv, [AddressNext]_addressVars
      PROVE  \A w \in Workers :
               /\ Defaults(address) # {} /\ Defaults(address') = {}
               /\ areq[w].pc = "commit" /\ areq'[w] = AddressIdle /\ address' # address
               => \/ LiveRows(address') = {}
                  \/ areq[w].kind \in {"unset", "last"}
  BY <1>5, DefaultNotLost
<1>6. ASSUME AddressInv, [AddressNext]_addressVars
      PROVE  \A w \in Workers :
               areq[w].pc = "commit" /\ areq[w].kind = "choose"
                 /\ areq'[w] = AddressIdle /\ address' # address
               => Defaults(address') = {areq[w].row}
  BY <1>6, ChosenStays
<1>7. QED
  BY <1>1, <1>2, <1>3, <1>4, <1>5, <1>6, PTL
     DEF AddressSpec, AddressesCorrect, LimitNeedsRace, DefaultKept, ChosenIsDefault

-----------------------------------------------------------------------------
(* Mirrors *)

Entries == [row : Mirrored, version : 1 .. MaxCommits]

(* A list shows a row once, in a version that the row has had.             *)
Good(list, versions) ==
  /\ list \in Seq(Entries)
  /\ \A i, j \in DOMAIN list : list[i].row = list[j].row => i = j
  /\ \A i \in DOMAIN list : list[i].version <= versions[list[i].row]

(* A set of naturals has a least member, which Min finds.                  *)
LEMMA LeastOfSome ==
  ASSUME NEW T, T \subseteq Nat, T # {}
  PROVE  Min(T) \in T /\ \A j \in T : Min(T) <= j
<1> DEFINE R == OpToRel(<, Nat)
<1>1. IsWellFoundedOn(R, Nat)
  BY NatLessThanWellFounded
<1>2. \A i, j \in Nat : i < j => <<i, j>> \in R
  BY DEF OpToRel
<1> HIDE DEF R
<1>3. PICK k \in T : \A j \in T : ~ (<<j, k>> \in R)
  BY <1>1, WFMin, Zenon
<1>4. ASSUME NEW j \in T PROVE k <= j
  <2>1. k \in Nat /\ j \in Nat /\ ~ (j < k)
    BY <1>2, <1>3
  <2>2. QED
    BY <2>1
<1>5. \E x \in T : \A y \in T : x <= y
  BY <1>4
<1>6. QED
  BY <1>5, Zenon DEF Min

(* The lists that Without computes one after the other.                    *)
Keeps(list, r, n, f) ==
  f = [i \in 0 .. n |->
         IF i = 0 THEN <<>>
         ELSE IF list[i].row = r THEN f[i - 1] ELSE Append(f[i - 1], list[i])]

LEMMA KeptExists ==
  ASSUME NEW list, NEW r, NEW k \in Nat
  PROVE  \E f : Keeps(list, r, k, f)
<1> DEFINE T == {n \in Nat : ~ \E f : Keeps(list, r, n, f)}
<1> SUFFICES ASSUME T # {} PROVE FALSE
  OBVIOUS
<1>1. PICK n \in T : \A j \in T : n <= j
  <2>1. T \subseteq Nat
    OBVIOUS
  <2> HIDE DEF T
  <2>2. QED
    BY <2>1, LeastOfSome
<1>2. CASE n = 0
  <2> DEFINE f == [i \in 0 .. 0 |-> <<>>]
  <2>1. f = [i \in 0 .. 0 |->
               IF i = 0 THEN <<>>
               ELSE IF list[i].row = r THEN f[i - 1] ELSE Append(f[i - 1], list[i])]
    OBVIOUS
  <2>2. QED
    BY <1>2, <2>1 DEF Keeps
<1>3. CASE n # 0
  <2>1. n - 1 \in Nat /\ ~ (n <= n - 1)
    BY <1>3
  <2>2. PICK f : Keeps(list, r, n - 1, f)
    BY <1>1, <2>1
  <2> DEFINE last == IF list[n].row = r THEN f[n - 1] ELSE Append(f[n - 1], list[n])
             g == [i \in 0 .. n |-> IF i = n THEN last ELSE f[i]]
  <2>3. ASSUME NEW i \in 0 .. n
        PROVE  g[i] = IF i = 0 THEN <<>>
                      ELSE IF list[i].row = r THEN g[i - 1] ELSE Append(g[i - 1], list[i])
    <3>1. CASE i = n
      <4>1. n - 1 \in 0 .. n /\ n - 1 # n
        BY <1>3
      <4>2. QED
        BY <1>3, <3>1, <4>1
    <3>2. CASE i # n
      <4>1. i \in 0 .. (n - 1) /\ (i # 0 => i - 1 \in 0 .. n /\ i - 1 # n)
        BY <3>2
      <4>2. f[i] = IF i = 0 THEN <<>>
                   ELSE IF list[i].row = r THEN f[i - 1] ELSE Append(f[i - 1], list[i])
        BY <2>2, <4>1 DEF Keeps
      <4> HIDE DEF last
      <4>3. QED
        BY <3>2, <4>1, <4>2
    <3>3. QED
      BY <3>1, <3>2
  <2>4. Keeps(list, r, n, g)
    <3>1. g = [i \in 0 .. n |-> g[i]]
      OBVIOUS
    <3> HIDE DEF g
    <3>2. QED
      BY <2>3, <3>1 DEF Keeps
  <2>5. QED
    BY <2>4
<1>4. QED
  BY <1>2, <1>3

(* What is kept of the first entries of a list that shows every row once.  *)
KeptOf(list, r, n, kept) ==
  /\ kept \in Seq(Entries)
  /\ \A i, j \in DOMAIN kept : kept[i].row = kept[j].row => i = j
  /\ \A i \in DOMAIN kept : kept[i].row # r /\ \E j \in 1 .. n : kept[i] = list[j]
  /\ \A j \in 1 .. n : list[j].row # r => \E i \in DOMAIN kept : kept[i] = list[j]

LEMMA KeepOneMore ==
  ASSUME NEW list \in Seq(Entries), NEW r, NEW n \in 1 .. Len(list),
         \A i, j \in DOMAIN list : list[i].row = list[j].row => i = j,
         NEW kept, KeptOf(list, r, n - 1, kept)
  PROVE  KeptOf(list, r, n, IF list[n].row = r THEN kept ELSE Append(kept, list[n]))
<1>1. n \in Nat /\ n \in DOMAIN list /\ list[n] \in Entries /\ \A j \in 1 .. n : j \in DOMAIN list
  OBVIOUS
<1>2. \A j \in 1 .. n : j = n \/ j \in 1 .. (n - 1)
  BY <1>1
<1>3. \A j \in 1 .. (n - 1) : j \in 1 .. n /\ j # n
  BY <1>1
<1>4. CASE list[n].row = r
  BY <1>2, <1>3, <1>4 DEF KeptOf
<1>5. CASE list[n].row # r
  <2> DEFINE k == Append(kept, list[n])
  <2>1. /\ kept \in Seq(Entries) /\ k \in Seq(Entries) /\ Len(kept) \in Nat
        /\ Len(k) = Len(kept) + 1 /\ DOMAIN k = 1 .. Len(k) /\ DOMAIN kept = 1 .. Len(kept)
        /\ k[Len(kept) + 1] = list[n] /\ \A i \in DOMAIN kept : k[i] = kept[i]
    BY <1>1 DEF KeptOf
  <2> HIDE DEF k
  <2>2. \A i \in DOMAIN k : i = Len(kept) + 1 \/ i \in DOMAIN kept
    BY <2>1
  <2>3. \A i \in DOMAIN kept : i \in DOMAIN k /\ i # Len(kept) + 1
    BY <2>1
  <2>4. Len(kept) + 1 \in DOMAIN k
    BY <2>1
  <2>5. \A i \in DOMAIN kept : kept[i].row # list[n].row
    BY <1>1, <1>3 DEF KeptOf
  <2>6. \A i, j \in DOMAIN k : k[i].row = k[j].row => i = j
    BY <2>1, <2>2, <2>5 DEF KeptOf
  <2>7. \A i \in DOMAIN k : k[i].row # r /\ \E j \in 1 .. n : k[i] = list[j]
    <3> SUFFICES ASSUME NEW i \in DOMAIN k
                 PROVE  k[i].row # r /\ \E j \in 1 .. n : k[i] = list[j]
      OBVIOUS
    <3>1. CASE i = Len(kept) + 1
      <4>1. n \in 1 .. n /\ k[i] = list[n]
        BY <1>1, <2>1, <3>1
      <4>2. QED
        BY <1>5, <4>1
    <3>2. CASE i \in DOMAIN kept
      BY <1>3, <2>1, <3>2 DEF KeptOf
    <3>3. QED
      BY <2>2, <3>1, <3>2
  <2>8. \A j \in 1 .. n : list[j].row # r => \E i \in DOMAIN k : k[i] = list[j]
    BY <1>2, <2>1, <2>3, <2>4 DEF KeptOf
  <2>9. QED
    BY <1>5, <2>1, <2>6, <2>7, <2>8 DEF KeptOf, k
<1>6. QED
  BY <1>4, <1>5

LEMMA WithoutKeeps ==
  ASSUME NEW list \in Seq(Entries), NEW r,
         \A i, j \in DOMAIN list : list[i].row = list[j].row => i = j
  PROVE  KeptOf(list, r, Len(list), Without(list, r))
<1> DEFINE f == CHOOSE g : Keeps(list, r, Len(list), g)
<1>1. Len(list) \in Nat
  OBVIOUS
<1>2. Keeps(list, r, Len(list), f)
  BY <1>1, KeptExists, Zenon
<1>3. Without(list, r) = f[Len(list)]
  BY Zenon DEF Without, Keeps
<1> HIDE DEF f
<1> DEFINE T == {n \in 0 .. Len(list) : ~ KeptOf(list, r, n, f[n])}
<1> SUFFICES ASSUME T # {} PROVE FALSE
  BY <1>1, <1>3
<1>4. PICK n \in T : \A j \in T : n <= j
  <2>1. T \subseteq Nat
    BY <1>1
  <2> HIDE DEF T
  <2>2. QED
    BY <2>1, LeastOfSome
<1>5. f[n] = IF n = 0 THEN <<>>
             ELSE IF list[n].row = r THEN f[n - 1] ELSE Append(f[n - 1], list[n])
  BY <1>2 DEF Keeps
<1>6. CASE n = 0
  <2>1. f[n] = <<>> /\ f[n] \in Seq(Entries) /\ DOMAIN f[n] = {} /\ 1 .. n = {}
    BY <1>5, <1>6
  <2>2. KeptOf(list, r, n, f[n])
    BY <2>1 DEF KeptOf
  <2>3. QED
    BY <2>2
<1>7. CASE n # 0
  <2>1. n \in 1 .. Len(list) /\ n - 1 \in 0 .. Len(list) /\ ~ (n <= n - 1)
    BY <1>1, <1>7
  <2>2. KeptOf(list, r, n - 1, f[n - 1])
    BY <1>4, <2>1
  <2>3. QED
    BY <1>5, <1>7, <2>1, <2>2, KeepOneMore
<1>8. QED
  BY <1>6, <1>7

(* What merging a row into a list does.                                    *)
LEMMA MergedList ==
  ASSUME NEW versions \in [Mirrored -> 0 .. MaxCommits], NEW list, Good(list, versions),
         NEW r \in Mirrored, NEW v \in 0 .. MaxCommits, v <= versions[r]
  PROVE  /\ Good(Merged(list, r, v), versions)
         /\ ToSet(Merged(list, r, v)) =
              {e \in ToSet(list) : e.row # r} \cup (IF v = 0 THEN {} ELSE {Entry(r, v)})
<1> DEFINE listed == {i \in DOMAIN list : list[i].row = r}
           m == Merged(list, r, v)
<1>1. /\ list \in Seq(Entries) /\ Len(list) \in Nat /\ DOMAIN list = 1 .. Len(list)
      /\ \A i \in DOMAIN list : list[i] \in Entries
  BY DEF Good
<1>2. v # 0 => Entry(r, v) \in Entries
  BY MirrorBounds DEF Entry, Entries
<1>3. Entry(r, v).row = r /\ Entry(r, v).version = v
  BY DEF Entry
<1>4. CASE v = 0
  <2>1. m = Without(list, r)
    BY <1>4 DEF Merged
  <2>2. KeptOf(list, r, Len(list), m)
    BY <2>1, WithoutKeeps DEF Good
  <2> HIDE DEF m
  <2>3. Good(m, versions)
    BY <1>1, <2>2 DEF Good, KeptOf
  <2>4. ToSet(m) = {e \in ToSet(list) : e.row # r}
    <3>1. \A i \in DOMAIN m : m[i].row # r /\ \E j \in DOMAIN list : m[i] = list[j]
      BY <1>1, <2>2 DEF KeptOf
    <3>2. \A j \in DOMAIN list : list[j].row # r => \E i \in DOMAIN m : m[i] = list[j]
      BY <1>1, <2>2 DEF KeptOf
    <3>3. QED
      BY <3>1, <3>2 DEF ToSet
  <2>5. QED
    BY <1>4, <2>3, <2>4 DEF m
<1>5. CASE v # 0 /\ listed = {}
  <2>1. m = Append(list, Entry(r, v))
    BY <1>5 DEF Merged
  <2> HIDE DEF m
  <2>2. /\ m \in Seq(Entries) /\ DOMAIN m = 1 .. (Len(list) + 1)
        /\ m[Len(list) + 1] = Entry(r, v) /\ \A i \in DOMAIN list : m[i] = list[i]
    BY <1>1, <1>2, <1>5, <2>1
  <2>3. /\ \A i \in DOMAIN m : i = Len(list) + 1 \/ i \in DOMAIN list
        /\ \A i \in DOMAIN list : i \in DOMAIN m
        /\ Len(list) + 1 \in DOMAIN m
    BY <1>1, <2>2
  <2>4. \A i \in DOMAIN list : list[i].row # r
    BY <1>5
  <2>5. Good(m, versions)
    BY <1>3, <2>2, <2>3, <2>4 DEF Good
  <2>6. ToSet(m) = ToSet(list) \cup {Entry(r, v)}
    BY <2>2, <2>3 DEF ToSet
  <2>7. {e \in ToSet(list) : e.row # r} = ToSet(list)
    BY <2>4 DEF ToSet
  <2>8. QED
    BY <1>5, <2>5, <2>6, <2>7 DEF m
<1>6. CASE v # 0 /\ listed # {}
  <2> DEFINE k == Min(listed)
  <2>1. k \in listed
    <3>1. listed \subseteq Nat
      BY <1>1
    <3> HIDE DEF listed
    <3>2. QED
      BY <1>6, <3>1, LeastOfSome
  <2>2. m = [list EXCEPT ![k] = Entry(r, v)]
    BY <1>6 DEF Merged
  <2> HIDE DEF m, k
  <2>3. k \in DOMAIN list /\ list[k].row = r
    BY <2>1
  <2>4. /\ m \in Seq(Entries) /\ DOMAIN m = DOMAIN list
        /\ m[k] = Entry(r, v) /\ \A i \in DOMAIN list \ {k} : m[i] = list[i]
    BY <1>1, <1>2, <1>6, <2>2, <2>3
  <2>5. \A i \in DOMAIN list \ {k} : list[i].row # r
    BY <2>3 DEF Good
  <2>6. Good(m, versions)
    BY <1>3, <2>3, <2>4, <2>5 DEF Good
  <2>7. ToSet(m) = {e \in ToSet(list) : e.row # r} \cup {Entry(r, v)}
    BY <2>3, <2>4, <2>5 DEF ToSet
  <2>8. QED
    BY <1>6, <2>6, <2>7 DEF m
<1>7. QED
  BY <1>4, <1>5, <1>6

MirrorStages == {"idle", "refresh", "read", "main", "fill main", "copy", "fill copy"}

MirrorRecord == [pc : MirrorStages, row : Mirrored \cup {None},
                 version : 0 .. MaxCommits, list : Seq(Entries)]

Sane(m, versions) ==
  /\ m \in MirrorRecord
  /\ Good(m.list, versions)
  /\ m.pc = "idle" => m = MirrorIdle
  /\ m.pc # "idle" => m.row \in Mirrored /\ m.version <= versions[m.row]

SaneFile(g, versions) ==
  /\ g \in [list : Seq(Entries), whole : BOOLEAN]
  /\ Good(g.list, versions)
  /\ ~ g.whole => g.list = <<>>

MirrorTyped ==
  /\ copies \in BOOLEAN /\ disturbed \in BOOLEAN
  /\ version \in [Mirrored -> 0 .. MaxCommits]
  /\ erased \subseteq Mirrored
  /\ DOMAIN file = Files /\ file = [f \in Files |-> file[f]]
  /\ \A f \in Files : SaneFile(file[f], version)
  /\ mirroring \in [Workers -> MirrorRecord]
  /\ \A w \in Workers : Sane(mirroring[w], version)

LEMMA NoList ==
  ASSUME NEW versions
  PROVE  /\ Good(<<>>, versions)
         /\ Sane(MirrorIdle, versions) /\ MirrorIdle.pc = "idle"
         /\ SaneFile(Listing(<<>>, TRUE), versions) /\ SaneFile(Torn, versions)
<1>1. Good(<<>>, versions)
  BY DEF Good
<1>2. MirrorIdle \in MirrorRecord /\ MirrorIdle.pc = "idle" /\ MirrorIdle.list = <<>>
  BY MirrorBounds DEF MirrorIdle, MirrorAt, MirrorRecord, MirrorStages
<1>3. Sane(MirrorIdle, versions)
  BY <1>1, <1>2 DEF Sane
<1>4. SaneFile(Listing(<<>>, TRUE), versions) /\ SaneFile(Torn, versions)
  BY <1>1 DEF SaneFile, Listing, Torn
<1>5. QED
  BY <1>1, <1>2, <1>3, <1>4

(* What was committed stays so when there are more commits.                *)
LEMMA MoreCommits ==
  ASSUME NEW before \in [Mirrored -> 0 .. MaxCommits],
         NEW after \in [Mirrored -> 0 .. MaxCommits],
         \A r \in Mirrored : before[r] <= after[r]
  PROVE  /\ \A list : Good(list, before) => Good(list, after)
         /\ \A m : Sane(m, before) => Sane(m, after)
         /\ \A g : SaneFile(g, before) => SaneFile(g, after)
<1>1. ASSUME NEW list, Good(list, before) PROVE Good(list, after)
  <2>1. ASSUME NEW i \in DOMAIN list PROVE list[i].version <= after[list[i].row]
    <3>1. list[i] \in Entries /\ list[i].version <= before[list[i].row]
      BY <1>1, <2>1 DEF Good
    <3>2. list[i].row \in Mirrored /\ list[i].version \in Nat
      BY <3>1, MirrorBounds DEF Entries
    <3>3. /\ before[list[i].row] \in Nat /\ after[list[i].row] \in Nat
          /\ before[list[i].row] <= after[list[i].row]
      BY <3>2, MirrorBounds
    <3>4. QED
      BY <3>1, <3>2, <3>3
  <2>2. QED
    BY <1>1, <2>1 DEF Good
<1>2. ASSUME NEW m, Sane(m, before) PROVE Sane(m, after)
  <2>1. m.pc # "idle" => m.version <= after[m.row]
    <3> SUFFICES ASSUME m.pc # "idle" PROVE m.version <= after[m.row]
      OBVIOUS
    <3>1. m.row \in Mirrored /\ m.version \in Nat /\ m.version <= before[m.row]
      BY <1>2, MirrorBounds DEF Sane, MirrorRecord
    <3>2. /\ before[m.row] \in Nat /\ after[m.row] \in Nat
          /\ before[m.row] <= after[m.row]
      BY <3>1, MirrorBounds
    <3>3. QED
      BY <3>1, <3>2
  <2>2. QED
    BY <1>1, <1>2, <2>1 DEF Sane
<1>3. ASSUME NEW g, SaneFile(g, before) PROVE SaneFile(g, after)
  BY <1>1, <1>3 DEF SaneFile
<1>4. QED
  BY <1>1, <1>2, <1>3

LEMMA GotoSane ==
  ASSUME MirrorTyped, NEW w \in Workers, NEW m, Sane(m, version), MirrorGoto(w, m)
  PROVE  /\ mirroring' \in [Workers -> MirrorRecord]
         /\ \A x \in Workers : Sane(mirroring'[x], version)
<1>1. m \in MirrorRecord
  BY DEF Sane
<1>2. mirroring' = [mirroring EXCEPT ![w] = m]
  BY DEF MirrorGoto
<1>3. QED
  BY <1>1, <1>2 DEF MirrorTyped

LEMMA WriteSane ==
  ASSUME MirrorTyped, NEW f \in Files, NEW g, SaneFile(g, version),
         file' = [file EXCEPT ![f] = g]
  PROVE  /\ DOMAIN file' = Files /\ file' = [h \in Files |-> file'[h]]
         /\ \A h \in Files : SaneFile(file'[h], version)
BY DEF MirrorTyped

(* A list, and where it is, of a handler.                                  *)
LEMMA FieldsOfMirroring ==
  ASSUME MirrorTyped, NEW w \in Workers, mirroring[w].pc # "idle"
  PROVE  /\ mirroring[w] \in MirrorRecord
         /\ mirroring[w].row \in Mirrored
         /\ mirroring[w].version \in 0 .. MaxCommits
         /\ mirroring[w].version <= version[mirroring[w].row]
         /\ Good(mirroring[w].list, version)
<1>1. Sane(mirroring[w], version)
  BY DEF MirrorTyped
<1>2. QED
  BY <1>1 DEF Sane, MirrorRecord

LEMMA BumpGrows ==
  ASSUME MirrorTyped, NEW r \in Mirrored, version[r] < MaxCommits,
         version' = [version EXCEPT ![r] = @ + 1]
  PROVE  /\ version' \in [Mirrored -> 0 .. MaxCommits]
         /\ version'[r] = version[r] + 1
         /\ \A x \in Mirrored \ {r} : version'[x] = version[x]
         /\ \A x \in Mirrored : version[x] <= version'[x]
         /\ \A m : Sane(m, version) => Sane(m, version')
         /\ \A g : SaneFile(g, version) => SaneFile(g, version')
<1>1. version \in [Mirrored -> 0 .. MaxCommits]
  BY DEF MirrorTyped
<1>2. version[r] + 1 \in 0 .. MaxCommits
  BY <1>1, MirrorBounds
<1>3. /\ version' \in [Mirrored -> 0 .. MaxCommits]
      /\ version'[r] = version[r] + 1
      /\ \A x \in Mirrored \ {r} : version'[x] = version[x]
  BY <1>1, <1>2
<1>4. \A x \in Mirrored : version[x] <= version'[x]
  <2>1. ASSUME NEW x \in Mirrored PROVE version[x] <= version'[x]
    <3>1. version[x] \in Nat /\ version'[x] \in {version[x], version[x] + 1}
      BY <1>1, <1>3, MirrorBounds
    <3>2. QED
      BY <3>1
  <2>2. QED
    BY <2>1
<1>5. QED
  BY <1>1, <1>3, <1>4, MoreCommits

LEMMA CommitKeepsMirrors ==
  ASSUME MirrorTyped, NEW w \in Workers, NEW r \in Mirrored, CommitRow(w, r)
  PROVE  MirrorTyped'
<1> DEFINE m == MirrorAt("refresh", r, 0, <<>>)
<1>1. /\ version[r] < MaxCommits /\ version' = [version EXCEPT ![r] = @ + 1]
      /\ mirroring' = [mirroring EXCEPT ![w] = m]
      /\ copies' = copies /\ erased' = erased /\ file' = file
  BY DEF CommitRow, MirrorGoto
<1>2. disturbed' \in BOOLEAN
  <2>1. disturbed' = (disturbed \/ Crowded(w))
    BY DEF CommitRow
  <2>2. QED
    BY <2>1, Zenon
<1>3. Sane(m, version')
  <2>1. /\ m \in MirrorRecord /\ m.row = r /\ m.version = 0 /\ m.list = <<>>
        /\ m.pc = "refresh"
    BY MirrorBounds DEF MirrorAt, MirrorRecord, MirrorStages
  <2>2. 0 <= version'[r]
    <3>1. version' \in [Mirrored -> 0 .. MaxCommits]
      BY <1>1, BumpGrows
    <3>2. QED
      BY <3>1, MirrorBounds
  <2> HIDE DEF m
  <2>3. QED
    BY <2>1, <2>2, NoList DEF Sane
<1> HIDE DEF m
<1>4. mirroring' \in [Workers -> MirrorRecord] /\ \A x \in Workers : Sane(mirroring'[x], version')
  <2>1. m \in MirrorRecord
    BY <1>3 DEF Sane
  <2>2. \A x \in Workers : Sane(mirroring[x], version')
    BY <1>1, BumpGrows DEF MirrorTyped
  <2>3. QED
    BY <1>1, <1>3, <2>1, <2>2 DEF MirrorTyped
<1>5. \A f \in Files : SaneFile(file'[f], version')
  BY <1>1, BumpGrows DEF MirrorTyped
<1>6. QED
  BY <1>1, <1>2, <1>4, <1>5, BumpGrows DEF MirrorTyped

LEMMA EraseKeepsMirrors ==
  ASSUME MirrorTyped, NEW w \in Workers, NEW r \in Mirrored, EraseRow(w, r)
  PROVE  MirrorTyped'
<1> DEFINE m == MirrorAt("read", r, 0, <<>>)
<1>1. /\ erased' = erased \cup {r} /\ MirrorGoto(w, m)
      /\ copies' = copies /\ version' = version /\ file' = file
  BY DEF EraseRow
<1>2. disturbed' \in BOOLEAN
  <2>1. disturbed' = (disturbed \/ Crowded(w))
    BY DEF EraseRow
  <2>2. QED
    BY <2>1, Zenon
<1>3. Sane(m, version)
  <2>1. /\ m \in MirrorRecord /\ m.row = r /\ m.version = 0 /\ m.list = <<>>
        /\ m.pc = "read"
    BY MirrorBounds DEF MirrorAt, MirrorRecord, MirrorStages
  <2>2. 0 <= version[r]
    BY MirrorBounds DEF MirrorTyped
  <2> HIDE DEF m
  <2>3. QED
    BY <2>1, <2>2, NoList DEF Sane
<1> HIDE DEF m
<1>4. mirroring' \in [Workers -> MirrorRecord] /\ \A x \in Workers : Sane(mirroring'[x], version')
  BY <1>1, <1>3, GotoSane
<1>5. QED
  BY <1>1, <1>2, <1>4 DEF MirrorTyped

LEMMA RefreshKeepsMirrors ==
  ASSUME MirrorTyped, NEW w \in Workers, RefreshRow(w)
  PROVE  MirrorTyped'
<1> DEFINE m == [mirroring[w] EXCEPT !.pc = "read", !.version = version[mirroring[w].row]]
<1>1. /\ mirroring[w].pc = "refresh" /\ MirrorGoto(w, m)
      /\ UNCHANGED <<copies, version, erased, file, disturbed>>
  BY DEF RefreshRow
<1>2. Sane(m, version)
  <2>1. /\ mirroring[w] \in MirrorRecord /\ mirroring[w].row \in Mirrored
        /\ Good(mirroring[w].list, version)
    BY <1>1, FieldsOfMirroring
  <2>2. version[mirroring[w].row] \in 0 .. MaxCommits
    BY <2>1 DEF MirrorTyped
  <2>3. /\ m \in MirrorRecord /\ m.row = mirroring[w].row /\ m.pc = "read"
        /\ m.list = mirroring[w].list /\ m.version = version[mirroring[w].row]
    BY <2>1, <2>2 DEF MirrorRecord, MirrorStages
  <2> HIDE DEF m
  <2>4. m.version <= version[m.row]
    BY <2>2, <2>3, MirrorBounds
  <2>5. QED
    BY <2>1, <2>3, <2>4 DEF Sane
<1> HIDE DEF m
<1>3. QED
  BY <1>1, <1>2, GotoSane DEF MirrorTyped

LEMMA ReadKeepsMirrors ==
  ASSUME MirrorTyped, NEW w \in Workers, ReadFile(w)
  PROVE  MirrorTyped'
<1> DEFINE m == mirroring[w]
           n == [m EXCEPT !.pc = "main", !.list = Merged(file["main"].list, m.row, m.version)]
<1>1. m.pc = "read" /\ UNCHANGED <<copies, version, erased, file>>
  BY DEF ReadFile
<1>2. /\ m \in MirrorRecord /\ m.row \in Mirrored /\ m.version \in 0 .. MaxCommits
      /\ m.version <= version[m.row]
  BY <1>1, FieldsOfMirroring
<1>3. Sane(n, version)
  <2>1. "main" \in Files /\ SaneFile(file["main"], version)
    BY DEF Files, MirrorTyped
  <2>2. Good(Merged(file["main"].list, m.row, m.version), version)
    BY <1>2, <2>1, MergedList DEF MirrorTyped, SaneFile
  <2>3. /\ n \in MirrorRecord /\ n.row = m.row /\ n.version = m.version /\ n.pc = "main"
        /\ n.list = Merged(file["main"].list, m.row, m.version)
    BY <1>2, <2>2 DEF MirrorRecord, MirrorStages, Good
  <2> HIDE DEF n
  <2>4. QED
    BY <1>2, <2>2, <2>3 DEF Sane
<1> HIDE DEF n
<1>4. /\ mirroring' \in [Workers -> MirrorRecord]
      /\ \A x \in Workers : Sane(mirroring'[x], version)
      /\ disturbed' \in BOOLEAN
  <2>1. CASE file["main"].whole
    <3>1. MirrorGoto(w, n) /\ disturbed' = disturbed
      BY <2>1 DEF ReadFile, n
    <3>2. QED
      BY <1>3, <3>1, GotoSane DEF MirrorTyped
  <2>2. CASE ~ file["main"].whole
    <3>1. MirrorGoto(w, MirrorIdle) /\ disturbed' = TRUE
      BY <2>2 DEF ReadFile
    <3>2. QED
      BY <3>1, NoList, GotoSane
  <2>3. QED
    BY <2>1, <2>2
<1>5. QED
  BY <1>1, <1>4 DEF MirrorTyped

LEMMA MovedSane ==
  ASSUME MirrorTyped, NEW w \in Workers, mirroring[w].pc # "idle",
         NEW p \in MirrorStages \ {"idle"}
  PROVE  LET m == mirroring[w]  n == [m EXCEPT !.pc = p]
         IN  Sane(n, version) /\ n.pc = p /\ n.row = m.row /\ n.version = m.version /\ n.list = m.list
<1> DEFINE m == mirroring[w]
           n == [m EXCEPT !.pc = p]
<1>1. /\ m \in MirrorRecord /\ m.row \in Mirrored /\ m.version <= version[m.row]
      /\ Good(m.list, version)
  BY FieldsOfMirroring
<1>2. /\ n \in MirrorRecord /\ n.pc = p /\ n.row = m.row /\ n.version = m.version
      /\ n.list = m.list
  BY <1>1 DEF MirrorRecord
<1> HIDE DEF n
<1>3. Sane(n, version)
  BY <1>1, <1>2 DEF Sane
<1>4. QED
  BY <1>2, <1>3 DEF n

LEMMA TruncateKeepsMirrors ==
  ASSUME MirrorTyped, NEW w \in Workers, Truncate(w)
  PROVE  MirrorTyped'
<1> DEFINE m == mirroring[w]
           p == IF m.pc = "main" THEN "fill main" ELSE "fill copy"
<1>1. /\ m.pc \in Files /\ file' = [file EXCEPT ![m.pc] = Listing(<<>>, TRUE)]
      /\ MirrorGoto(w, [m EXCEPT !.pc = p])
      /\ UNCHANGED <<copies, version, erased, disturbed>>
  BY DEF Truncate
<1>2. m.pc # "idle" /\ p \in MirrorStages \ {"idle"}
  BY <1>1 DEF Files, MirrorStages
<1>3. Sane([m EXCEPT !.pc = p], version)
  BY <1>2, MovedSane
<1>4. QED
  BY <1>1, <1>3, GotoSane, WriteSane, NoList DEF MirrorTyped

(* What Fill leaves in a file.                                             *)
LEMMA FilledSane ==
  ASSUME MirrorTyped, NEW w \in Workers, mirroring[w].pc # "idle",
         NEW f \in Files, NEW g \in Filled(w, f)
  PROVE  SaneFile(g, version)
<1>1. g = Listing(mirroring[w].list, TRUE) \/ g = Torn
  BY DEF Filled
<1>2. Good(mirroring[w].list, version)
  BY FieldsOfMirroring
<1>3. SaneFile(Listing(mirroring[w].list, TRUE), version)
  BY <1>2 DEF SaneFile, Listing, Good
<1>4. QED
  BY <1>1, <1>3, NoList

LEMMA FillKeepsMirrors ==
  ASSUME MirrorTyped, NEW w \in Workers, Fill(w)
  PROVE  MirrorTyped'
<1> DEFINE m == mirroring[w]
<1>1. UNCHANGED <<copies, version, erased, disturbed>>
  BY DEF Fill
<1>2. CASE /\ m.pc = "fill main"
           /\ \E l \in Filled(w, "main") : file' = [file EXCEPT !["main"] = l]
           /\ MirrorGoto(w, IF copies THEN [m EXCEPT !.pc = "copy"] ELSE MirrorIdle)
  <2>1. PICK l \in Filled(w, "main") : file' = [file EXCEPT !["main"] = l]
    BY <1>2
  <2>2. "main" \in Files /\ m.pc # "idle" /\ "copy" \in MirrorStages \ {"idle"}
    BY <1>2 DEF Files, MirrorStages
  <2>3. SaneFile(l, version)
    BY <2>2, FilledSane
  <2>4. Sane([m EXCEPT !.pc = "copy"], version) /\ Sane(MirrorIdle, version)
    BY <2>2, MovedSane, NoList
  <2>5. /\ mirroring' \in [Workers -> MirrorRecord]
        /\ \A x \in Workers : Sane(mirroring'[x], version)
    <3>1. CASE copies
      BY <1>2, <2>4, <3>1, GotoSane
    <3>2. CASE ~ copies
      BY <1>2, <2>4, <3>2, GotoSane
    <3>3. QED
      BY <3>1, <3>2
  <2>6. QED
    BY <1>1, <2>1, <2>2, <2>3, <2>5, WriteSane DEF MirrorTyped
<1>3. CASE /\ m.pc = "fill copy"
           /\ \E l \in Filled(w, "copy") : file' = [file EXCEPT !["copy"] = l]
           /\ MirrorGoto(w, MirrorIdle)
  <2>1. PICK l \in Filled(w, "copy") : file' = [file EXCEPT !["copy"] = l]
    BY <1>3
  <2>2. "copy" \in Files /\ m.pc # "idle"
    BY <1>3 DEF Files
  <2>3. SaneFile(l, version)
    BY <2>2, FilledSane
  <2>4. /\ mirroring' \in [Workers -> MirrorRecord]
        /\ \A x \in Workers : Sane(mirroring'[x], version)
    BY <1>3, NoList, GotoSane
  <2>5. QED
    BY <1>1, <2>1, <2>2, <2>3, <2>4, WriteSane DEF MirrorTyped
<1>4. QED
  BY <1>2, <1>3 DEF Fill

LEMMA FailureKeepsMirrors ==
  ASSUME MirrorTyped, NEW w \in Workers, MirrorFails(w)
  PROVE  MirrorTyped'
<1>1. /\ MirrorGoto(w, MirrorIdle) /\ disturbed' = TRUE
      /\ UNCHANGED <<copies, version, erased>>
  BY DEF MirrorFails
<1>2. /\ mirroring' \in [Workers -> MirrorRecord]
      /\ \A x \in Workers : Sane(mirroring'[x], version)
  BY <1>1, NoList, GotoSane
<1>3. /\ DOMAIN file' = Files /\ file' = [h \in Files |-> file'[h]]
      /\ \A h \in Files : SaneFile(file'[h], version)
  <2>1. file' = file \/ \E f \in Files : file' = [file EXCEPT ![f] = Torn]
    BY DEF MirrorFails, Files
  <2>2. QED
    BY <2>1, NoList, WriteSane DEF MirrorTyped
<1>4. QED
  BY <1>1, <1>2, <1>3 DEF MirrorTyped

LEMMA StepKeepsMirrors ==
  ASSUME MirrorTyped, [MirrorNext]_mirrorVars
  PROVE  MirrorTyped'
<1>1. CASE UNCHANGED mirrorVars
  BY <1>1 DEF MirrorTyped, mirrorVars
<1>2. ASSUME NEW w \in Workers, NEW r \in Mirrored, CommitRow(w, r) PROVE MirrorTyped'
  BY <1>2, CommitKeepsMirrors
<1>3. ASSUME NEW w \in Workers, NEW r \in Mirrored, EraseRow(w, r) PROVE MirrorTyped'
  BY <1>3, EraseKeepsMirrors
<1>4. ASSUME NEW w \in Workers, RefreshRow(w) PROVE MirrorTyped'
  BY <1>4, RefreshKeepsMirrors
<1>5. ASSUME NEW w \in Workers, ReadFile(w) PROVE MirrorTyped'
  BY <1>5, ReadKeepsMirrors
<1>6. ASSUME NEW w \in Workers, Truncate(w) PROVE MirrorTyped'
  BY <1>6, TruncateKeepsMirrors
<1>7. ASSUME NEW w \in Workers, Fill(w) PROVE MirrorTyped'
  BY <1>7, FillKeepsMirrors
<1>8. ASSUME NEW w \in Workers, MirrorFails(w) PROVE MirrorTyped'
  BY <1>8, FailureKeepsMirrors
<1>9. QED
  BY <1>1, <1>2, <1>3, <1>4, <1>5, <1>6, <1>7, <1>8 DEF MirrorNext

(* What the files should show.                                             *)
CommittedOf(vs, gone) == {Entry(r, vs[r]) : r \in {x \in Mirrored \ gone : vs[x] > 0}}

Committed == CommittedOf(version, erased)

OthersOf(set, r) == {e \in set : e.row # r}

(* Where a handler is that nobody disturbs: before it reads, the file is   *)
(* right in all rows but its own; from then on its list is right.          *)
Undisturbed(w) ==
  LET m == mirroring[w] IN
  /\ m.pc \in {"refresh", "read"} =>
       OthersOf(ToSet(file["main"].list), m.row) = OthersOf(Committed, m.row)
  /\ m.pc = "refresh" => m.row \notin erased /\ version[m.row] > 0
  /\ m.pc = "read" =>
       IF m.row \in erased THEN m.version = 0
       ELSE m.version = version[m.row] /\ m.version > 0
  /\ m.pc \notin {"idle", "refresh", "read"} => ToSet(m.list) = Committed
  /\ m.pc = "fill main" => file["main"] = Listing(<<>>, TRUE)
  /\ m.pc = "fill copy" => file["copy"] = Listing(<<>>, TRUE)
  /\ m.pc \in {"copy", "fill copy"} => copies /\ ToSet(file["main"].list) = Committed

Alone(w) == \A x \in Workers \ {w} : mirroring[x] = MirrorIdle

AllIdle == \A x \in Workers : mirroring[x] = MirrorIdle

AllWhole == \A f \in Files : file[f].whole

FilesFollow == \A f \in (IF copies THEN Files ELSE {"main"}) : ToSet(file[f].list) = Committed

MirrorQuiet ==
  ~ disturbed =>
    /\ AllWhole
    /\ AllIdle => FilesFollow
    /\ \A w \in Workers : mirroring[w] # MirrorIdle => Alone(w) /\ Undisturbed(w)

(* The rows but one, after a commit of that one.                           *)
LEMMA OthersStay ==
  ASSUME NEW r \in Mirrored, NEW vs, NEW ws, NEW gone, NEW lost,
         \A x \in Mirrored \ {r} : vs[x] = ws[x] /\ (x \in gone <=> x \in lost)
  PROVE  OthersOf(CommittedOf(vs, gone), r) = OthersOf(CommittedOf(ws, lost), r)
<1>1. \A x, v : Entry(x, v).row = x
  BY DEF Entry
<1>2. QED
  BY <1>1 DEF OthersOf, CommittedOf

LEMMA OwnEntry ==
  ASSUME MirrorTyped, NEW r \in Mirrored
  PROVE  Committed = OthersOf(Committed, r)
           \cup (IF r \in erased \/ ~ (version[r] > 0) THEN {} ELSE {Entry(r, version[r])})
<1>1. \A x, v : Entry(x, v).row = x
  BY DEF Entry
<1>2. QED
  BY <1>1 DEF OthersOf, Committed, CommittedOf

(* The handler that moves is the only one.                                 *)
LEMMA QuietBy ==
  ASSUME MirrorTyped, NEW w \in Workers, NEW m, MirrorGoto(w, m),
         ~ disturbed' => /\ Alone(w) /\ AllWhole'
                         /\ IF mirroring'[w] = MirrorIdle THEN FilesFollow' ELSE Undisturbed(w)'
  PROVE  MirrorQuiet'
<1> SUFFICES ASSUME ~ disturbed'
             PROVE  /\ AllWhole'
                    /\ AllIdle' => FilesFollow'
                    /\ \A x \in Workers :
                         mirroring'[x] # MirrorIdle => Alone(x)' /\ Undisturbed(x)'
  BY DEF MirrorQuiet
<1>1. \A x \in Workers \ {w} : mirroring'[x] = MirrorIdle
  BY DEF MirrorTyped, MirrorGoto, Alone
<1>2. AllIdle' => FilesFollow'
  BY DEF AllIdle
<1>3. ASSUME NEW x \in Workers, mirroring'[x] # MirrorIdle
      PROVE  Alone(x)' /\ Undisturbed(x)'
  <2>1. x = w
    BY <1>1, <1>3
  <2>2. Alone(x)'
    BY <1>1, <2>1 DEF Alone
  <2>3. QED
    BY <1>3, <2>1, <2>2
<1>4. QED
  BY <1>2, <1>3

LEMMA BusyIsAlone ==
  ASSUME MirrorTyped, MirrorQuiet, ~ disturbed, NEW w \in Workers, mirroring[w].pc # "idle"
  PROVE  Alone(w) /\ Undisturbed(w) /\ AllWhole
<1>1. mirroring[w] # MirrorIdle
  BY NoList
<1>2. QED
  BY <1>1 DEF MirrorQuiet

LEMMA GoneTo ==
  ASSUME MirrorTyped, NEW w \in Workers, NEW m, MirrorGoto(w, m)
  PROVE  mirroring'[w] = m
BY DEF MirrorTyped, MirrorGoto

(* A handler starts when all is idle, or disturbs.                         *)
LEMMA StartsAlone ==
  ASSUME MirrorTyped, MirrorQuiet, NEW w \in Workers, mirroring[w] = MirrorIdle,
         ~ (disturbed \/ Crowded(w))
  PROVE  Alone(w) /\ AllWhole /\ ToSet(file["main"].list) = Committed
<1>1. Alone(w) /\ AllIdle
  BY DEF Crowded, Alone, AllIdle
<1>2. AllWhole /\ FilesFollow
  BY <1>1 DEF MirrorQuiet
<1>3. "main" \in (IF copies THEN Files ELSE {"main"})
  BY DEF Files
<1>4. QED
  BY <1>1, <1>2, <1>3 DEF FilesFollow

LEMMA CommitKeepsQuiet ==
  ASSUME MirrorTyped, MirrorQuiet, NEW w \in Workers, NEW r \in Mirrored, CommitRow(w, r)
  PROVE  MirrorQuiet'
<1> DEFINE m == MirrorAt("refresh", r, 0, <<>>)
<1>1. /\ mirroring[w] = MirrorIdle /\ r \notin erased
      /\ version[r] < MaxCommits /\ version' = [version EXCEPT ![r] = @ + 1]
      /\ disturbed' = (disturbed \/ Crowded(w)) /\ MirrorGoto(w, m)
      /\ copies' = copies /\ erased' = erased /\ file' = file
  BY DEF CommitRow
<1>2. m.pc = "refresh" /\ m.row = r
  BY DEF MirrorAt
<1> HIDE DEF m
<1>3. ASSUME ~ disturbed'
      PROVE  /\ Alone(w) /\ AllWhole'
             /\ IF mirroring'[w] = MirrorIdle THEN FilesFollow' ELSE Undisturbed(w)'
  <2>1. Alone(w) /\ AllWhole /\ ToSet(file["main"].list) = Committed
    BY <1>1, <1>3, StartsAlone
  <2>2. mirroring'[w] = m /\ m # MirrorIdle
    BY <1>1, <1>2, GoneTo, NoList
  <2>3. OthersOf(Committed, r) = OthersOf(Committed', r)
    <3>1. \A x \in Mirrored \ {r} : version[x] = version'[x] /\ (x \in erased <=> x \in erased')
      BY <1>1, BumpGrows
    <3>2. QED
      BY <3>1, OthersStay DEF Committed
  <2>4. version'[r] > 0
    <3>1. version'[r] = version[r] + 1 /\ version[r] \in Nat
      BY <1>1, BumpGrows, MirrorBounds DEF MirrorTyped
    <3>2. QED
      BY <3>1
  <2>5. Undisturbed(w)'
    BY <1>1, <1>2, <2>1, <2>2, <2>3, <2>4 DEF Undisturbed
  <2>6. AllWhole'
    BY <1>1, <2>1 DEF AllWhole
  <2>7. QED
    BY <2>1, <2>2, <2>5, <2>6
<1>4. QED
  BY <1>1, <1>3, QuietBy

LEMMA EraseKeepsQuiet ==
  ASSUME MirrorTyped, MirrorQuiet, NEW w \in Workers, NEW r \in Mirrored, EraseRow(w, r)
  PROVE  MirrorQuiet'
<1> DEFINE m == MirrorAt("read", r, 0, <<>>)
<1>1. /\ mirroring[w] = MirrorIdle /\ erased' = erased \cup {r}
      /\ disturbed' = (disturbed \/ Crowded(w)) /\ MirrorGoto(w, m)
      /\ copies' = copies /\ version' = version /\ file' = file
  BY DEF EraseRow
<1>2. m.pc = "read" /\ m.row = r /\ m.version = 0
  BY DEF MirrorAt
<1> HIDE DEF m
<1>3. ASSUME ~ disturbed'
      PROVE  /\ Alone(w) /\ AllWhole'
             /\ IF mirroring'[w] = MirrorIdle THEN FilesFollow' ELSE Undisturbed(w)'
  <2>1. Alone(w) /\ AllWhole /\ ToSet(file["main"].list) = Committed
    BY <1>1, <1>3, StartsAlone
  <2>2. mirroring'[w] = m /\ m # MirrorIdle
    BY <1>1, <1>2, GoneTo, NoList
  <2>3. OthersOf(Committed, r) = OthersOf(Committed', r)
    <3>1. \A x \in Mirrored \ {r} : version[x] = version'[x] /\ (x \in erased <=> x \in erased')
      BY <1>1
    <3>2. QED
      BY <3>1, OthersStay DEF Committed
  <2>4. Undisturbed(w)'
    BY <1>1, <1>2, <2>1, <2>2, <2>3 DEF Undisturbed
  <2>5. AllWhole'
    BY <1>1, <2>1 DEF AllWhole
  <2>6. QED
    BY <2>1, <2>2, <2>4, <2>5
<1>4. QED
  BY <1>1, <1>3, QuietBy

LEMMA RefreshKeepsQuiet ==
  ASSUME MirrorTyped, MirrorQuiet, NEW w \in Workers, RefreshRow(w)
  PROVE  MirrorQuiet'
<1> DEFINE m == mirroring[w]
           n == [m EXCEPT !.pc = "read", !.version = version[m.row]]
<1>1. /\ m.pc = "refresh" /\ MirrorGoto(w, n)
      /\ UNCHANGED <<copies, version, erased, file, disturbed>>
  BY DEF RefreshRow
<1>2. n.pc = "read" /\ n.row = m.row /\ n.version = version[m.row]
  <2>1. m \in MirrorRecord
    BY <1>1, FieldsOfMirroring
  <2>2. QED
    BY <2>1 DEF MirrorRecord
<1> HIDE DEF n
<1>3. ASSUME ~ disturbed'
      PROVE  /\ Alone(w) /\ AllWhole'
             /\ IF mirroring'[w] = MirrorIdle THEN FilesFollow' ELSE Undisturbed(w)'
  <2>1. Alone(w) /\ Undisturbed(w) /\ AllWhole
    BY <1>1, <1>3, BusyIsAlone
  <2>2. mirroring'[w] = n /\ n # MirrorIdle
    BY <1>1, <1>2, GoneTo, NoList
  <2>3. Committed' = Committed
    BY <1>1 DEF Committed
  <2>4. Undisturbed(w)'
    BY <1>1, <1>2, <2>1, <2>2, <2>3 DEF Undisturbed
  <2>5. AllWhole'
    BY <1>1, <2>1 DEF AllWhole
  <2>6. QED
    BY <2>1, <2>2, <2>4, <2>5
<1>4. QED
  BY <1>1, <1>3, QuietBy

LEMMA ReadKeepsQuiet ==
  ASSUME MirrorTyped, MirrorQuiet, NEW w \in Workers, ReadFile(w)
  PROVE  MirrorQuiet'
<1> DEFINE m == mirroring[w]
           list == Merged(file["main"].list, m.row, m.version)
           n == [m EXCEPT !.pc = "main", !.list = list]
<1>1. m.pc = "read" /\ UNCHANGED <<copies, version, erased, file>>
  BY DEF ReadFile
<1>2. ASSUME ~ file["main"].whole PROVE MirrorQuiet'
  <2>1. MirrorGoto(w, MirrorIdle) /\ disturbed' = TRUE
    BY <1>2 DEF ReadFile
  <2>2. QED
    BY <2>1 DEF MirrorQuiet
<1>3. ASSUME file["main"].whole PROVE MirrorQuiet'
  <2>1. MirrorGoto(w, n) /\ disturbed' = disturbed
    BY <1>3 DEF ReadFile
  <2>2. /\ m \in MirrorRecord /\ m.row \in Mirrored /\ m.version \in 0 .. MaxCommits
        /\ m.version <= version[m.row]
    BY <1>1, FieldsOfMirroring
  <2>3. n.pc = "main" /\ n.row = m.row /\ n.list = list
    BY <2>2 DEF MirrorRecord
  <2>4. "main" \in Files /\ Good(file["main"].list, version)
    BY DEF MirrorTyped, SaneFile, Files
  <2>5. ToSet(list) = OthersOf(ToSet(file["main"].list), m.row)
                        \cup (IF m.version = 0 THEN {} ELSE {Entry(m.row, m.version)})
    BY <2>2, <2>4, MergedList DEF OthersOf, MirrorTyped
  <2> HIDE DEF n, list
  <2>6. ASSUME ~ disturbed'
        PROVE  /\ Alone(w) /\ AllWhole'
               /\ IF mirroring'[w] = MirrorIdle THEN FilesFollow' ELSE Undisturbed(w)'
    <3>1. Alone(w) /\ Undisturbed(w) /\ AllWhole
      BY <1>1, <2>1, <2>6, BusyIsAlone
    <3>2. mirroring'[w] = n /\ n # MirrorIdle
      BY <2>1, <2>3, GoneTo, NoList
    <3>3. Committed' = Committed
      BY <1>1 DEF Committed
    <3>4. ToSet(list) = Committed
      <4>1. OthersOf(ToSet(file["main"].list), m.row) = OthersOf(Committed, m.row)
        BY <1>1, <3>1 DEF Undisturbed
      <4>2. /\ m.row \in erased => m.version = 0
            /\ m.row \notin erased => m.version = version[m.row] /\ m.version > 0
        BY <1>1, <3>1 DEF Undisturbed
      <4>3. (m.row \in erased \/ ~ (version[m.row] > 0)) <=> m.version = 0
        BY <4>2, <2>2
      <4>4. m.version # 0 => m.version = version[m.row]
        BY <4>2
      <4>5. QED
        BY <2>2, <2>5, <4>1, <4>3, <4>4, OwnEntry
    <3>5. Undisturbed(w)'
      BY <2>3, <3>2, <3>3, <3>4 DEF Undisturbed
    <3>6. AllWhole'
      BY <1>1, <3>1 DEF AllWhole
    <3>7. QED
      BY <3>1, <3>2, <3>5, <3>6
  <2>7. QED
    BY <2>1, <2>6, QuietBy
<1>4. QED
  BY <1>2, <1>3

LEMMA TruncateKeepsQuiet ==
  ASSUME MirrorTyped, MirrorQuiet, NEW w \in Workers, Truncate(w)
  PROVE  MirrorQuiet'
<1> DEFINE m == mirroring[w]
           p == IF m.pc = "main" THEN "fill main" ELSE "fill copy"
           n == [m EXCEPT !.pc = p]
<1>1. /\ m.pc \in {"main", "copy"} /\ file' = [file EXCEPT ![m.pc] = Listing(<<>>, TRUE)]
      /\ MirrorGoto(w, n)
      /\ UNCHANGED <<copies, version, erased, disturbed>>
  BY DEF Truncate, Files
<1>2. n.pc = p /\ n.list = m.list
  <2>1. m.pc # "idle" /\ p \in MirrorStages \ {"idle"}
    BY <1>1 DEF MirrorStages
  <2>2. QED
    BY <2>1, MovedSane
<1>3. /\ m.pc = "main" => p = "fill main"
      /\ m.pc = "copy" => p = "fill copy"
  OBVIOUS
<1> HIDE DEF n, p
<1>4. ASSUME ~ disturbed'
      PROVE  /\ Alone(w) /\ AllWhole'
             /\ IF mirroring'[w] = MirrorIdle THEN FilesFollow' ELSE Undisturbed(w)'
  <2>1. Alone(w) /\ Undisturbed(w) /\ AllWhole
    BY <1>1, <1>4, BusyIsAlone
  <2>2. mirroring'[w] = n /\ n # MirrorIdle
    BY <1>1, <1>2, <1>3, GoneTo, NoList
  <2>3. Committed' = Committed
    BY <1>1 DEF Committed
  <2>4. DOMAIN file = {"main", "copy"}
    BY DEF MirrorTyped, Files
  <2>5. Undisturbed(w)'
    <3>1. CASE m.pc = "main"
      BY <1>1, <1>2, <1>3, <2>1, <2>2, <2>3, <2>4, <3>1 DEF Undisturbed
    <3>2. CASE m.pc = "copy"
      <4>1. file'["main"] = file["main"] /\ file'["copy"] = Listing(<<>>, TRUE)
        BY <1>1, <2>4, <3>2
      <4>2. QED
        BY <1>1, <1>2, <1>3, <2>1, <2>2, <2>3, <3>2, <4>1 DEF Undisturbed
    <3>3. QED
      BY <1>1, <3>1, <3>2
  <2>6. AllWhole'
    BY <1>1, <2>1, <2>4 DEF AllWhole, Listing, Files
  <2>7. QED
    BY <2>1, <2>2, <2>5, <2>6
<1>5. QED
  BY <1>1, <1>4, QuietBy

(* What is filled in is whole when the file is as it was truncated.        *)
LEMMA FilledWhole ==
  ASSUME NEW w \in Workers, NEW f, file[f] = Listing(<<>>, TRUE), NEW l \in Filled(w, f)
  PROVE  l.whole /\ l.list = mirroring[w].list
BY DEF Filled, Listing

LEMMA FillKeepsQuiet ==
  ASSUME MirrorTyped, MirrorQuiet, NEW w \in Workers, Fill(w)
  PROVE  MirrorQuiet'
<1> DEFINE m == mirroring[w]
           n == [m EXCEPT !.pc = "copy"]
<1>1. /\ UNCHANGED <<copies, version, erased, disturbed>>
      /\ DOMAIN file = {"main", "copy"}
  BY DEF Fill, MirrorTyped, Files
<1>2. Committed' = Committed
  BY <1>1 DEF Committed
<1>3. CASE /\ m.pc = "fill main"
           /\ \E l \in Filled(w, "main") : file' = [file EXCEPT !["main"] = l]
           /\ MirrorGoto(w, IF copies THEN n ELSE MirrorIdle)
  <2>1. PICK l \in Filled(w, "main") : file' = [file EXCEPT !["main"] = l]
    BY <1>3
  <2>2. n.pc = "copy" /\ n.list = m.list
    BY <1>3, MovedSane DEF MirrorStages
  <2> HIDE DEF n
  <2>3. ASSUME ~ disturbed'
        PROVE  /\ Alone(w) /\ AllWhole'
               /\ IF mirroring'[w] = MirrorIdle THEN FilesFollow' ELSE Undisturbed(w)'
    <3>1. Alone(w) /\ Undisturbed(w) /\ AllWhole
      BY <1>1, <1>3, <2>3, BusyIsAlone
    <3>2. l.whole /\ l.list = m.list /\ ToSet(m.list) = Committed
      BY <1>3, <3>1, FilledWhole DEF Undisturbed
    <3>3. file'["main"] = l /\ file'["copy"] = file["copy"]
      BY <1>1, <2>1
    <3>4. AllWhole'
      BY <3>1, <3>2, <3>3 DEF AllWhole, Files
    <3>5. CASE copies
      <4>1. mirroring'[w] = n /\ n # MirrorIdle
        BY <1>3, <2>2, <3>5, GoneTo, NoList
      <4>2. Undisturbed(w)'
        BY <1>1, <1>2, <2>2, <3>2, <3>3, <3>5, <4>1 DEF Undisturbed
      <4>3. QED
        BY <3>1, <3>4, <4>1, <4>2
    <3>6. CASE ~ copies
      <4>1. mirroring'[w] = MirrorIdle
        BY <1>3, <3>6, GoneTo
      <4>2. FilesFollow'
        BY <1>1, <1>2, <3>2, <3>3, <3>6 DEF FilesFollow
      <4>3. QED
        BY <3>1, <3>4, <4>1, <4>2
    <3>7. QED
      BY <3>5, <3>6
  <2>4. QED
    BY <1>3, <2>3, QuietBy
<1>4. CASE /\ m.pc = "fill copy"
           /\ \E l \in Filled(w, "copy") : file' = [file EXCEPT !["copy"] = l]
           /\ MirrorGoto(w, MirrorIdle)
  <2>1. PICK l \in Filled(w, "copy") : file' = [file EXCEPT !["copy"] = l]
    BY <1>4
  <2>2. ASSUME ~ disturbed'
        PROVE  /\ Alone(w) /\ AllWhole'
               /\ IF mirroring'[w] = MirrorIdle THEN FilesFollow' ELSE Undisturbed(w)'
    <3>1. Alone(w) /\ Undisturbed(w) /\ AllWhole
      BY <1>1, <1>4, <2>2, BusyIsAlone
    <3>2. /\ l.whole /\ l.list = m.list /\ ToSet(m.list) = Committed
          /\ ToSet(file["main"].list) = Committed
      BY <1>4, <3>1, FilledWhole DEF Undisturbed
    <3>3. file'["copy"] = l /\ file'["main"] = file["main"]
      BY <1>1, <2>1
    <3>4. AllWhole'
      BY <3>1, <3>2, <3>3 DEF AllWhole, Files
    <3>5. mirroring'[w] = MirrorIdle
      BY <1>4, GoneTo
    <3>6. FilesFollow'
      BY <1>2, <3>2, <3>3 DEF FilesFollow, Files
    <3>7. QED
      BY <3>1, <3>4, <3>5, <3>6
  <2>3. QED
    BY <1>4, <2>2, QuietBy
<1>5. QED
  BY <1>3, <1>4 DEF Fill

LEMMA StepKeepsQuiet ==
  ASSUME MirrorTyped, MirrorQuiet, [MirrorNext]_mirrorVars
  PROVE  MirrorQuiet'
<1>1. CASE UNCHANGED mirrorVars
  BY <1>1 DEF mirrorVars, MirrorQuiet, AllWhole, AllIdle, FilesFollow, Alone, Undisturbed,
           Committed
<1>2. ASSUME NEW w \in Workers, NEW r \in Mirrored, CommitRow(w, r) PROVE MirrorQuiet'
  BY <1>2, CommitKeepsQuiet
<1>3. ASSUME NEW w \in Workers, NEW r \in Mirrored, EraseRow(w, r) PROVE MirrorQuiet'
  BY <1>3, EraseKeepsQuiet
<1>4. ASSUME NEW w \in Workers, RefreshRow(w) PROVE MirrorQuiet'
  BY <1>4, RefreshKeepsQuiet
<1>5. ASSUME NEW w \in Workers, ReadFile(w) PROVE MirrorQuiet'
  BY <1>5, ReadKeepsQuiet
<1>6. ASSUME NEW w \in Workers, Truncate(w) PROVE MirrorQuiet'
  BY <1>6, TruncateKeepsQuiet
<1>7. ASSUME NEW w \in Workers, Fill(w) PROVE MirrorQuiet'
  BY <1>7, FillKeepsQuiet
<1>8. ASSUME NEW w \in Workers, MirrorFails(w) PROVE MirrorQuiet'
  BY <1>8 DEF MirrorFails, MirrorQuiet
<1>9. QED
  BY <1>1, <1>2, <1>3, <1>4, <1>5, <1>6, <1>7, <1>8 DEF MirrorNext

MirrorInv == MirrorTyped /\ MirrorQuiet

LEMMA MirrorStart ==
  ASSUME MirrorInit
  PROVE  MirrorInv
<1>1. MirrorTyped
  <2>1. version \in [Mirrored -> 0 .. MaxCommits]
    BY MirrorBounds DEF MirrorInit
  <2>2. MirrorIdle \in MirrorRecord /\ Sane(MirrorIdle, version)
    BY NoList DEF Sane
  <2>3. SaneFile(Listing(<<>>, TRUE), version)
    BY NoList
  <2>4. QED
    BY <2>1, <2>2, <2>3 DEF MirrorInit, MirrorTyped
<1>2. MirrorQuiet
  <2>1. AllWhole /\ \A f \in Files : file[f].list = <<>>
    BY DEF MirrorInit, AllWhole, Listing
  <2>2. \A r \in Mirrored : ~ (version[r] > 0)
    BY DEF MirrorInit
  <2>3. Committed = {}
    BY <2>2 DEF Committed, CommittedOf
  <2>4. ToSet(<<>>) = {}
    BY DEF ToSet
  <2>5. FilesFollow
    BY <2>1, <2>3, <2>4 DEF FilesFollow, Files
  <2>6. QED
    BY <2>1, <2>5 DEF MirrorQuiet, MirrorInit
<1>3. QED
  BY <1>1, <1>2 DEF MirrorInv

(* The mirrors keep what MirrorsCorrect promises: no row twice, nothing    *)
(* that was not committed, and, when nothing disturbed them, exactly what  *)
(* the tables hold, however many handlers there are.                       *)
THEOREM MirrorsHold == MirrorSpec => []MirrorsCorrect
<1>1. MirrorInit => MirrorInv
  BY MirrorStart
<1>2. MirrorInv /\ [MirrorNext]_mirrorVars => MirrorInv'
  BY StepKeepsMirrors, StepKeepsQuiet DEF MirrorInv
<1>3. MirrorInv => MirrorsCorrect
  <2> SUFFICES ASSUME MirrorInv PROVE MirrorsCorrect
    OBVIOUS
  <2>1. MirrorTyped /\ MirrorQuiet
    BY DEF MirrorInv
  <2>2. \A f \in Files : SaneFile(file[f], version)
    BY <2>1 DEF MirrorTyped
  <2>3. MirrorTypeOK
    BY <2>1, <2>2 DEF MirrorTypeOK, MirrorTyped, MirrorRecord, SaneFile, Good, Entries
  <2>4. OneEntryEach /\ MirroredWasCommitted
    BY <2>2 DEF OneEntryEach, MirroredWasCommitted, SaneFile, Good
  <2>5. MirrorFollows
    BY <2>1 DEF MirrorFollows, MirrorQuiet, AllIdle, FilesFollow, Committed, CommittedOf
  <2>6. QED
    BY <2>3, <2>4, <2>5 DEF MirrorsCorrect
<1>4. QED
  BY <1>1, <1>2, <1>3, PTL DEF MirrorSpec

=============================================================================
