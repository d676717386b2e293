------------------------------- MODULE Sessions --------------------------------
(***************************************************************************)
(* Accounts and the token pairs issued to them.                            *)
(*                                                                         *)
(* An account is a versioned row: a handler loads it, and its UPDATE       *)
(* finds the row only at the version it loaded. A session is a chain of    *)
(* token pairs: a login or a registration issues the first, a refresh      *)
(* redeems the refresh token of one pair and issues the next. Redis holds  *)
(* the refresh tokens that may be redeemed and the tokens that are barred; *)
(* an entry lives as long as its token. Passwords are right or the request *)
(* leaves no trace; the limit on attempts is in Limits.                    *)
(*                                                                         *)
(* Every step of a handler between two awaits on PostgreSQL or Redis is    *)
(* one action, and any of them may be the last.                            *)
(***************************************************************************)
EXTENDS Handlers

CONSTANTS
  Users,        \* account rows, existing and to come
  Emails,       \* addresses accounts are registered under
  ChefEmail,    \* settings.chef_email
  MaxWrites     \* bound: updates of accounts and pairs issued

ASSUME SessionConstants ==
  /\ ChefEmail \in Emails
  /\ None \notin Users
  /\ MaxWrites \in Nat

VARIABLES
  account,      \* the rows of users
  pairs,        \* pairs issued: their owner and the pair they replace
  stored,       \* auth:refresh keys, by the pair's number
  barred,       \* auth:blacklist keys
  expired,      \* tokens whose exp has passed
  req           \* what each handler is at

vars == <<account, pairs, stored, barred, expired, req>>

Access(p) == <<p, "access">>
RefreshOf(p) == <<p, "refresh">>

Row(state, email, role, version) ==
  [state |-> state, email |-> email, role |-> role, version |-> version]

NoRow == Row("none", ChefEmail, "customer", 0)

(* pair: the pair presented, 0 for none. version: of the row as loaded.    *)
At(pc, user, pair, version, what) ==
  [pc |-> pc, user |-> user, pair |-> pair, version |-> version, what |-> what]

Idle == At("idle", None, 0, 0, None)

Edits == {"rename", "deactivate", "delete", "suspend", "restore"}

PCs == {"idle", "insert", "mark", "issue", "consume", "check", "sync", "bar",
        "barAccess", "revoke", "barRefresh", "edit", "boot"}

Init ==
  /\ account = [u \in Users |-> NoRow]
  /\ pairs = <<>>
  /\ stored = {} /\ barred = {} /\ expired = {}
  /\ req = [w \in Workers |-> Idle]

-----------------------------------------------------------------------------
Live(u) == account[u].state \in {"active", "inactive"}

ByEmail(e) == {u \in Users : Live(u) /\ account[u].email = e}

Goto(w, r) == req' = [req EXCEPT ![w] = r]

Finish(w) == Goto(w, Idle)

Advance(w, pc) == Goto(w, [req[w] EXCEPT !.pc = pc])

(* Mutant: a row is updated at whatever version it is. *)
FreshAlways(w) == TRUE

(* The UPDATE of a flush finds the row at the version that was loaded. *)
Fresh(w) == account[req[w].user].version = req[w].version

Writes == FoldFunction(LAMBDA row, n : row.version + n, Len(pairs), account)

Room == Writes < MaxWrites

Write(u, row) == account' = [account EXCEPT ![u] = row]

Edited(u) == [account[u] EXCEPT !.version = @ + 1]

-----------------------------------------------------------------------------
(* register *)
Register(w, e) ==
  /\ req[w] = Idle
  /\ ByEmail(e) = {}
  /\ Goto(w, At("insert", None, 0, 0, e))
  /\ UNCHANGED <<account, pairs, stored, barred, expired>>

(* Mutant: no unique index over the emails of accounts. *)
InsertsAnyway(e, role) ==
  {[account EXCEPT ![u] = Row("active", e, role, 1)] :
     u \in {v \in Users : account[v] = NoRow}}

(* Mutant: the row is inserted without its role. *)
InsertsRoleless(e, role) ==
  IF ByEmail(e) # {} \/ ~Room THEN {}
  ELSE {[account EXCEPT ![u] = Row("active", e, None, 1)] :
          u \in {v \in Users : account[v] = NoRow}}

(* What the table can be after an INSERT: the index over the emails of     *)
(* accounts that are not deleted decides.                                  *)
Inserts(e, role) ==
  IF ByEmail(e) # {} \/ ~Room THEN {}
  ELSE {[account EXCEPT ![u] = Row("active", e, role, 1)] :
          u \in {v \in Users : account[v] = NoRow}}

InsertUser(w) ==
  /\ req[w].pc = "insert"
  /\ \/ \E table \in Inserts(req[w].what, "customer"), u \in Users :
          /\ table[u] # account[u]
          /\ account' = table
          /\ Goto(w, At("issue", u, 0, 0, None))
     \/ ByEmail(req[w].what) # {} /\ UNCHANGED account /\ Finish(w)
  /\ UNCHANGED <<pairs, stored, barred, expired>>

(* login: an unknown or inactive account is refused. *)
Login(w, u) ==
  /\ req[w] = Idle /\ account[u].state = "active"
  /\ Goto(w, At("mark", u, 0, account[u].version, None))
  /\ UNCHANGED <<account, pairs, stored, barred, expired>>

(* The role is the chef's for the chef's email. *)
Synced(row) ==
  IF row.email = ChefEmail THEN [row EXCEPT !.role = "chef"] ELSE row

MarkLogin(w) ==
  /\ req[w].pc = "mark"
  /\ LET u == req[w].user IN
     \/ /\ Fresh(w) /\ Room
        /\ Write(u, Synced(Edited(u))) /\ Goto(w, At("issue", u, 0, 0, None))
     \/ ~Fresh(w) /\ UNCHANGED account /\ Finish(w)
  /\ UNCHANGED <<pairs, stored, barred, expired>>

(* _issue_tokens: encoded, stored, and only then handed out. *)
Issue(w) ==
  /\ req[w].pc = "issue" /\ Room
  /\ pairs' = Append(pairs, [owner |-> req[w].user, parent |-> req[w].pair])
  /\ stored' = stored \cup {Len(pairs) + 1}
  /\ Finish(w)
  /\ UNCHANGED <<account, barred, expired>>

-----------------------------------------------------------------------------
(* refresh *)
Refresh(w, p) ==
  /\ req[w] = Idle
  /\ RefreshOf(p) \notin expired \cup barred
  /\ Goto(w, At("consume", pairs[p].owner, p, 0, None))
  /\ UNCHANGED <<account, pairs, stored, barred, expired>>

(* Mutant: GET and DELETE instead of GETDEL: a token read twice is         *)
(* redeemed twice.                                                         *)
ConsumeLoosely(w) ==
  /\ req[w].pc = "consume"
  /\ stored' = stored \ {req[w].pair}
  /\ Advance(w, "check")
  /\ UNCHANGED <<account, pairs, barred, expired>>

Consume(w) ==
  /\ req[w].pc = "consume"
  /\ IF req[w].pair \in stored THEN Advance(w, "check") ELSE Finish(w)
  /\ stored' = stored \ {req[w].pair}
  /\ UNCHANGED <<account, pairs, barred, expired>>

(* An inactive owner is refused when the token is spent already. *)
CheckUser(w) ==
  /\ req[w].pc = "check"
  /\ LET row == account[req[w].user] IN
     IF row.state # "active" THEN Finish(w)
     ELSE IF Synced(row) = row THEN Advance(w, "bar")
     ELSE Goto(w, [req[w] EXCEPT !.pc = "sync", !.version = row.version])
  /\ UNCHANGED <<account, pairs, stored, barred, expired>>

SyncRole(w) ==
  /\ req[w].pc = "sync"
  /\ LET u == req[w].user IN
     \/ /\ Fresh(w) /\ Room
        /\ Write(u, Synced(Edited(u)))
        /\ Goto(w, At("bar", u, req[w].pair, 0, None))
     \/ ~Fresh(w) /\ UNCHANGED account /\ Finish(w)
  /\ UNCHANGED <<pairs, stored, barred, expired>>

BarOld(w) ==
  /\ req[w].pc = "bar"
  /\ barred' = barred \cup {RefreshOf(req[w].pair)}
  /\ Advance(w, "issue")
  /\ UNCHANGED <<account, pairs, stored, expired>>

-----------------------------------------------------------------------------
(* logout: what names the pair whose refresh token came in the body. *)
Logout(w, p, q) ==
  /\ req[w] = Idle
  /\ Access(p) \notin expired \cup barred
  /\ Goto(w, At("barAccess", None, p, 0, q))
  /\ UNCHANGED <<account, pairs, stored, barred, expired>>

(* A refresh token that has expired is not decoded, and ignored. *)
BarAccess(w) ==
  /\ req[w].pc = "barAccess"
  /\ barred' = barred \cup ({Access(req[w].pair)} \ expired)
  /\ IF req[w].what = None THEN Finish(w)
     ELSE IF RefreshOf(req[w].what) \in expired THEN Finish(w)
     ELSE Goto(w, At("revoke", None, 0, 0, req[w].what))
  /\ UNCHANGED <<account, pairs, stored, expired>>

(* Mutant: the refresh token is barred first and its key deleted after. *)
RevokeLate(w) ==
  /\ req[w].pc = "revoke"
  /\ barred' = barred \cup {RefreshOf(req[w].what)}
  /\ Advance(w, "barRefresh")
  /\ UNCHANGED <<account, pairs, stored, expired>>

Revoke(w) ==
  /\ req[w].pc = "revoke"
  /\ stored' = stored \ {req[w].what}
  /\ Advance(w, "barRefresh")
  /\ UNCHANGED <<account, pairs, barred, expired>>

BarRefresh(w) ==
  /\ req[w].pc = "barRefresh"
  /\ barred' = barred \cup ({RefreshOf(req[w].what)} \ expired)
  /\ Finish(w)
  /\ UNCHANGED <<account, pairs, stored, expired>>

-----------------------------------------------------------------------------
(* What the owner or the chef changes of an account. The chef's edits are  *)
(* for the accounts of customers.                                          *)
Edit(w, u, what) ==
  /\ req[w] = Idle /\ Live(u)
  /\ IF what \in {"suspend", "restore"} THEN account[u].role = "customer"
                                        ELSE account[u].state = "active"
  /\ Goto(w, At("edit", u, 0, account[u].version, what))
  /\ UNCHANGED <<account, pairs, stored, barred, expired>>

EditedRow(u, what) ==
  CASE what = "rename" -> Edited(u)
    [] what \in {"deactivate", "suspend"} -> [Edited(u) EXCEPT !.state = "inactive"]
    [] what = "restore" -> [Edited(u) EXCEPT !.state = "active"]
    [] what = "delete" -> [Edited(u) EXCEPT !.state = "deleted"]

SaveEdit(w) ==
  /\ req[w].pc = "edit"
  /\ LET u == req[w].user IN
     \/ /\ Fresh(w) /\ Room
        /\ Write(u, EditedRow(u, req[w].what))
     \/ ~Fresh(w) /\ UNCHANGED account
  /\ Finish(w)
  /\ UNCHANGED <<pairs, stored, barred, expired>>

(* ensure_chef_account, at the start of a process. *)
Boot(w) ==
  /\ req[w] = Idle
  /\ \/ \E u \in ByEmail(ChefEmail) :
          Goto(w, At("boot", u, 0, account[u].version, None))
     \/ ByEmail(ChefEmail) = {} /\ Goto(w, At("boot", None, 0, 0, None))
  /\ UNCHANGED <<account, pairs, stored, barred, expired>>

BootCommit(w) ==
  /\ req[w].pc = "boot"
  /\ LET u == req[w].user IN
     IF u = None
       THEN \/ account' \in Inserts(ChefEmail, "chef")
            \/ ByEmail(ChefEmail) # {} /\ UNCHANGED account
       ELSE \/ /\ Fresh(w) /\ Room
               /\ Write(u, [Edited(u) EXCEPT !.state = "active", !.role = "chef"])
            \/ ~Fresh(w) /\ UNCHANGED account
  /\ Finish(w)
  /\ UNCHANGED <<pairs, stored, barred, expired>>

-----------------------------------------------------------------------------
(* A Redis error, a lost connection or the end of the process. A failure   *)
(* in the second half of logout is answered as a success.                  *)
Abort(w) ==
  /\ req[w] # Idle
  /\ Finish(w)
  /\ UNCHANGED <<account, pairs, stored, barred, expired>>

(* Access tokens live for minutes, refresh tokens for days: those of a kind *)
(* expire in the order they were issued, and a pair's access token first.   *)
Expire(p) ==
  /\ \E token \in {Access(p), RefreshOf(p)} \ expired :
       /\ \A q \in 1 .. p - 1 : <<q, token[2]>> \in expired
       /\ token = RefreshOf(p) => Access(p) \in expired
       /\ expired' = expired \cup {token}
  /\ UNCHANGED <<account, pairs, stored, barred, req>>

(* Mutant: an entry expires before its token. *)
ForgetEarly(p) ==
  /\ barred' = barred \ {Access(p), RefreshOf(p)}
  /\ UNCHANGED <<account, pairs, stored, expired, req>>

(* A blacklist entry has the time its token still has, a stored token the  *)
(* lifetime of refresh tokens.                                             *)
Forget(p) ==
  /\ \/ Access(p) \in expired /\ barred' = barred \ {Access(p)} /\ UNCHANGED stored
     \/ /\ RefreshOf(p) \in expired
        /\ barred' = barred \ {RefreshOf(p)} /\ stored' = stored \ {p}
  /\ <<barred, stored>>' # <<barred, stored>>
  /\ UNCHANGED <<account, pairs, expired, req>>

Step(w) ==
  \/ InsertUser(w) \/ MarkLogin(w) \/ Issue(w)
  \/ Consume(w) \/ CheckUser(w) \/ SyncRole(w) \/ BarOld(w)
  \/ BarAccess(w) \/ Revoke(w) \/ BarRefresh(w)
  \/ SaveEdit(w) \/ BootCommit(w)
  \/ Abort(w)

Arrive(w) ==
  \/ Boot(w) \/ \E e \in Emails : Register(w, e)
  \/ \E u \in Users :
       \/ Login(w, u)
       \/ \E what \in Edits : Edit(w, u, what)
  \/ \E p \in DOMAIN pairs :
       \/ Refresh(w, p)
       \/ \E q \in (DOMAIN pairs) \cup {None} : Logout(w, p, q)

Next ==
  \/ \E w \in Workers : Arrive(w) \/ Step(w)
  \/ \E p \in DOMAIN pairs : Expire(p) \/ Forget(p)

Spec == Init /\ [][Next]_vars

-----------------------------------------------------------------------------
TypeOK ==
  /\ account \in [Users -> [state : {"none", "active", "inactive", "deleted"},
                            email : Emails, role : {"customer", "chef"},
                            version : Nat]]
  /\ pairs \in Seq([owner : Users, parent : Nat])
  /\ stored \subseteq DOMAIN pairs
  /\ barred \cup expired \subseteq (DOMAIN pairs) \X {"access", "refresh"}
  /\ \A w \in Workers :
       /\ req[w].pc \in PCs
       /\ req[w].pair \in 0 .. Len(pairs)

(* Whoever refreshes with one refresh token, at once or one after the      *)
(* other, gets at most one new pair for it.                                *)
OneHeir ==
  \A p, q \in DOMAIN pairs :
    pairs[p].parent = pairs[q].parent /\ pairs[p].parent # 0 => p = q

(* A refresh token that is barred, by a logout or by its own use, cannot   *)
(* be redeemed: whatever the order in which handlers stop.                 *)
BarredIsSpent == \A p \in stored : RefreshOf(p) \notin barred

(* Two accounts that are not deleted never share an email. *)
EmailUnique ==
  \A u, v \in Users :
    Live(u) /\ Live(v) /\ account[u].email = account[v].email => u = v

HasHeir(p) == \E q \in DOMAIN pairs : pairs[q].parent = p

(* Handlers that have redeemed p and have not answered. *)
Redeeming(p) ==
  \E w \in Workers : req[w].pair = p /\ req[w].pc \in {"check", "sync", "bar", "issue"}

(* Pair p is logged out: both tokens are of no use. *)
Ended(p) ==
  /\ Access(p) \in barred \cup expired
  /\ p \notin stored /\ ~HasHeir(p) /\ ~Redeeming(p)

(* A pair that is logged out, with nobody about to replace it, stays so:   *)
(* nothing revives its tokens and no later pair continues its session.     *)
LogoutIsFinal == [][\A p \in DOMAIN pairs : Ended(p) => Ended(p)']_vars

(* A login that was let in is one of an account that is active at the time *)
(* its UPDATE is committed, whatever happened to the account meanwhile.    *)
LoginsAreActive ==
  [][\A w \in Workers :
       req[w].pc = "mark" /\ req'[w].pc = "issue"
         => account[req[w].user].state = "active"]_vars

(* An account that is deactivated or deleted comes back only by the chef's *)
(* decision or as the chef's own, and never by a handler that had loaded   *)
(* it before.                                                              *)
ClosedStaysClosed ==
  [][\A u \in Users :
       account[u].state \in {"inactive", "deleted"} /\ account'[u].state = "active"
         => \E w \in Workers :
              /\ req[w].user = u /\ req'[w] = Idle
              /\ req[w].version = account[u].version
              /\ \/ req[w].pc = "boot"
                 \/ req[w].what = "restore"]_vars

(* All that is promised of sessions: a refresh token has one heir and is   *)
(* spent once barred, a logout is final, no email is taken twice, logins   *)
(* are those of active accounts, and a closed account stays closed,        *)
(* whichever handlers meet.                                                *)
SessionsCorrect ==
  /\ [](TypeOK /\ OneHeir /\ BarredIsSpent /\ EmailUnique)
  /\ LogoutIsFinal
  /\ LoginsAreActive
  /\ ClosedStaysClosed

=============================================================================
