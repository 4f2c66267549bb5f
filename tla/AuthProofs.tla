----------------------------- MODULE AuthProofs -----------------------------
(***************************************************************************)
(* What holds of Auth for every set of users, tokens and requests in       *)
(* flight, wherever they fail.                                             *)
(***************************************************************************)
EXTENDS AuthOverlaps, TLAPS

\* What a handler knows about its own request at each call
Asked(r) ==
    /\ r.op = "none" => r.pc \in {"idle", "stamp", "audit"}
    /\ r.op = "register" => r.pc \in {"insert", "session"} /\ r.token = Null
    /\ r.op = "provision" => r.pc = "insert"
    /\ r.op = "login" => r.pc = "session" /\ r.token = Null
    /\ r.op = "refresh" => r.pc \in {"revoke", "session"} /\ r.token \in Tokens
    /\ r.op = "logout" => r.pc = "revoke" /\ r.token \in Tokens
    /\ r.op = "forgot" => r.pc = "insert"
    /\ r.op = "confirm" => r.pc \in {"use", "find", "password", "revoke"} /\ r.token \in Resets
    /\ r.op = "status" => r.pc = "update" /\ r.status \in UserStatuses
    /\ r.op # "none" => r.user \in Users

\* What it knows of the rows, which other handlers may have changed since it read them
Found(r) ==
    /\ r.pc \in {"session", "update"} \/ r.op = "forgot" => users[r.user] # Null
    /\ r.op = "logout" => tokens[r.token] # Null
    /\ r.op = "refresh" =>
          /\ users[r.user] # Null
          /\ tokens[r.token] # Null /\ tokens[r.token].user = r.user
          /\ r.pc = "session" => tokens[r.token].state = "revoked"
    /\ r.op = "confirm" =>
          /\ users[r.user] # Null
          /\ resets[r.token] # Null /\ resets[r.token].user = r.user
          /\ r.pc # "use" => resets[r.token].state = "used"
    /\ r.new \in Tokens => tokens[r.new] # Null

\* The user of a token exists, and so does what was delivered.
OwnersKnown ==
    /\ \A t \in Tokens : tokens[t] # Null => users[tokens[t].user] # Null
    /\ \A r \in Resets : resets[r] # Null => users[resets[r].user] # Null
    /\ \A t \in delivered \cap Tokens : tokens[t] # Null

TypeInv ==
    /\ TypeOK
    /\ OwnersKnown
    /\ \A q \in Slots : Asked(req[q]) /\ Found(req[q])

USE NullAssumption, TargetAssumption, TokenAssumption, LowerCaseAssumption

LEMMA TypeInit == Init => TypeInv
  BY DEF Init, TypeInv, TypeOK, OwnersKnown, Asked, Found, Idle, Request, RequestType, OrNull,
     Ops, PCs, UserStatuses

\* Rows stay with their user; what is spent stays spent.
Kept ==
    /\ \A u \in Users : users[u] # Null => users'[u] # Null
    /\ \A t \in Tokens : tokens[t] # Null
          => /\ tokens'[t] # Null
             /\ tokens'[t].user = tokens[t].user /\ tokens'[t].from = tokens[t].from
             /\ tokens[t].state = "revoked" => tokens'[t].state = "revoked"
    /\ \A r \in Resets : resets[r] # Null
          => /\ resets'[r] # Null
             /\ resets'[r].user = resets[r].user
             /\ resets[r].state = "used" => resets'[r].state = "used"

LEMMA FoundKept ==
    ASSUME TypeInv, Kept, NEW r \in RequestType, Asked(r), Found(r)
    PROVE  Found(r)'
<1>1. /\ r.user \in Users /\ users[r.user] # Null => users'[r.user] # Null
      /\ r.new \in Tokens /\ tokens[r.new] # Null => tokens'[r.new] # Null
      /\ r.token \in Tokens /\ tokens[r.token] # Null
            => /\ tokens'[r.token] # Null /\ tokens'[r.token].user = tokens[r.token].user
               /\ tokens[r.token].state = "revoked" => tokens'[r.token].state = "revoked"
      /\ r.token \in Resets /\ resets[r.token] # Null
            => /\ resets'[r.token] # Null /\ resets'[r.token].user = resets[r.token].user
               /\ resets[r.token].state = "used" => resets'[r.token].state = "used"
  BY DEF Kept
<1>2. /\ r.pc \in {"session", "update"} \/ r.op = "forgot" => r.user \in Users
      /\ r.op \in {"logout", "refresh"} => r.user \in Users /\ r.token \in Tokens
      /\ r.op = "confirm" => r.user \in Users /\ r.token \in Resets
  BY DEF Asked, OrNull, RequestType, Ops, PCs
<1> QED BY <1>1, <1>2 DEF Found

\* A step of one handler keeps the invariant if its request stays in order and it
\* keeps the tables.
LEMMA RequestStep ==
    ASSUME TypeInv, Kept, NEW q \in Slots, NEW r \in RequestType, Asked(r), Found(r)',
           req' = [req EXCEPT ![q] = r],
           users' \in [Users -> OrNull(UserRow)],
           tokens' \in [Tokens -> OrNull(TokenRow)],
           resets' \in [Resets -> OrNull(ResetRow)],
           delivered' \subseteq Tokens \cup Resets,
           OwnersKnown'
    PROVE  TypeInv'
<1>1. TypeOK'
  BY DEF TypeInv, TypeOK
<1>2. ASSUME NEW p \in Slots PROVE (Asked(req[p]) /\ Found(req[p]))'
  <2>1. CASE p = q
    <3>1. req'[p] = r
      BY <2>1 DEF TypeInv, TypeOK
    <3> QED BY <3>1 DEF Asked, Found
  <2>2. CASE p # q
    <3>1. PICK x \in RequestType : x = req[p]
      BY DEF TypeInv, TypeOK
    <3>2. req'[p] = x /\ Asked(x) /\ Found(x)
      BY <2>2, <3>1 DEF TypeInv, TypeOK
    <3>3. Found(x)'
      BY <3>2, FoundKept
    <3> QED BY <3>2, <3>3 DEF Asked, Found
  <2> QED BY <2>1, <2>2
<1> QED BY <1>1, <1>2 DEF TypeInv

\* The request moves on, the tables stay.
LEMMA AwaitStep ==
    ASSUME TypeInv, NEW q \in Slots, NEW r \in RequestType, Asked(r), Found(r),
           req' = [req EXCEPT ![q] = r], UNCHANGED <<users, tokens, resets, delivered>>
    PROVE  TypeInv'
<1>1. Kept
  BY DEF Kept
<1>2. Found(r)' /\ OwnersKnown'
  BY <1>1, FoundKept DEF TypeInv, OwnersKnown
<1> QED BY <1>1, <1>2, RequestStep DEF TypeInv, TypeOK

LEMMA IdleInOrder == Idle \in RequestType /\ Asked(Idle) /\ Found(Idle) /\ Found(Idle)'
  BY DEF Idle, Request, RequestType, OrNull, Asked, Found, Ops, PCs, UserStatuses

LEMMA AnswerStep ==
    ASSUME TypeInv, NEW q \in Slots, Answer(q), UNCHANGED <<users, tokens, resets, delivered>>
    PROVE  TypeInv'
BY IdleInOrder, AwaitStep DEF Answer

\* What Request makes
LEMMA RequestFields ==
    ASSUME NEW op, NEW pc, NEW user, NEW token, NEW status
    PROVE  /\ Request(op, pc, user, token, status).op = op
           /\ Request(op, pc, user, token, status).pc = pc
           /\ Request(op, pc, user, token, status).user = user
           /\ Request(op, pc, user, token, status).token = token
           /\ Request(op, pc, user, token, status).status = status
           /\ Request(op, pc, user, token, status).new = Null
BY DEF Request

LEMMA BeginStep ==
    ASSUME TypeInv, NEW q \in Slots, NEW op \in Ops, NEW pc \in PCs, NEW user \in Users,
           NEW token \in OrNull(Tokens \cup Resets), NEW status \in OrNull(UserStatuses),
           Begin(q, op, pc, user, token, status), UNCHANGED <<users, tokens, resets, delivered>>,
           Asked(Request(op, pc, user, token, status)),
           Found(Request(op, pc, user, token, status))
    PROVE  TypeInv'
<1>1. Request(op, pc, user, token, status) \in RequestType
  BY DEF Request, RequestType, OrNull
<1> QED BY <1>1, AwaitStep DEF Begin

\* A handler that has nothing left but to log and to answer
LEMMA FinishStep ==
    ASSUME TypeInv, Kept, NEW q \in Slots, NEW pc \in {"stamp", "audit"},
           NEW new \in OrNull(Tokens \cup Resets), Finish(q, pc, new),
           new \in Tokens => tokens'[new] # Null,
           users' \in [Users -> OrNull(UserRow)],
           tokens' \in [Tokens -> OrNull(TokenRow)],
           resets' \in [Resets -> OrNull(ResetRow)],
           delivered' \subseteq Tokens \cup Resets,
           OwnersKnown'
    PROVE  TypeInv'
<1>1. PICK r : r = [Idle EXCEPT !.pc = pc, !.new = new]
  OBVIOUS
<1>2. r \in RequestType /\ r.op = "none" /\ r.pc = pc /\ r.new = new
  BY <1>1 DEF Idle, Request, RequestType, OrNull, PCs
<1>3. Asked(r) /\ Found(r)'
  BY <1>2 DEF Asked, Found
<1> QED BY <1>1, <1>2, <1>3, RequestStep DEF Finish

-----------------------------------------------------------------------------
LEMMA KeptStep ==
    ASSUME TypeInv, NEW q \in Slots, Step(q)
    PROVE  Kept
<1> USE DEF Kept
<1>0. /\ req[q] \in RequestType /\ Asked(req[q]) /\ Found(req[q])
      /\ users \in [Users -> OrNull(UserRow)] /\ tokens \in [Tokens -> OrNull(TokenRow)]
      /\ resets \in [Resets -> OrNull(ResetRow)]
  BY DEF TypeInv, TypeOK
<1>1. CASE UNCHANGED <<users, tokens, resets>>
  BY <1>1
<1>2. CASE CreateInsert(q)
  <2>1. UNCHANGED <<users, tokens, resets>> \/ users[Address(q)] = Null
    BY <1>2 DEF CreateInsert
  <2> QED BY <1>0, <1>2, <2>1, <1>1 DEF CreateInsert
<1>3. CASE RefreshRevoke(q) \/ LogoutRevoke(q)
  <2>1. req[q].token \in Tokens /\ tokens[req[q].token] # Null
    BY <1>0, <1>3 DEF RefreshRevoke, LogoutRevoke, AtCall, Asked, Found
  <2>2. tokens[req[q].token] \in TokenRow
    BY <1>0, <2>1 DEF OrNull
  <2>3. UNCHANGED <<users, resets>>
        /\ \/ tokens' = [tokens EXCEPT ![req[q].token].state = "revoked"]
           \/ tokens' = tokens
    BY <1>0, <1>3, <2>1 DEF RefreshRevoke, LogoutRevoke
  <2> QED BY <1>0, <2>1, <2>2, <2>3 DEF TokenRow, OrNull
<1>4. CASE OpenSession(q)
  <2>1. PICK t \in Tokens : /\ tokens[t] = Null /\ UNCHANGED <<users, resets>>
                            /\ tokens' = [tokens EXCEPT ![t] = NewToken(req[q])]
    BY <1>4 DEF OpenSession
  <2> QED BY <1>0, <2>1
<1>5. CASE ForgotInsert(q)
  <2>1. PICK r \in Resets : /\ resets[r] = Null /\ UNCHANGED <<users, tokens>>
                            /\ \E new : resets' = [resets EXCEPT ![r] = new]
    BY <1>5 DEF ForgotInsert
  <2> QED BY <1>0, <2>1
<1>6. CASE ConfirmUse(q)
  <2>1. req[q].token \in Resets /\ resets[req[q].token] # Null
    BY <1>0, <1>6 DEF ConfirmUse, AtCall, Asked, Found
  <2> QED BY <1>0, <1>6, <2>1 DEF ConfirmUse, OrNull, ResetRow
<1>7. CASE ConfirmPassword(q) \/ StatusUpdate(q)
  <2>1. req[q].user \in Users /\ users[req[q].user] # Null
    BY <1>0, <1>7 DEF ConfirmPassword, StatusUpdate, AtCall, Asked, Found
  <2>2. PICK row \in UserRow : users' = [users EXCEPT ![req[q].user] = row]
    <3>1. users[req[q].user] \in UserRow
      BY <1>0, <2>1 DEF OrNull
    <3>2. CASE ConfirmPassword(q)
      <4>1. PICK p \in Passwords : users' = [users EXCEPT ![req[q].user].password = p]
        BY <3>2 DEF ConfirmPassword
      <4>2. [users[req[q].user] EXCEPT !.password = p] \in UserRow
        BY <3>1 DEF UserRow
      <4> QED BY <4>1, <4>2
    <3>3. CASE StatusUpdate(q)
      <4>1. /\ users' = [users EXCEPT ![req[q].user].status = req[q].status]
            /\ req[q].status \in UserStatuses
        BY <1>0, <3>3 DEF StatusUpdate, AtCall, Asked
      <4>2. [users[req[q].user] EXCEPT !.status = req[q].status] \in UserRow
        BY <3>1, <4>1 DEF UserRow
      <4> QED BY <4>1, <4>2
    <3> QED BY <1>7, <3>2, <3>3
  <2> QED BY <1>0, <1>7, <2>1, <2>2 DEF ConfirmPassword, StatusUpdate
<1>8. CASE ConfirmRevoke(q)
  <2>1. UNCHANGED <<users, resets>> /\ tokens' = RevokedOf(req[q].user)
    BY <1>8 DEF ConfirmRevoke
  <2>2. ASSUME NEW t \in Tokens, tokens[t] # Null
        PROVE  /\ tokens'[t] # Null
               /\ tokens'[t].user = tokens[t].user /\ tokens'[t].from = tokens[t].from
               /\ tokens[t].state = "revoked" => tokens'[t].state = "revoked"
    <3>1. tokens[t] \in TokenRow
      BY <1>0, <2>2 DEF OrNull
    <3>2. CASE tokens'[t] = tokens[t]
      BY <2>2, <3>2
    <3>3. CASE tokens'[t] = [tokens[t] EXCEPT !.state = "revoked"]
      <4>1. tokens'[t] \in TokenRow
        BY <3>1, <3>3 DEF TokenRow
      <4> QED BY <3>1, <3>3, <4>1 DEF TokenRow
    <3> QED BY <2>1, <3>2, <3>3 DEF RevokedOf
  <2> QED BY <2>1, <2>2
<1> QED BY <1>1, <1>2, <1>3, <1>4, <1>5, <1>6, <1>7, <1>8 DEF Step, CreateRead, LoginRead,
       RefreshRead, StampLogin, LogoutGuard, ForgotRead, ConfirmRead, ConfirmFind, StatusRead, AppendAudit

LEMMA TypeExpire == ASSUME TypeInv, Expire PROVE TypeInv'
<1>1. Kept
  BY DEF Kept, Expire, Usable, TypeInv, TypeOK, TokenRow, ResetRow, OrNull
<1>2. TypeOK'
  BY DEF Expire, Usable, TypeInv, TypeOK, TokenRow, ResetRow, OrNull
<1>3. OwnersKnown'
  BY <1>1 DEF Expire, Usable, Kept, TypeInv, TypeOK, OwnersKnown, TokenRow, ResetRow, OrNull
<1>4. ASSUME NEW p \in Slots PROVE (Asked(req[p]) /\ Found(req[p]))'
  <2>1. PICK x \in RequestType : x = req[p]
    BY DEF TypeInv, TypeOK
  <2>2. req'[p] = x /\ Asked(x) /\ Found(x)
    BY <2>1 DEF TypeInv, Expire
  <2>3. Found(x)'
    BY <1>1, <2>2, FoundKept
  <2> QED BY <2>2, <2>3 DEF Asked, Found
<1> QED BY <1>2, <1>3, <1>4 DEF TypeInv

LEMMA TypeStep ==
    ASSUME TypeInv, NEW q \in Slots, Step(q)
    PROVE  TypeInv'
<1>1. PICK x \in RequestType : x = req[q] /\ Asked(x) /\ Found(x) /\ Kept
  BY KeptStep DEF TypeInv, TypeOK
<1>2. /\ users \in [Users -> OrNull(UserRow)] /\ tokens \in [Tokens -> OrNull(TokenRow)]
      /\ resets \in [Resets -> OrNull(ResetRow)] /\ delivered \subseteq Tokens \cup Resets
      /\ OwnersKnown
  BY DEF TypeInv, TypeOK
<1>3. CASE Answer(q) /\ UNCHANGED <<users, tokens, resets, delivered>>
  BY <1>3, AnswerStep
\* The calls that only read
<1>4. CASE CreateRead(q)
  <2>1. PICK op \in {"register", "provision"}, u \in Users : Begin(q, op, "insert", u, Null, Null)
    BY <1>4 DEF CreateRead
  <2>2. PICK r : r = Request(op, "insert", u, Null, Null)
    OBVIOUS
  <2>3. Asked(r) /\ Found(r)
    BY <2>2, RequestFields DEF Asked, Found
  <2> QED BY <1>4, <2>1, <2>2, <2>3, BeginStep DEF CreateRead, Ops, PCs, OrNull
<1>5. CASE LoginRead(q)
  <2>1. PICK u \in Users : IsActive(u) /\ Begin(q, "login", "session", u, Null, Null)
    BY <1>5 DEF LoginRead
  <2>2. PICK r : r = Request("login", "session", u, Null, Null)
    OBVIOUS
  <2>3. Asked(r) /\ Found(r)
    BY <2>1, <2>2, RequestFields DEF Asked, Found, IsActive
  <2> QED BY <1>5, <2>1, <2>2, <2>3, BeginStep DEF LoginRead, Ops, PCs, OrNull
<1>6. CASE ForgotRead(q)
  <2>1. PICK u \in Users : IsActive(u) /\ Begin(q, "forgot", "insert", u, Null, Null)
    BY <1>6 DEF ForgotRead
  <2>2. PICK r : r = Request("forgot", "insert", u, Null, Null)
    OBVIOUS
  <2>3. Asked(r) /\ Found(r)
    BY <2>1, <2>2, RequestFields DEF Asked, Found, IsActive
  <2> QED BY <1>6, <2>1, <2>2, <2>3, BeginStep DEF ForgotRead, Ops, PCs, OrNull
<1>7. CASE StatusRead(q)
  <2>1. PICK u \in Users, s \in Targets :
           users[u] # Null /\ Begin(q, "status", "update", u, Null, s)
    BY <1>7 DEF StatusRead
  <2>2. PICK r : r = Request("status", "update", u, Null, s)
    OBVIOUS
  <2>3. Asked(r) /\ Found(r)
    BY <2>1, <2>2, RequestFields DEF Asked, Found
  <2> QED BY <1>7, <2>1, <2>2, <2>3, BeginStep DEF StatusRead, Ops, PCs, OrNull
<1>8. CASE RefreshRead(q)
  <2>1. PICK t \in Tokens, u \in Users, status \in UserStatuses :
           /\ tokens[t] # Null /\ u = tokens[t].user /\ users[u] # Null
           /\ Begin(q, "refresh", "revoke", u, t, status)
    <3>1. PICK t \in Tokens :
             /\ Usable(tokens[t])
             /\ Begin(q, "refresh", "revoke", tokens[t].user, t, users[tokens[t].user].status)
      BY <1>8 DEF RefreshRead
    <3>2. /\ tokens[t] # Null /\ tokens[t].user \in Users /\ users[tokens[t].user] # Null
          /\ users[tokens[t].user].status \in UserStatuses
      BY <1>2, <3>1 DEF Usable, OrNull, TokenRow, UserRow, OwnersKnown
    <3> QED BY <3>1, <3>2
  <2>2. PICK r : r = Request("refresh", "revoke", u, t, status)
    OBVIOUS
  <2>3. r.op = "refresh" /\ r.pc = "revoke" /\ r.user = u /\ r.token = t /\ r.new = Null
    BY <2>2, RequestFields
  <2>4. Asked(r) /\ Found(r)
    BY <2>1, <2>3 DEF Asked, Found
  <2> QED BY <1>8, <2>1, <2>2, <2>3, <2>4, BeginStep DEF RefreshRead, Ops, PCs, OrNull
<1>9. CASE ConfirmRead(q)
  <2>1. PICK t \in Resets, u \in Users :
           /\ resets[t] # Null /\ u = resets[t].user /\ users[u] # Null
           /\ Begin(q, "confirm", "use", u, t, Null)
    <3>1. PICK t \in Resets :
             Usable(resets[t]) /\ Begin(q, "confirm", "use", resets[t].user, t, Null)
      BY <1>9 DEF ConfirmRead
    <3>2. resets[t] # Null /\ resets[t].user \in Users /\ users[resets[t].user] # Null
      BY <1>2, <3>1 DEF Usable, OrNull, ResetRow, OwnersKnown
    <3> QED BY <3>1, <3>2
  <2>2. PICK r : r = Request("confirm", "use", u, t, Null)
    OBVIOUS
  <2>3. r.op = "confirm" /\ r.pc = "use" /\ r.user = u /\ r.token = t /\ r.new = Null
    BY <2>2, RequestFields
  <2>4. Asked(r) /\ Found(r)
    BY <2>1, <2>3 DEF Asked, Found
  <2> QED BY <1>9, <2>1, <2>2, <2>3, <2>4, BeginStep DEF ConfirmRead, Ops, PCs, OrNull
<1>10. CASE LogoutGuard(q)
  <2>1. CASE Finish(q, "audit", Null)
    BY <1>1, <1>2, <1>10, <2>1, FinishStep DEF LogoutGuard, OrNull, OwnersKnown
  <2>2. CASE ~Finish(q, "audit", Null)
    <3>1. PICK k \in Tokens, u \in Users :
             tokens[k] # Null /\ Begin(q, "logout", "revoke", u, k, Null)
      <4>1. PICK t \in Tokens, k \in Tokens :
               /\ tokens[t] # Null /\ tokens[k] # Null
               /\ Begin(q, "logout", "revoke", tokens[t].user, k, Null)
        BY <1>2, <1>10, <2>2 DEF LogoutGuard, OwnersKnown
      <4>2. tokens[t].user \in Users
        BY <1>2, <4>1 DEF OrNull, TokenRow
      <4> QED BY <4>1, <4>2
    <3>2. PICK r : r = Request("logout", "revoke", u, k, Null)
      OBVIOUS
    <3>3. r.op = "logout" /\ r.pc = "revoke" /\ r.user = u /\ r.token = k /\ r.new = Null
      BY <3>2, RequestFields
    <3>4. Asked(r) /\ Found(r)
      BY <3>1, <3>3 DEF Asked, Found
    <3> QED BY <1>10, <3>1, <3>2, <3>4, BeginStep DEF LogoutGuard, Ops, PCs, OrNull
  <2> QED BY <2>1, <2>2
<1>11. CASE StampLogin(q) \/ ConfirmFind(q)
  <2>1. CASE Answer(q)
    BY <1>3, <1>11, <2>1 DEF StampLogin, ConfirmFind
  <2>2. CASE ~Answer(q)
    <3>1. PICK pc \in {"audit", "password"} :
             /\ req' = [req EXCEPT ![q] = [x EXCEPT !.pc = pc]]
             /\ pc = "audit" => x.pc = "stamp"
             /\ pc = "password" => x.op = "confirm" /\ x.pc = "find"
             /\ UNCHANGED <<users, tokens, resets, delivered>>
      BY <1>1, <1>11, <2>2 DEF StampLogin, ConfirmFind, AtCall, Await
    <3>2. PICK r : r = [x EXCEPT !.pc = pc]
      OBVIOUS
    <3>3. /\ r \in RequestType /\ r.op = x.op /\ r.pc = pc /\ r.user = x.user
          /\ r.token = x.token /\ r.new = x.new
      BY <1>1, <3>2 DEF RequestType, PCs
    <3>4. x.op = "confirm" \/ (x.op = "none" /\ pc = "audit")
      BY <1>1, <3>1 DEF Asked, RequestType, Ops
    <3>5. Asked(r) /\ Found(r)
      BY <1>1, <3>1, <3>3, <3>4 DEF Asked, Found
    <3> QED BY <3>1, <3>2, <3>3, <3>5, AwaitStep
  <2> QED BY <2>1, <2>2
\* The calls that write
<1>13. ASSUME NEW r \in RequestType, Asked(r), Found(r)', req' = [req EXCEPT ![q] = r],
              users' \in [Users -> OrNull(UserRow)], tokens' \in [Tokens -> OrNull(TokenRow)],
              resets' \in [Resets -> OrNull(ResetRow)], delivered' \subseteq Tokens \cup Resets,
              OwnersKnown'
       PROVE  TypeInv'
  BY <1>1, <1>13, RequestStep
<1>14. ASSUME Answer(q), users' \in [Users -> OrNull(UserRow)], tokens' = tokens, resets' = resets,
              delivered' \subseteq Tokens \cup Resets, OwnersKnown'
       PROVE  TypeInv'
  BY <1>2, <1>13, <1>14, IdleInOrder DEF Answer
\* A write of users alone disturbs no owner.
<1>15. ASSUME tokens' = tokens, resets' = resets, delivered' = delivered PROVE OwnersKnown'
  BY <1>1, <1>2, <1>15 DEF OwnersKnown, Kept, TokenRow, ResetRow, OrNull
\* The sessions of a user end, and the handler has nothing more to do.
<1>16. ASSUME Finish(q, "audit", Null), UNCHANGED <<users, resets, delivered>>,
              tokens' \in [Tokens -> OrNull(TokenRow)], OwnersKnown'
       PROVE  TypeInv'
  BY <1>1, <1>2, <1>16, FinishStep DEF OrNull
<1>17. CASE AppendAudit(q)
  <2>1. delivered' \subseteq Tokens \cup Resets
    BY <1>1, <1>2, <1>17 DEF AppendAudit, RequestType, OrNull
  <2>2. OwnersKnown'
    BY <1>1, <1>2, <1>17 DEF AppendAudit, OwnersKnown, Found
  <2> QED BY <1>2, <1>14, <1>17, <2>1, <2>2 DEF AppendAudit
<1>18. CASE CreateInsert(q)
  <2>1. CASE Answer(q) /\ UNCHANGED users
    BY <1>3, <1>18, <2>1 DEF CreateInsert
  <2>2. CASE ~(Answer(q) /\ UNCHANGED users)
    <3>0. PICK a : a = LowerCase[x.user]
      OBVIOUS
    <3>1. PICK p \in Passwords :
             /\ users' = [users EXCEPT ![a] = NewUser(p)]
             /\ UNCHANGED <<tokens, resets, delivered>>
             /\ x.op \in {"register", "provision"} /\ x.pc = "insert"
             /\ \/ x.op = "register" /\ Serve(q, a, "session")
                \/ Answer(q)
      BY <1>1, <1>18, <2>2, <3>0 DEF CreateInsert, Address
    <3>2. a \in Users
      BY <1>1, <3>0, <3>1 DEF Asked
    <3>3. users' \in [Users -> OrNull(UserRow)] /\ users'[a] # Null
      BY <1>2, <3>1, <3>2 DEF NewUser, OrNull, UserRow, UserStatuses
    <3>4. OwnersKnown'
      BY <1>15, <3>1
    <3>5. CASE Answer(q)
      BY <1>2, <1>14, <3>1, <3>3, <3>4, <3>5
    <3>6. CASE Serve(q, a, "session") /\ x.op = "register"
      <4>1. PICK r : r = [x EXCEPT !.pc = "session", !.user = a]
        OBVIOUS
      <4>2. /\ r \in RequestType /\ req' = [req EXCEPT ![q] = r] /\ r.op = "register"
            /\ r.pc = "session" /\ r.user = a /\ r.token = x.token /\ r.new = x.new
        BY <1>1, <3>2, <3>6, <4>1 DEF Serve, RequestType, OrNull, PCs
      <4>3. Asked(r)
        BY <1>1, <3>2, <3>6, <4>2 DEF Asked
      <4>4. Found(r)'
        BY <1>1, <3>1, <3>3, <4>2 DEF Found
      <4> QED BY <1>2, <1>13, <3>1, <3>3, <3>4, <4>2, <4>3, <4>4
    <3> QED BY <3>1, <3>5, <3>6
  <2> QED BY <2>1, <2>2
<1>19. CASE StatusUpdate(q)
  <2>1. /\ users' = [users EXCEPT ![x.user].status = x.status] /\ Answer(q)
        /\ UNCHANGED <<tokens, resets, delivered>>
        /\ x.user \in Users /\ users[x.user] # Null /\ x.status \in UserStatuses
    BY <1>1, <1>19 DEF StatusUpdate, AtCall, Asked, Found
  <2>2. users' \in [Users -> OrNull(UserRow)]
    BY <1>2, <2>1 DEF OrNull, UserRow
  <2> QED BY <1>2, <1>14, <1>15, <2>1, <2>2
<1>20. CASE ConfirmPassword(q)
  <2>1. PICK p \in Passwords :
           /\ users' = [users EXCEPT ![x.user].password = p] /\ Await(q, "revoke")
           /\ UNCHANGED <<tokens, resets, delivered>> /\ x.op = "confirm" /\ x.pc = "password"
           /\ x.user \in Users /\ users[x.user] # Null
    BY <1>1, <1>20 DEF ConfirmPassword, AtCall, Asked, Found
  <2>2. users' \in [Users -> OrNull(UserRow)] /\ users'[x.user] # Null
    BY <1>1, <1>2, <2>1 DEF OrNull, UserRow, Kept
  <2>3. PICK r : r = [x EXCEPT !.pc = "revoke"]
    OBVIOUS
  <2>4. /\ r \in RequestType /\ req' = [req EXCEPT ![q] = r] /\ r.op = "confirm"
        /\ r.pc = "revoke" /\ r.user = x.user /\ r.token = x.token /\ r.new = x.new
    BY <1>1, <2>1, <2>3 DEF Await, RequestType, OrNull, PCs
  <2>5. Asked(r)
    BY <1>1, <2>1, <2>4 DEF Asked
  <2>6. Found(r)'
    BY <1>1, <2>1, <2>2, <2>4 DEF Found
  <2> QED BY <1>2, <1>13, <1>15, <2>1, <2>2, <2>4, <2>5, <2>6
<1>21. CASE RefreshRevoke(q)
  <2>1. /\ tokens' = [tokens EXCEPT ![x.token].state = "revoked"]
        /\ UNCHANGED <<users, resets, delivered>> /\ x.op = "refresh" /\ x.pc = "revoke"
        /\ x.user \in Users /\ x.token \in Tokens /\ tokens[x.token] # Null
        /\ users[x.user] # Null /\ tokens[x.token].user = x.user
        /\ (req' = [req EXCEPT ![q] = [x EXCEPT !.pc = "session"]] \/ Answer(q))
    BY <1>1, <1>21 DEF RefreshRevoke, AtCall, Await, Asked, Found
  <2>2. /\ tokens' \in [Tokens -> OrNull(TokenRow)] /\ tokens'[x.token] # Null
        /\ tokens'[x.token].state = "revoked" /\ tokens'[x.token].user = x.user
    BY <1>2, <2>1 DEF OrNull, TokenRow
  <2>3. OwnersKnown'
    BY <1>1, <1>2, <2>1, <2>2 DEF OwnersKnown, OrNull, TokenRow
  <2>4. CASE Answer(q)
    BY <1>2, <1>13, <2>1, <2>2, <2>3, <2>4, IdleInOrder DEF Answer
  <2>5. CASE req' = [req EXCEPT ![q] = [x EXCEPT !.pc = "session"]]
    <3>1. PICK r : r = [x EXCEPT !.pc = "session"]
      OBVIOUS
    <3>2. /\ r \in RequestType /\ req' = [req EXCEPT ![q] = r] /\ r.op = "refresh"
          /\ r.pc = "session" /\ r.user = x.user /\ r.token = x.token /\ r.new = x.new
      BY <1>1, <2>1, <2>5, <3>1 DEF RequestType, PCs
    <3>3. Asked(r)
      BY <1>1, <2>1, <3>2 DEF Asked
    <3>4. x.new \in Tokens => tokens'[x.new] # Null
      BY <1>1 DEF Kept, Found
    <3>5. Found(r)'
      BY <2>1, <2>2, <3>2, <3>4 DEF Found
    <3> QED BY <1>2, <1>13, <2>1, <2>2, <2>3, <3>2, <3>3, <3>5
  <2> QED BY <2>1, <2>4, <2>5
<1>22. CASE LogoutRevoke(q)
  <2>1. /\ x.op = "logout" /\ x.pc = "revoke" /\ UNCHANGED <<users, resets, delivered>>
        /\ x.token \in Tokens /\ tokens[x.token] # Null /\ Finish(q, "audit", Null)
    BY <1>1, <1>22 DEF LogoutRevoke, AtCall, Asked, Found
  <2>2. PICK row \in TokenRow : /\ row.user = tokens[x.token].user
                               /\ tokens' = [tokens EXCEPT ![x.token] = row]
    <3>1. tokens[x.token] \in TokenRow
      BY <1>2, <2>1 DEF OrNull
    <3> QED BY <1>1, <1>22, <3>1 DEF LogoutRevoke, TokenRow
  <2>3. tokens' \in [Tokens -> OrNull(TokenRow)] /\ OwnersKnown'
    BY <1>1, <1>2, <2>1, <2>2 DEF OwnersKnown, OrNull, Kept
  <2> QED BY <1>2, <1>16, <2>1, <2>3
<1>23. CASE ConfirmUse(q)
  <2>1. /\ resets' = [resets EXCEPT ![x.token].state = "used"] /\ UNCHANGED <<users, tokens, delivered>>
        /\ x.op = "confirm" /\ x.pc = "use" /\ Await(q, "find")
        /\ x.user \in Users /\ x.token \in Resets /\ resets[x.token] # Null
        /\ users[x.user] # Null /\ resets[x.token].user = x.user
    BY <1>1, <1>23 DEF ConfirmUse, AtCall, Asked, Found
  <2>2. /\ resets' \in [Resets -> OrNull(ResetRow)] /\ resets'[x.token] # Null
        /\ resets'[x.token].state = "used" /\ resets'[x.token].user = x.user
    BY <1>2, <2>1 DEF OrNull, ResetRow
  <2>3. OwnersKnown'
    BY <1>1, <1>2, <2>1, <2>2 DEF OwnersKnown, OrNull, ResetRow
  <2>4. PICK r : r = [x EXCEPT !.pc = "find"]
    OBVIOUS
  <2>5. /\ r \in RequestType /\ req' = [req EXCEPT ![q] = r] /\ r.op = "confirm"
        /\ r.pc = "find" /\ r.user = x.user /\ r.token = x.token /\ r.new = x.new
    BY <1>1, <2>1, <2>4 DEF Await, RequestType, PCs
  <2>6. Asked(r)
    BY <1>1, <2>1, <2>5 DEF Asked
  <2>7. Found(r)'
    BY <1>1, <2>1, <2>2, <2>5 DEF Found
  <2> QED BY <1>2, <1>13, <2>1, <2>2, <2>3, <2>5, <2>6, <2>7
<1>24. CASE ConfirmRevoke(q)
  <2>1. /\ x.op = "confirm" /\ x.pc = "revoke" /\ UNCHANGED <<users, resets, delivered>>
        /\ tokens' = RevokedOf(x.user) /\ Finish(q, "audit", Null)
    BY <1>1, <1>24 DEF ConfirmRevoke, AtCall
  <2>2. ASSUME NEW t \in Tokens
        PROVE  /\ tokens'[t] \in OrNull(TokenRow)
               /\ tokens'[t] # Null => tokens[t] # Null /\ tokens'[t].user = tokens[t].user
    <3>1. CASE tokens'[t] = tokens[t]
      BY <1>2, <3>1
    <3>2. CASE tokens[t] # Null /\ tokens'[t] = [tokens[t] EXCEPT !.state = "revoked"]
      BY <1>2, <3>2 DEF OrNull, TokenRow
    <3> QED BY <2>1, <3>1, <3>2 DEF RevokedOf
  <2>3. tokens' \in [Tokens -> OrNull(TokenRow)]
    <3>1. tokens' = [t \in Tokens |-> tokens'[t]]
      BY <2>1 DEF RevokedOf
    <3> QED BY <2>2, <3>1
  <2>4. OwnersKnown'
    BY <1>1, <1>2, <2>1, <2>2 DEF OwnersKnown, Kept
  <2> QED BY <1>2, <1>16, <2>1, <2>3, <2>4
<1>25. CASE OpenSession(q)
  <2>1. PICK t \in Tokens, pc \in {"stamp", "audit"} :
           /\ tokens[t] = Null /\ UNCHANGED <<users, resets, delivered>>
           /\ tokens' = [tokens EXCEPT ![t] = NewToken(x)]
           /\ Finish(q, pc, t)
    BY <1>1, <1>25 DEF OpenSession
  <2>2. /\ x.pc = "session" /\ x.op \in {"register", "login", "refresh"}
        /\ x.user \in Users /\ users[x.user] # Null /\ x.token \in OrNull(Tokens)
    BY <1>1, <1>25 DEF OpenSession, Asked, Found, RequestType, Ops, OrNull
  <2>3. NewToken(x) \in TokenRow /\ NewToken(x).user = x.user
    BY <2>2 DEF NewToken, TokenRow, OrNull
  <2>4. tokens' \in [Tokens -> OrNull(TokenRow)] /\ tokens'[t] # Null
    BY <1>2, <2>1, <2>3 DEF OrNull
  <2>5. OwnersKnown'
    BY <1>1, <1>2, <2>1, <2>2, <2>3, <2>4 DEF OwnersKnown, Kept
  <2>6. t \in OrNull(Tokens \cup Resets)
    BY DEF OrNull
  <2> QED BY <1>1, <1>2, <2>1, <2>4, <2>5, <2>6, FinishStep
<1>26. CASE ForgotInsert(q)
  <2>1. PICK t \in Resets :
           /\ resets[t] = Null /\ UNCHANGED <<users, tokens, delivered>>
           /\ resets' = [resets EXCEPT ![t] = [user |-> x.user, state |-> "live"]]
           /\ Finish(q, "audit", t)
    BY <1>1, <1>26 DEF ForgotInsert
  <2>2. x.user \in Users /\ users[x.user] # Null
    BY <1>1, <1>26 DEF ForgotInsert, AtCall, Asked, Found
  <2>3. resets' \in [Resets -> OrNull(ResetRow)] /\ resets'[t].user = x.user
    BY <1>2, <2>1, <2>2 DEF OrNull, ResetRow
  <2>4. OwnersKnown'
    BY <1>1, <1>2, <2>1, <2>2, <2>3 DEF OwnersKnown, Kept
  <2>5. t \in OrNull(Tokens \cup Resets) /\ t \notin Tokens
    BY DEF OrNull
  <2> QED BY <1>1, <1>2, <2>1, <2>3, <2>4, <2>5, FinishStep
<1> QED BY <1>4, <1>5, <1>6, <1>7, <1>8, <1>9, <1>10, <1>11, <1>17, <1>18, <1>19, <1>20, <1>21,
       <1>22, <1>23, <1>24, <1>25, <1>26 DEF Step

-----------------------------------------------------------------------------
LEMMA KeptNext == ASSUME TypeInv, [Next]_vars PROVE Kept
<1>1. CASE UNCHANGED vars
  BY <1>1 DEF vars, Kept
<1>2. CASE Expire
  BY <1>2 DEF Kept, Expire, Usable, TypeInv, TypeOK, TokenRow, ResetRow, OrNull
<1>3. ASSUME NEW q \in Slots, Step(q) \/ Fail(q) PROVE Kept
  <2>1. CASE Step(q)
    BY <2>1, KeptStep
  <2> QED BY <1>3, <2>1 DEF Fail, Kept
<1> QED BY <1>1, <1>2, <1>3 DEF Next

LEMMA TypeNext == ASSUME TypeInv, [Next]_vars PROVE TypeInv'
<1>1. CASE UNCHANGED vars
  BY <1>1 DEF vars, TypeInv, TypeOK, OwnersKnown, Found
<1>2. CASE Expire
  BY <1>2, TypeExpire
<1>3. ASSUME NEW q \in Slots, Step(q) \/ Fail(q) PROVE TypeInv'
  BY <1>3, TypeStep, AnswerStep DEF Fail
<1> QED BY <1>1, <1>2, <1>3 DEF Next

\* The tables and the requests have the shape the schema and the handlers give
\* them, whatever overlaps, fails or expires; a handler never reads a column of a
\* row that is gone.
THEOREM TypeAlways == Spec => []TypeInv
<1>1. Init => TypeInv
  BY TypeInit
<1>2. TypeInv /\ [Next]_vars => TypeInv'
  BY TypeNext
<1> QED BY <1>1, <1>2, PTL DEF Spec

\* The part of it the runs check (schema.prisma:95-145)
THEOREM TypeCorrect == Spec => []TypeOK
<1>1. TypeInv => TypeOK
  BY DEF TypeInv
<1> QED BY <1>1, TypeAlways, PTL

-----------------------------------------------------------------------------
LEMMA OnlyOpenSession ==
    ASSUME TypeInv, [Next]_vars, NEW t \in Tokens, tokens[t] = Null, tokens'[t] # Null
    PROVE  \E q \in Slots : OpenSession(q)
<1>1. ~Expire
  BY DEF Expire, Usable, TypeInv, TypeOK
<1>2. ASSUME NEW q \in Slots, RefreshRevoke(q) \/ LogoutRevoke(q) \/ ConfirmRevoke(q) PROVE FALSE
  <2>1. PICK x \in RequestType : x = req[q] /\ Asked(x) /\ Found(x)
    BY DEF TypeInv, TypeOK
  <2>2. CASE RefreshRevoke(q) \/ LogoutRevoke(q)
    <3>1. x.token \in Tokens /\ tokens[x.token] # Null
      BY <2>1, <2>2 DEF RefreshRevoke, LogoutRevoke, AtCall, Asked, Found
    <3> QED BY <2>1, <2>2, <3>1 DEF RefreshRevoke, LogoutRevoke, TypeInv, TypeOK
  <2>3. CASE ConfirmRevoke(q)
    BY <2>3 DEF ConfirmRevoke, RevokedOf
  <2> QED BY <1>2, <2>2, <2>3
<1> QED BY <1>1, <1>2 DEF Next, vars, Fail, Step, CreateRead, CreateInsert, LoginRead,
       RefreshRead, StampLogin, LogoutGuard, ForgotRead, ForgotInsert, ConfirmRead, ConfirmUse,
       ConfirmFind, ConfirmPassword, StatusRead, StatusUpdate, AppendAudit

\* OpenSession makes a token once the one it continues is spent, by this handler or
\* by another that overtook it.
LEMMA RotatedNext ==
    ASSUME TypeInv, RotatedAreRevoked, [Next]_vars
    PROVE  RotatedAreRevoked'
<1>1. Kept /\ tokens \in [Tokens -> OrNull(TokenRow)]
  BY KeptNext DEF TypeInv, TypeOK
<1>2. ASSUME NEW t \in Tokens, tokens[t] # Null, tokens[t].from # Null
      PROVE  LET old == tokens[tokens[t].from]
             IN  (old # Null /\ old.state = "revoked" /\ old.user = tokens[t].user)'
  <2>1. tokens[t].from \in Tokens
    BY <1>1, <1>2 DEF OrNull, TokenRow
  <2>2. tokens'[t].from = tokens[t].from /\ tokens'[t].user = tokens[t].user
    BY <1>1, <1>2 DEF Kept
  <2>3. /\ tokens[tokens[t].from] # Null /\ tokens[tokens[t].from].state = "revoked"
        /\ tokens[tokens[t].from].user = tokens[t].user
    BY <1>2 DEF RotatedAreRevoked
  <2> QED BY <1>1, <2>1, <2>2, <2>3 DEF Kept
<1>3. ASSUME NEW t \in Tokens, tokens[t] = Null, tokens'[t] # Null, tokens'[t].from # Null
      PROVE  LET old == tokens[tokens[t].from]
             IN  (old # Null /\ old.state = "revoked" /\ old.user = tokens[t].user)'
  <2>1. PICK q \in Slots : OpenSession(q) /\ tokens'[t] = NewToken(req[q])
    <3>1. ASSUME NEW q \in Slots, OpenSession(q) PROVE tokens'[t] = NewToken(req[q])
      BY <1>1, <1>3, <3>1 DEF OpenSession
    <3>2. \E q \in Slots : OpenSession(q)
      BY <1>1, <1>3, OnlyOpenSession
    <3> QED BY <3>1, <3>2
  <2>2. PICK x \in RequestType : x = req[q] /\ Asked(x) /\ Found(x)
    BY DEF TypeInv, TypeOK
  <2>3. x.pc = "session" /\ tokens'[t].from = x.token /\ tokens'[t].user = x.user
    BY <2>1, <2>2 DEF OpenSession, NewToken
  <2>4. x.op = "refresh" /\ x.token \in Tokens
    BY <1>3, <2>2, <2>3 DEF Asked, RequestType, Ops
  <2>5. /\ tokens[x.token] # Null /\ tokens[x.token].user = x.user
        /\ tokens[x.token].state = "revoked"
    BY <2>2, <2>3, <2>4 DEF Found
  <2> QED BY <1>1, <2>3, <2>4, <2>5 DEF Kept
<1>4. ASSUME NEW t \in Tokens, tokens[t] # Null, tokens[t].from = Null
      PROVE  tokens'[t].from = Null
  BY <1>1, <1>4 DEF Kept
<1> QED BY <1>2, <1>3, <1>4 DEF RotatedAreRevoked

\* No session is continued from a token that can still be used, whoever else uses
\* the same token at the same time.
THEOREM SessionsRotate == Spec => []RotatedAreRevoked
<1>1. Init => RotatedAreRevoked
  BY DEF Init, RotatedAreRevoked
<1>2. TypeInv /\ RotatedAreRevoked /\ [Next]_vars => RotatedAreRevoked'
  BY RotatedNext
<1> QED BY <1>1, <1>2, TypeAlways, PTL DEF Spec

-----------------------------------------------------------------------------
\* Rows are inserted under the address in lower case.
Registered == \A u \in Users : users[u] # Null => LowerCase[u] = u

LEMMA RegisteredNext == ASSUME TypeInv, Registered, [Next]_vars PROVE Registered'
<1>1. users \in [Users -> OrNull(UserRow)]
  BY DEF TypeInv, TypeOK
<1>2. ASSUME NEW q \in Slots, CreateInsert(q) PROVE Registered'
  <2>1. CASE users' = users
    BY <2>1 DEF Registered
  <2>2. CASE users' # users
    <3>1. PICK p \in Passwords : users' = [users EXCEPT ![Address(q)] = NewUser(p)]
      BY <1>2, <2>2 DEF CreateInsert
    <3>2. req[q].user \in Users
      BY <1>2 DEF CreateInsert, TypeInv, Asked
    <3> QED BY <1>1, <3>1, <3>2 DEF Registered, Address
  <2> QED BY <2>1, <2>2
<1>3. ASSUME NEW q \in Slots, StatusUpdate(q) \/ ConfirmPassword(q) PROVE Registered'
  <2>1. req[q].user \in Users /\ users[req[q].user] # Null
    BY <1>3 DEF ConfirmPassword, StatusUpdate, AtCall, TypeInv, Asked, Found
  <2>2. PICK row : users' = [users EXCEPT ![req[q].user] = row]
    BY <1>3 DEF ConfirmPassword, StatusUpdate
  <2> QED BY <1>1, <2>1, <2>2 DEF Registered
<1>4. CASE users' = users
  BY <1>4 DEF Registered
<1> QED BY <1>2, <1>3, <1>4 DEF Next, vars, Expire, Fail, Step, CreateRead, LoginRead, RefreshRead,
       RefreshRevoke, OpenSession, StampLogin, LogoutGuard, LogoutRevoke, ForgotRead, ForgotInsert,
       ConfirmRead, ConfirmUse, ConfirmFind, ConfirmRevoke, StatusRead, AppendAudit

\* One account per address, however the address is written in whichever request
\* (users.service.ts:17-29, 50-54).
THEOREM AddressesAreAccounts == Spec => []OneAccountPerAddress
<1>1. Init => Registered
  BY DEF Init, Registered
<1>2. TypeInv /\ Registered /\ [Next]_vars => Registered'
  BY RegisteredNext
<1>3. Registered => OneAccountPerAddress
  BY DEF Registered, OneAccountPerAddress
<1> QED BY <1>1, <1>2, <1>3, TypeAlways, PTL DEF Spec

-----------------------------------------------------------------------------
LEMMA WitherNext ==
    ASSUME TypeInv, [Next]_vars, NEW t \in Tokens, tokens[t] # Null
    PROVE  /\ tokens'[t] # Null /\ tokens'[t].user = tokens[t].user
           /\ tokens[t].state = "revoked" => tokens'[t].state = "revoked"
           /\ tokens[t].state # "revoked" /\ tokens'[t].state = "revoked"
                 => \E q \in Slots : req[q].pc = "revoke" /\ req[q].user = tokens[t].user
<1>1. Kept /\ tokens \in [Tokens -> OrNull(TokenRow)] /\ tokens[t] \in TokenRow
  BY KeptNext DEF TypeInv, TypeOK, OrNull
<1>2. /\ tokens'[t] # Null /\ tokens'[t].user = tokens[t].user
      /\ tokens[t].state = "revoked" => tokens'[t].state = "revoked"
  BY <1>1 DEF Kept
<1>3. ASSUME tokens[t].state # "revoked", tokens'[t].state = "revoked"
      PROVE  \E q \in Slots : req[q].pc = "revoke" /\ req[q].user = tokens[t].user
  <2>1. ~Expire
    BY <1>1, <1>3 DEF Expire, TokenRow
  <2>2. ASSUME NEW q \in Slots, OpenSession(q) PROVE FALSE
    BY <1>1, <1>3, <2>2 DEF OpenSession
  <2>3. PICK q \in Slots : RefreshRevoke(q) \/ LogoutRevoke(q) \/ ConfirmRevoke(q)
    BY <1>3, <2>1, <2>2 DEF Next, vars, Fail, Step, CreateRead, CreateInsert, LoginRead,
       RefreshRead, StampLogin, LogoutGuard, ForgotRead, ForgotInsert, ConfirmRead, ConfirmUse,
       ConfirmFind, ConfirmPassword, StatusRead, StatusUpdate, AppendAudit
  <2>4. PICK x \in RequestType : x = req[q] /\ Asked(x) /\ Found(x)
    BY DEF TypeInv, TypeOK
  <2>5. CASE RefreshRevoke(q)
    <3>1. x.op = "refresh" /\ x.pc = "revoke" /\ x.token = t
      BY <1>1, <1>3, <2>4, <2>5 DEF RefreshRevoke, AtCall
    <3> QED BY <2>4, <3>1 DEF Found
  <2>6. CASE LogoutRevoke(q)
    <3>1. x.pc = "revoke" /\ tokens[t].user = x.user
      BY <1>1, <1>3, <2>4, <2>6 DEF LogoutRevoke, AtCall
    <3> QED BY <2>4, <3>1
  <2>7. CASE ConfirmRevoke(q)
    <3>1. x.pc = "revoke" /\ tokens[t].user = x.user
      BY <1>1, <1>3, <2>4, <2>7 DEF ConfirmRevoke, AtCall, RevokedOf
    <3> QED BY <2>4, <3>1
  <2> QED BY <2>3, <2>5, <2>6, <2>7
<1> QED BY <1>2, <1>3

\* A refresh token never changes hands, never comes back to life, and ends only
\* at the hands of a request of its own user.
THEOREM TokensAlwaysWither == Spec => TokensWither
<1>1. TypeInv /\ [Next]_vars => [\A t \in Tokens : tokens[t] # Null
          => /\ tokens'[t] # Null /\ tokens'[t].user = tokens[t].user
             /\ tokens[t].state = "revoked" => tokens'[t].state = "revoked"
             /\ tokens[t].state # "revoked" /\ tokens'[t].state = "revoked"
                   => \E q \in Slots : req[q].pc = "revoke" /\ req[q].user = tokens[t].user]_vars
  BY WitherNext
<1> QED BY <1>1, TypeAlways, PTL DEF Spec, TokensWither

-----------------------------------------------------------------------------
(* What one request at a time does to a token *)

\* A step of another handler leaves a request alone.
LEMMA OneMoves ==
    ASSUME TypeInv, [Next]_vars, NEW q \in Slots, req'[q] # req[q]
    PROVE  /\ Step(q) \/ Fail(q)
           /\ \A p \in Slots : p # q => req'[p] = req[p]
<1>1. PICK s \in Slots : Step(s) \/ Fail(s)
  BY DEF Next, vars, Expire
<1>2. PICK r : req' = [req EXCEPT ![s] = r]
  BY <1>1 DEF Step, Fail, CreateRead, CreateInsert, LoginRead, RefreshRead, RefreshRevoke,
     OpenSession, StampLogin, LogoutGuard, LogoutRevoke, ForgotRead, ForgotInsert, ConfirmRead,
     ConfirmUse, ConfirmFind, ConfirmPassword, ConfirmRevoke, StatusRead, StatusUpdate,
     AppendAudit, Begin, Await, Serve, Finish, Answer
<1> QED BY <1>1, <1>2 DEF TypeInv, TypeOK

\* A request keeps the token it came with until its handler is about to answer, and a
\* confirmation that ends sessions does nothing else.
LEMMA Continues ==
    ASSUME TypeInv, NEW q \in Slots, Step(q) \/ Fail(q)
    PROVE  \/ req'[q].op \notin {"refresh", "confirm"}
           \/ /\ req'[q].op = req[q].op /\ req'[q].token = req[q].token
              /\ req[q].op = "confirm" => req[q].pc # "revoke"
           \/ RefreshRead(q) \/ ConfirmRead(q)
<1>1. PICK x \in RequestType : x = req[q] /\ Asked(x) /\ req \in [Slots -> RequestType]
  BY DEF TypeInv, TypeOK
<1>2. ASSUME Answer(q) PROVE req'[q].op = "none"
  BY <1>1, <1>2 DEF Answer, Idle, Request
<1>3. ASSUME NEW pc, NEW new, Finish(q, pc, new) PROVE req'[q].op = "none"
  BY <1>1, <1>3 DEF Finish, Idle, Request
<1>4. ASSUME NEW op, NEW pc, NEW user, NEW token, NEW status,
             Begin(q, op, pc, user, token, status)
      PROVE  req'[q].op = op
  BY <1>1, <1>4, RequestFields DEF Begin
<1>5. ASSUME NEW pc, NEW u, Await(q, pc) \/ Serve(q, u, pc)
      PROVE  req'[q].op = req[q].op /\ req'[q].token = req[q].token
  <2>1. CASE Await(q, pc)
    BY <1>1, <2>1 DEF Await, RequestType
  <2>2. CASE Serve(q, u, pc)
    BY <1>1, <2>2 DEF Serve, RequestType
  <2> QED BY <1>5, <2>1, <2>2
<1>6. CASE Fail(q) \/ StatusUpdate(q) \/ AppendAudit(q)
  BY <1>2, <1>6 DEF Fail, StatusUpdate, AppendAudit
<1>7. CASE OpenSession(q) \/ LogoutRevoke(q) \/ ForgotInsert(q) \/ ConfirmRevoke(q)
  BY <1>3, <1>7 DEF OpenSession, LogoutRevoke, ForgotInsert, ConfirmRevoke
<1>8. CASE CreateRead(q) \/ LoginRead(q) \/ ForgotRead(q) \/ StatusRead(q)
  BY <1>4, <1>8 DEF CreateRead, LoginRead, ForgotRead, StatusRead
<1>9. CASE LogoutGuard(q)
  BY <1>3, <1>4, <1>9 DEF LogoutGuard
<1>10. CASE CreateInsert(q) \/ RefreshRevoke(q) \/ StampLogin(q) \/ ConfirmUse(q) \/ ConfirmFind(q)
            \/ ConfirmPassword(q)
  <2>1. Answer(q) \/ \E pc, u : Await(q, pc) \/ Serve(q, u, pc)
    BY <1>10 DEF CreateInsert, RefreshRevoke, StampLogin, ConfirmUse, ConfirmFind, ConfirmPassword
  <2>2. req[q].op = "confirm" => req[q].pc # "revoke"
    BY <1>10 DEF CreateInsert, RefreshRevoke, StampLogin, ConfirmUse, ConfirmFind, ConfirmPassword,
       AtCall
  <2> QED BY <1>2, <1>5, <2>1, <2>2
<1> QED BY <1>6, <1>7, <1>8, <1>9, <1>10 DEF Step

-----------------------------------------------------------------------------
(* Where refreshes of one token keep apart, its session does not fork. *)

\* From the read of a token to the token made of it
At(r, t) == r.op = "refresh" /\ r.pc \in {"revoke", "session"} /\ r.token = t

\* Whoever is exchanging a token is alone in that, and nobody has done it before.
ExchangeInv(t) ==
    /\ \A q \in Slots, new \in Tokens :
          At(req[q], t) /\ tokens[new] # Null => tokens[new].from # t
    /\ \A p \in Slots, q \in Slots : At(req[p], t) /\ At(req[q], t) => p = q
    /\ ~Forked(t)

\* It starts with a token that was live when it was read.
LEMMA StartsLive ==
    ASSUME TypeInv, [Next]_vars, NEW q \in Slots, NEW t \in Tokens, At(req'[q], t), ~At(req[q], t)
    PROVE  /\ req'[q].op = "refresh" /\ req'[q].pc = "revoke"
           /\ tokens[t] # Null /\ tokens[t].state = "live" /\ tokens' = tokens
           /\ \A p \in Slots : p # q => req'[p] = req[p]
<1>1. PICK x \in RequestType : x = req[q] /\ Asked(x) /\ req \in [Slots -> RequestType]
  BY DEF TypeInv, TypeOK
<1>2. (Step(q) \/ Fail(q)) /\ \A p \in Slots : p # q => req'[p] = req[p]
  BY OneMoves
<1>3. ~(req'[q].op = x.op /\ req'[q].token = x.token)
  BY <1>1 DEF At, Asked
<1>4. ~ConfirmRead(q)
  <2>1. SUFFICES ASSUME ConfirmRead(q) PROVE FALSE
    OBVIOUS
  <2>2. PICK r, u : Begin(q, "confirm", "use", u, r, Null)
    BY <2>1 DEF ConfirmRead
  <2> QED BY <1>1, <2>2, RequestFields DEF Begin, At
<1>5. RefreshRead(q)
  BY <1>1, <1>2, <1>3, <1>4, Continues DEF At
<1>6. PICK k \in Tokens :
         /\ Usable(tokens[k]) /\ tokens' = tokens
         /\ Begin(q, "refresh", "revoke", tokens[k].user, k, users[tokens[k].user].status)
  BY <1>5 DEF RefreshRead
<1>7. req'[q].op = "refresh" /\ req'[q].pc = "revoke" /\ req'[q].token = k
  BY <1>1, <1>6, RequestFields DEF Begin
<1> QED BY <1>2, <1>6, <1>7 DEF Usable, At

\* It ends with the one token that continues the session.
LEMMA EndsInOne ==
    ASSUME TypeInv, [Next]_vars, NEW t \in Tokens, NEW new \in Tokens,
           tokens'[new] # Null, tokens'[new].from = t
    PROVE  \/ tokens[new] # Null /\ tokens[new].from = t
           \/ /\ tokens[new] = Null
              /\ \A other \in Tokens : other # new => tokens'[other] = tokens[other]
              /\ \E q \in Slots : At(req[q], t) /\ ~At(req'[q], t)
<1>1. Kept /\ t # Null /\ tokens \in [Tokens -> OrNull(TokenRow)] /\ req \in [Slots -> RequestType]
  BY KeptNext DEF TypeInv, TypeOK
<1>2. CASE tokens[new] # Null
  BY <1>1, <1>2 DEF Kept
<1>3. CASE tokens[new] = Null
  <2>1. PICK q \in Slots : OpenSession(q)
    BY <1>3, OnlyOpenSession
  <2>2. PICK x \in RequestType : x = req[q] /\ Asked(x)
    BY DEF TypeInv, TypeOK
  <2>3. PICK k \in Tokens, pc \in {"stamp", "audit"} :
           /\ tokens[k] = Null /\ tokens' = [tokens EXCEPT ![k] = NewToken(x)]
           /\ Finish(q, pc, k)
    BY <2>1, <2>2 DEF OpenSession
  <2>4. k = new /\ tokens'[new] = NewToken(x)
    BY <1>1, <1>3, <2>3
  <2>5. x.token = t /\ x.pc = "session"
    BY <2>1, <2>2, <2>4 DEF NewToken, OpenSession
  <2>6. x.op = "refresh"
    BY <1>1, <2>2, <2>5 DEF Asked, RequestType, Ops
  <2>7. req'[q].pc \in {"stamp", "audit"}
    BY <1>1, <2>3 DEF Finish, Idle, Request
  <2> QED BY <1>1, <1>3, <2>2, <2>3, <2>4, <2>5, <2>6, <2>7 DEF At
<1> QED BY <1>2, <1>3

LEMMA ExchangeNext ==
    ASSUME TypeInv, RotatedAreRevoked, NEW t \in Tokens, ExchangeInv(t), [Next]_vars, Apart(t)'
    PROVE  ExchangeInv(t)'
<1>1. ASSUME NEW q \in Slots, NEW new \in Tokens,
             At(req'[q], t), tokens'[new] # Null, tokens'[new].from = t
      PROVE  FALSE
  <2>1. CASE tokens[new] # Null /\ tokens[new].from = t
    <3>1. ~At(req[q], t)
      BY <2>1 DEF ExchangeInv
    <3>2. tokens[t].state = "live"
      BY <1>1, <3>1, StartsLive
    <3> QED BY <2>1, <3>2 DEF RotatedAreRevoked
  <2>2. CASE tokens[new] = Null /\ \E p \in Slots : At(req[p], t) /\ ~At(req'[p], t)
    <3>1. ~At(req[q], t)
      BY <1>1, <2>2 DEF ExchangeInv
    <3> QED BY <1>1, <2>2, <3>1, StartsLive
  <2> QED BY <1>1, <2>1, <2>2, EndsInOne
<1>2. ASSUME NEW p \in Slots, NEW q \in Slots, At(req'[p], t), At(req'[q], t),
             p # q, ~At(req[q], t)
      PROVE  FALSE
  <2>1. /\ req'[q].op = "refresh" /\ req'[q].pc = "revoke" /\ req'[q].token = t
        /\ tokens[t].state = "live" /\ req'[p] = req[p]
    BY <1>2, StartsLive DEF At
  <2>2. req[p].op = "refresh" /\ req[p].token = t /\ req[p].pc \in {"revoke", "session"}
    BY <1>2, <2>1 DEF At
  <2>3. req[p].pc # "session"
    BY <2>1, <2>2 DEF TypeInv, Found
  <2> QED BY <1>2, <2>1, <2>2, <2>3 DEF Apart, Relying, AtCall
<1>3. \A p \in Slots, q \in Slots : At(req'[p], t) /\ At(req'[q], t) => p = q
  BY <1>2 DEF ExchangeInv
<1>4. ASSUME NEW a \in Tokens, NEW b \in Tokens, tokens'[a] # Null, tokens'[b] # Null,
             tokens'[a].from = t, tokens'[b].from = t
      PROVE  a = b
  <2>1. \A q \in Slots, new \in Tokens : At(req[q], t) /\ tokens[new] # Null => tokens[new].from # t
    BY DEF ExchangeInv
  <2> QED BY <1>4, <2>1, EndsInOne DEF ExchangeInv, Forked
<1>5. ~Forked(t)'
  BY <1>4 DEF Forked
<1> QED BY <1>1, <1>3, <1>5 DEF ExchangeInv, At

LEMMA HistoryIsSpec == HistorySpec => Spec
<1>1. [HistoryNext]_historyVars => [Next]_vars
  BY DEF HistoryNext, historyVars, vars
<1> QED BY <1>1, PTL DEF HistorySpec, HistoryInit, Spec

LEMMA OverlapsAreKept ==
    ASSUME [HistoryNext]_historyVars, NEW t \in Tokens \cup Resets, t \notin overlapped'
    PROVE  t \notin overlapped /\ (HistoryNext => Apart(t)')
BY DEF HistoryNext, historyVars

\* What refreshToken lacks to exchange a token once is that one refresh of it reads it
\* after the other has revoked it (auth.controller.ts:122, auth.service.ts:167):
\* failures, resets, logouts and expiry do not fork its session, and nothing overtakes a
\* refresh that has revoked it.
THEOREM ExchangedOnceBeforeOverlap == HistorySpec => []ExchangedOnceUntilOverlap
<1> DEFINE Inv == \A t \in Tokens : t \in overlapped \/ ExchangeInv(t)
<1>1. HistoryInit => Inv
  BY DEF HistoryInit, Init, ExchangeInv, Forked, At, Idle, Request
<1>2. TypeInv /\ RotatedAreRevoked /\ Inv /\ [HistoryNext]_historyVars => Inv'
  <2>1. SUFFICES ASSUME TypeInv, RotatedAreRevoked, Inv, [HistoryNext]_historyVars,
                        NEW t \in Tokens, t \notin overlapped'
                 PROVE  ExchangeInv(t)'
    OBVIOUS
  <2>2. ExchangeInv(t)
    BY <2>1, OverlapsAreKept
  <2>3. CASE UNCHANGED historyVars
    BY <2>2, <2>3 DEF historyVars, vars, ExchangeInv, At, Forked
  <2>4. CASE HistoryNext
    BY <2>1, <2>2, <2>4, OverlapsAreKept, ExchangeNext DEF HistoryNext
  <2> QED BY <2>1, <2>3, <2>4
<1>3. Inv => ExchangedOnceUntilOverlap
  BY DEF ExchangedOnceUntilOverlap, ExchangeInv
<1> QED
  <2> HIDE DEF Inv
  <2> QED BY <1>1, <1>2, <1>3, TypeAlways, SessionsRotate, HistoryIsSpec, PTL DEF HistorySpec

-----------------------------------------------------------------------------
(* Where confirmations of one reset token keep apart, it changes one password. *)

Confirming(x, r) == x.op = "confirm" /\ x.pc \in {"use", "find", "password"} /\ x.token = r

\* Whoever is confirming a token is alone in that, and nobody has done it before.
ConfirmInv(r) ==
    /\ \A p \in Slots, q \in Slots : Confirming(req[p], r) /\ Confirming(req[q], r) => p = q
    /\ r \in redeemed => /\ resets[r] # Null /\ resets[r].state = "used"
                         /\ \A q \in Slots : ~Confirming(req[q], r)

LEMMA ConfirmStartsLive ==
    ASSUME TypeInv, [Next]_vars, NEW q \in Slots, NEW r \in Resets,
           Confirming(req'[q], r), ~Confirming(req[q], r)
    PROVE  /\ req'[q].pc = "use" /\ resets[r] # Null /\ resets[r].state = "live"
           /\ \A p \in Slots : p # q => req'[p] = req[p]
<1>1. PICK x \in RequestType : x = req[q] /\ Asked(x) /\ req \in [Slots -> RequestType]
  BY DEF TypeInv, TypeOK
<1>2. (Step(q) \/ Fail(q)) /\ \A p \in Slots : p # q => req'[p] = req[p]
  BY OneMoves
<1>3. ~(req'[q].op = x.op /\ req'[q].token = x.token /\ (x.op = "confirm" => x.pc # "revoke"))
  BY <1>1 DEF Confirming, Asked
<1>4. ~RefreshRead(q)
  <2>1. SUFFICES ASSUME RefreshRead(q) PROVE FALSE
    OBVIOUS
  <2>2. PICK t, u, status : Begin(q, "refresh", "revoke", u, t, status)
    BY <2>1 DEF RefreshRead
  <2> QED BY <1>1, <2>2, RequestFields DEF Begin, Confirming
<1>5. ConfirmRead(q)
  BY <1>1, <1>2, <1>3, <1>4, Continues DEF Confirming
<1>6. PICK k \in Resets :
         Usable(resets[k]) /\ Begin(q, "confirm", "use", resets[k].user, k, Null)
  BY <1>5 DEF ConfirmRead
<1>7. req'[q].pc = "use" /\ req'[q].token = k
  BY <1>1, <1>6, RequestFields DEF Begin
<1> QED BY <1>2, <1>6, <1>7 DEF Usable, Confirming

LEMMA ConfirmNext ==
    ASSUME TypeInv, NEW r \in Resets, ConfirmInv(r), HistoryNext, Apart(r)'
    PROVE  ConfirmInv(r)'
<1>1. [Next]_vars /\ Kept /\ redeemed' = redeemed \cup {req[q].token : q \in {p \in Slots : Redeems(p)}}
  BY KeptNext DEF HistoryNext
<1>2. ASSUME NEW p \in Slots, NEW q \in Slots, Confirming(req'[p], r), Confirming(req'[q], r),
             p # q, ~Confirming(req[q], r)
      PROVE  FALSE
  <2>1. /\ req'[q].op = "confirm" /\ req'[q].pc = "use" /\ req'[q].token = r
        /\ resets[r].state = "live" /\ req'[p] = req[p]
    BY <1>1, <1>2, ConfirmStartsLive DEF Confirming
  <2>2. req[p].op = "confirm" /\ req[p].token = r
    BY <1>2, <2>1 DEF Confirming
  <2>3. req[p].pc = "use"
    BY <2>1, <2>2 DEF TypeInv, Found
  <2> QED BY <1>2, <2>1, <2>2, <2>3 DEF Apart, Relying, AtCall
<1>3. \A p \in Slots, q \in Slots : Confirming(req'[p], r) /\ Confirming(req'[q], r) => p = q
  BY <1>2 DEF ConfirmInv
<1>4. ASSUME r \in redeemed'
      PROVE  /\ resets[r] # Null /\ resets[r].state = "used"
             /\ \A q \in Slots : Confirming(req[q], r) => ~Confirming(req'[q], r)
  <2>1. CASE r \in redeemed
    BY <2>1 DEF ConfirmInv
  <2>2. CASE r \notin redeemed
    <3>1. PICK p \in Slots : Redeems(p) /\ req[p].token = r
      BY <1>1, <1>4, <2>2
    <3>2. req[p].op = "confirm" /\ req[p].pc = "password" /\ req'[p].pc = "revoke"
      BY <3>1 DEF Redeems, AtCall
    <3>3. resets[r] # Null /\ resets[r].state = "used"
      BY <3>1, <3>2 DEF TypeInv, Found
    <3>4. ASSUME NEW q \in Slots, Confirming(req[q], r) PROVE q = p
      BY <3>1, <3>2, <3>4 DEF ConfirmInv, Confirming
    <3> QED BY <3>2, <3>3, <3>4 DEF Confirming
  <2> QED BY <2>1, <2>2
<1>5. ASSUME r \in redeemed', NEW q \in Slots PROVE ~Confirming(req'[q], r)
  <2>1. Confirming(req'[q], r) /\ ~Confirming(req[q], r) => resets[r].state = "live"
    BY <1>1, ConfirmStartsLive
  <2> QED BY <1>4, <1>5, <2>1
<1>6. r \in redeemed' => resets'[r] # Null /\ resets'[r].state = "used"
  BY <1>1, <1>4 DEF Kept
<1> QED BY <1>3, <1>5, <1>6 DEF ConfirmInv, Confirming

\* Of a user that exists the password changes by ConfirmPassword alone.
LEMMA PasswordNext ==
    ASSUME TypeInv, [Next]_vars, NEW u \in Users, users[u] # Null,
           users'[u].password # users[u].password
    PROVE  \E q \in Slots : ConfirmPassword(q) /\ req[q].user = u
<1>1. users \in [Users -> OrNull(UserRow)] /\ users[u] \in UserRow
  BY DEF TypeInv, TypeOK, OrNull
<1>2. ASSUME NEW q \in Slots, CreateInsert(q) PROVE users'[u] = users[u]
  BY <1>1, <1>2 DEF CreateInsert
<1>3. ASSUME NEW q \in Slots, StatusUpdate(q) PROVE users'[u].password = users[u].password
  BY <1>1, <1>3 DEF StatusUpdate, UserRow
<1>4. ASSUME NEW q \in Slots, ConfirmPassword(q) PROVE req[q].user = u
  BY <1>1, <1>4 DEF ConfirmPassword
<1>5. \E q \in Slots : CreateInsert(q) \/ StatusUpdate(q) \/ ConfirmPassword(q)
  BY DEF Next, vars, Expire, Fail, Step, CreateRead, LoginRead, RefreshRead, RefreshRevoke,
     OpenSession, StampLogin, LogoutGuard, LogoutRevoke, ForgotRead, ForgotInsert, ConfirmRead,
     ConfirmUse, ConfirmFind, ConfirmRevoke, StatusRead, AppendAudit
<1> QED BY <1>2, <1>3, <1>4, <1>5

\* No account is taken over by registering its address again; a password is set only
\* with a spent reset token of its own user, and once with each unless two confirmations
\* of it overlap (auth.service.ts:305-332, auth.controller.ts:228).
THEOREM ResetsAreSingleUse == HistorySpec => OneChangePerReset
<1> DEFINE Inv == \A r \in Resets : r \in overlapped \/ ConfirmInv(r)
<1>1. HistoryInit => Inv
  BY DEF HistoryInit, Init, ConfirmInv, Confirming, Idle, Request
<1>2. TypeInv /\ Inv /\ [HistoryNext]_historyVars => Inv'
  <2>1. SUFFICES ASSUME TypeInv, Inv, [HistoryNext]_historyVars,
                        NEW r \in Resets, r \notin overlapped'
                 PROVE  ConfirmInv(r)'
    OBVIOUS
  <2>2. ConfirmInv(r)
    BY <2>1, OverlapsAreKept
  <2>3. CASE UNCHANGED historyVars
    BY <2>2, <2>3 DEF historyVars, vars, ConfirmInv, Confirming
  <2>4. CASE HistoryNext
    BY <2>1, <2>2, <2>4, OverlapsAreKept, ConfirmNext
  <2> QED BY <2>1, <2>3, <2>4
<1>3. ASSUME TypeInv, Inv, [HistoryNext]_historyVars, NEW u \in Users, users[u] # Null,
             users'[u].password # users[u].password
      PROVE  \E q \in Slots :
                LET r == req[q].token
                IN  /\ Redeems(q)
                    /\ resets[r] # Null /\ resets[r].user = u /\ resets[r].state = "used"
                    /\ r \in redeemed => r \in overlapped
  <2>1. [Next]_vars /\ req \in [Slots -> RequestType]
    BY <1>3 DEF HistoryNext, historyVars, vars, TypeInv, TypeOK
  <2>2. PICK q \in Slots : ConfirmPassword(q) /\ req[q].user = u
    BY <1>3, <2>1, PasswordNext
  <2>3. req[q].op = "confirm" /\ req[q].pc = "password" /\ req[q].token \in Resets
    BY <1>3, <2>2 DEF ConfirmPassword, AtCall, TypeInv, Asked
  <2>4. Redeems(q)
    <3>1. req'[q] = [req[q] EXCEPT !.pc = "revoke"] /\ req[q] \in RequestType
      BY <2>1, <2>2 DEF ConfirmPassword, Await
    <3>2. req'[q].pc = "revoke"
      BY <3>1 DEF RequestType
    <3> QED BY <2>3, <3>2 DEF Redeems, AtCall
  <2>5. /\ resets[req[q].token] # Null /\ resets[req[q].token].user = u
        /\ resets[req[q].token].state = "used"
    BY <1>3, <2>2, <2>3 DEF TypeInv, Found
  <2>6. req[q].token \in redeemed => req[q].token \in overlapped
    BY <1>3, <2>3 DEF ConfirmInv, Confirming
  <2> QED BY <2>4, <2>5, <2>6
<1>4. TypeInv /\ Inv /\ [HistoryNext]_historyVars
        => [\A u \in Users : users[u] # Null /\ users'[u].password # users[u].password
          => \E q \in Slots :
                LET r == req[q].token
                IN  /\ Redeems(q)
                    /\ resets[r] # Null /\ resets[r].user = u /\ resets[r].state = "used"
                    /\ r \in redeemed => r \in overlapped]_historyVars
  BY <1>3
<1> QED
  <2> HIDE DEF Inv
  <2> QED BY <1>1, <1>2, <1>4, TypeAlways, HistoryIsSpec, PTL DEF HistorySpec, OneChangePerReset

=============================================================================
