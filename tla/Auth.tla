-------------------------------- MODULE Auth --------------------------------
(***************************************************************************)
(* Accounts and sessions: auth/auth.service.ts, users/users.service.ts and *)
(* the guard of auth/strategies/jwt.strategy.ts.                           *)
(*                                                                         *)
(* A session is a chain of refresh tokens, each exchanged for the next.    *)
(* As in Housekeeping every database call is an action, and what a handler *)
(* decides between two calls it decides on what it has read.  A token has  *)
(* no clock: it may expire at any time after it was made.                  *)
(***************************************************************************)
CONSTANTS
    Users,      \* e-mail addresses as they may be written; a row exists once registered
    LowerCase,  \* toLowerCase of every address
    Passwords,
    Tokens,     \* refresh tokens, a bound on how many are ever made
    Resets,     \* password reset tokens, likewise
    Slots,      \* requests that can be in flight at once
    Targets,    \* statuses an administrator sets
    CanFail,    \* whether a database call may fail, or the process die
    Null        \* a NULL column; an id that names no row; nothing given

UserStatuses == {"ACTIVE", "INACTIVE", "SUSPENDED"}
OrNull(S) == S \cup {Null}

ASSUME LowerCaseAssumption ==
    LowerCase \in [Users -> Users] /\ \A u \in Users : LowerCase[LowerCase[u]] = LowerCase[u]
ASSUME TargetAssumption == Targets \subseteq UserStatuses
ASSUME FailAssumption == CanFail \in BOOLEAN
ASSUME TokenAssumption == Tokens \cap Resets = {}

VARIABLES
    users,      \* the User table
    tokens,     \* the RefreshToken table
    resets,     \* the PasswordResetToken table
    req,        \* the request each slot is serving
    delivered   \* the refresh and reset tokens that an answer brought to a client

vars == <<users, tokens, resets, req, delivered>>

-----------------------------------------------------------------------------
UserRow == [status: UserStatuses, password: Passwords]

\* isRevoked (isUsed) and expiresAt as what a handler makes of them; that a revoked
\* token has expired too shows nowhere.  "from" is no column: the refresh token this
\* one was exchanged for.
TokenRow == [user: Users, state: {"live", "expired", "revoked"}, from: OrNull(Tokens)]
ResetRow == [user: Users, state: {"live", "expired", "used"}]

ASSUME NullAssumption ==
    /\ Null \notin Users \cup Passwords \cup Tokens \cup Resets \cup UserStatuses
    /\ Null \notin UserRow \cup TokenRow \cup ResetRow

Ops == {"register", "provision", "login", "refresh", "logout", "forgot", "confirm", "status"}
PCs == {"insert", "session", "stamp", "revoke", "use", "find", "password", "update", "audit"}

\* A request in flight: its next call (pc), the user it is about (registration: the address
\* as it came), the token it presents, and the status read of the user or to be given.
\* A new password is looked at by nothing before it is written, so it is chosen there.
\* Once a handler has nothing to do but to log and to answer, only the token it made for
\* the answer (new) is kept.
Request(op, pc, user, token, status) ==
    [op |-> op, pc |-> pc, user |-> user, token |-> token, status |-> status, new |-> Null]

Idle == Request("none", "idle", Null, Null, Null)

RequestType ==
    [op: Ops \cup {"none"}, pc: PCs \cup {"idle"}, user: OrNull(Users),
     token: OrNull(Tokens \cup Resets), status: OrNull(UserStatuses),
     new: OrNull(Tokens \cup Resets)]

-----------------------------------------------------------------------------
Init ==
    /\ users = [u \in Users |-> Null]
    /\ tokens = [t \in Tokens |-> Null]
    /\ resets = [r \in Resets |-> Null]
    /\ req = [q \in Slots |-> Idle]
    /\ delivered = {}

\* A request arrives and makes its first call, which only reads: while it waits for that,
\* it is as good as not sent.  One that this call makes the handler refuse changes nothing.
\* Clients present tokens they were given; any other is refused.
Begin(q, op, pc, user, token, status) ==
    req[q] = Idle /\ req' = [req EXCEPT ![q] = Request(op, pc, user, token, status)]

\* The handler moves on to its next call (for the user it has found), has nothing left
\* but to log what it did and answer with the token it made, or answers.
Await(q, pc) == req' = [req EXCEPT ![q] = [@ EXCEPT !.pc = pc]]
Serve(q, u, pc) == req' = [req EXCEPT ![q] = [@ EXCEPT !.pc = pc, !.user = u]]
Finish(q, pc, new) == req' = [req EXCEPT ![q] = [Idle EXCEPT !.pc = pc, !.new = new]]
Answer(q) == req' = [req EXCEPT ![q] = Idle]

AtCall(q, op, pc) == req[q].op = op /\ req[q].pc = pc

\* The address a request came with, as it is stored and looked up
Address(q) == LowerCase[req[q].user]

IsActive(u) == users[u] # Null /\ users[u].status = "ACTIVE"

-----------------------------------------------------------------------------
(* The handlers.  A definition whose comment starts with "..." is what the one *)
(* after it would be with a bug; no action uses it.                          *)

(* UsersService.create, by register and by an administrator *)

CreateRead(q) ==
    /\ \E op \in {"register", "provision"}, u \in Users :
          users[LowerCase[u]] = Null /\ Begin(q, op, "insert", u, Null, Null)
    /\ UNCHANGED <<users, tokens, resets, delivered>>

NewUser(password) == [status |-> "ACTIVE", password |-> password]

\* ... with the address stored as it was written
CreateInsertAsWritten(q) ==
    /\ req[q].op \in {"register", "provision"} /\ req[q].pc = "insert"
    /\ \/ /\ users[req[q].user] = Null
          /\ \E p \in Passwords : users' = [users EXCEPT ![req[q].user] = NewUser(p)]
          /\ IF req[q].op = "register" THEN Serve(q, req[q].user, "session") ELSE Answer(q)
       \/ Answer(q) /\ UNCHANGED users
    /\ UNCHANGED <<tokens, resets, delivered>>

\* Refused when the address is taken by now, or the property does not exist
CreateInsert(q) ==
    /\ req[q].op \in {"register", "provision"} /\ req[q].pc = "insert"
    /\ \/ /\ users[Address(q)] = Null
          /\ \E p \in Passwords : users' = [users EXCEPT ![Address(q)] = NewUser(p)]
          /\ IF req[q].op = "register" THEN Serve(q, Address(q), "session") ELSE Answer(q)
       \/ Answer(q) /\ UNCHANGED users
    /\ UNCHANGED <<tokens, resets, delivered>>

-----------------------------------------------------------------------------
(* login and refreshToken *)

\* Refused, too, when the password given is not the one that was read
LoginRead(q) ==
    /\ \E u \in Users :
          IsActive(LowerCase[u]) /\ Begin(q, "login", "session", LowerCase[u], Null, Null)
    /\ UNCHANGED <<users, tokens, resets, delivered>>

Usable(row) == row # Null /\ row.state = "live"

\* ... with the owner of the token not taken over
RefreshReadAlone(q) ==
    /\ \E t \in delivered \cap Tokens :
          Usable(tokens[t]) /\ Begin(q, "refresh", "revoke", Null, t, "ACTIVE")
    /\ UNCHANGED <<users, tokens, resets, delivered>>

\* ... where a token is asked for its expiry only
RefreshReadSpent(q) ==
    /\ \E t \in delivered \cap Tokens :
          LET u == tokens[t].user
          IN  tokens[t].state # "expired" /\ Begin(q, "refresh", "revoke", u, t, users[u].status)
    /\ UNCHANGED <<users, tokens, resets, delivered>>

RefreshRead(q) ==
    /\ \E t \in delivered \cap Tokens :
          LET u == tokens[t].user
          IN  Usable(tokens[t]) /\ Begin(q, "refresh", "revoke", u, t, users[u].status)
    /\ UNCHANGED <<users, tokens, resets, delivered>>

\* ... where the token is left as it is
RefreshKeep(q) ==
    /\ AtCall(q, "refresh", "revoke")
    /\ IF req[q].status = "ACTIVE" THEN Await(q, "session") ELSE Answer(q)
    /\ UNCHANGED <<users, tokens, resets, delivered>>

\* Rotation: the token is spent before the user's status is looked at.
RefreshRevoke(q) ==
    /\ AtCall(q, "refresh", "revoke")
    /\ tokens' = [tokens EXCEPT ![req[q].token].state = "revoked"]
    /\ IF req[q].status = "ACTIVE" THEN Await(q, "session") ELSE Answer(q)
    /\ UNCHANGED <<users, resets, delivered>>

NewToken(r) == [user |-> r.user, state |-> "live", from |-> r.token]

\* ... in the row of a token that is spent
OpenOverRevoked(q) ==
    /\ req[q].pc = "session"
    /\ \E t \in Tokens :
          /\ tokens[t] # Null => tokens[t].state = "revoked"
          /\ tokens' = [tokens EXCEPT ![t] = NewToken(req[q])]
          /\ Finish(q, IF req[q].op = "login" THEN "stamp" ELSE "audit", t)
    /\ UNCHANGED <<users, resets, delivered>>

OpenSession(q) ==
    /\ req[q].pc = "session"
    /\ \E t \in Tokens :
          /\ tokens[t] = Null
          /\ tokens' = [tokens EXCEPT ![t] = NewToken(req[q])]
          /\ Finish(q, IF req[q].op = "login" THEN "stamp" ELSE "audit", t)
    /\ UNCHANGED <<users, resets, delivered>>

\* updateLastLogin; the date itself is left out
StampLogin(q) ==
    /\ req[q].pc = "stamp"
    /\ Await(q, "audit")
    /\ UNCHANGED <<users, tokens, resets, delivered>>

-----------------------------------------------------------------------------
(* logout *)

\* The guard reads the user of the access token, which came with a refresh token; the
\* request need not name one to revoke.
LogoutGuard(q) ==
    /\ \E t \in delivered \cap Tokens :
          /\ IsActive(tokens[t].user)
          /\ \/ req[q] = Idle /\ Finish(q, "audit", Null)
             \/ \E k \in delivered \cap Tokens :
                   Begin(q, "logout", "revoke", tokens[t].user, k, Null)
    /\ UNCHANGED <<users, tokens, resets, delivered>>

\* The user is read once more before the audit entry, which changes nothing.
LogoutRevoke(q) ==
    /\ AtCall(q, "logout", "revoke")
    /\ tokens' = [tokens EXCEPT ![req[q].token] = IF @.user = req[q].user
                                                      THEN [@ EXCEPT !.state = "revoked"] ELSE @]
    /\ Finish(q, "audit", Null)
    /\ UNCHANGED <<users, resets, delivered>>

-----------------------------------------------------------------------------
(* requestPasswordReset and resetPassword *)

ForgotRead(q) ==
    /\ \E u \in Users :
          IsActive(LowerCase[u]) /\ Begin(q, "forgot", "insert", LowerCase[u], Null, Null)
    /\ UNCHANGED <<users, tokens, resets, delivered>>

ForgotInsert(q) ==
    /\ AtCall(q, "forgot", "insert")
    /\ \E r \in Resets :
          /\ resets[r] = Null
          /\ resets' = [resets EXCEPT ![r] = [user |-> req[q].user, state |-> "live"]]
          /\ Finish(q, "audit", r)
    /\ UNCHANGED <<users, tokens, delivered>>

\* ... where a token is asked for its expiry only
ConfirmReadSpent(q) ==
    /\ \E r \in delivered \cap Resets :
          resets[r].state # "expired" /\ Begin(q, "confirm", "use", resets[r].user, r, Null)
    /\ UNCHANGED <<users, tokens, resets, delivered>>

ConfirmRead(q) ==
    /\ \E r \in delivered \cap Resets :
          Usable(resets[r]) /\ Begin(q, "confirm", "use", resets[r].user, r, Null)
    /\ UNCHANGED <<users, tokens, resets, delivered>>

ConfirmUse(q) ==
    /\ AtCall(q, "confirm", "use")
    /\ resets' = [resets EXCEPT ![req[q].token].state = "used"]
    /\ Await(q, "find")
    /\ UNCHANGED <<users, tokens, delivered>>

\* updatePassword looks the user up before it writes.
ConfirmFind(q) ==
    /\ AtCall(q, "confirm", "find")
    /\ IF users[req[q].user] # Null THEN Await(q, "password") ELSE Answer(q)
    /\ UNCHANGED <<users, tokens, resets, delivered>>

ConfirmPassword(q) ==
    /\ AtCall(q, "confirm", "password")
    /\ \E p \in Passwords : users' = [users EXCEPT ![req[q].user].password = p]
    /\ Await(q, "revoke")
    /\ UNCHANGED <<tokens, resets, delivered>>

RevokedOf(u) == [t \in Tokens |-> IF tokens[t] # Null /\ tokens[t].user = u
                                  THEN [tokens[t] EXCEPT !.state = "revoked"] ELSE tokens[t]]

ConfirmRevoke(q) ==
    /\ AtCall(q, "confirm", "revoke")
    /\ tokens' = RevokedOf(req[q].user)
    /\ Finish(q, "audit", Null)
    /\ UNCHANGED <<users, resets, delivered>>

-----------------------------------------------------------------------------
(* updateStatus, by an administrator *)

StatusRead(q) ==
    /\ \E u \in Users, s \in Targets : users[u] # Null /\ Begin(q, "status", "update", u, Null, s)
    /\ UNCHANGED <<users, tokens, resets, delivered>>

StatusUpdate(q) ==
    /\ AtCall(q, "status", "update")
    /\ users' = [users EXCEPT ![req[q].user].status = req[q].status]
    /\ Answer(q)
    /\ UNCHANGED <<tokens, resets, delivered>>

-----------------------------------------------------------------------------
\* auditService.log, then the answer with the token that was made
AppendAudit(q) ==
    /\ req[q].pc = "audit"
    /\ delivered' = delivered \cup ({req[q].new} \ {Null})
    /\ Answer(q)
    /\ UNCHANGED <<users, tokens, resets>>

\* A call rejects, its answer is lost, or the process dies.
Fail(q) ==
    /\ CanFail
    /\ req[q] # Idle
    /\ Answer(q)
    /\ UNCHANGED <<users, tokens, resets, delivered>>

Expire ==
    /\ \/ \E t \in Tokens : /\ Usable(tokens[t])
                            /\ tokens' = [tokens EXCEPT ![t].state = "expired"]
                            /\ UNCHANGED resets
       \/ \E r \in Resets : /\ Usable(resets[r])
                            /\ resets' = [resets EXCEPT ![r].state = "expired"]
                            /\ UNCHANGED tokens
    /\ UNCHANGED <<users, req, delivered>>

Step(q) ==
    \/ CreateRead(q) \/ CreateInsert(q)
    \/ LoginRead(q) \/ RefreshRead(q) \/ RefreshRevoke(q) \/ OpenSession(q) \/ StampLogin(q)
    \/ LogoutGuard(q) \/ LogoutRevoke(q)
    \/ ForgotRead(q) \/ ForgotInsert(q)
    \/ ConfirmRead(q) \/ ConfirmUse(q) \/ ConfirmFind(q) \/ ConfirmPassword(q) \/ ConfirmRevoke(q)
    \/ StatusRead(q) \/ StatusUpdate(q)
    \/ AppendAudit(q)

Next == Expire \/ \E q \in Slots : Step(q) \/ Fail(q)

Spec == Init /\ [][Next]_vars

-----------------------------------------------------------------------------
(* Properties *)

\* The tables and the requests in flight have the shape the schema and the handlers
\* give them (schema.prisma:95-145, auth.service.ts).
TypeOK ==
    /\ users \in [Users -> OrNull(UserRow)]
    /\ tokens \in [Tokens -> OrNull(TokenRow)]
    /\ resets \in [Resets -> OrNull(ResetRow)]
    /\ req \in [Slots -> RequestType]
    /\ delivered \subseteq Tokens \cup Resets

\* A session is only ever continued from a token that is spent: whatever requests
\* overlap or fail, a token that was exchanged for another of the same user cannot
\* be used again (refreshToken, auth.service.ts:167-236).
RotatedAreRevoked ==
    \A t \in Tokens : tokens[t] # Null /\ tokens[t].from # Null
        => LET old == tokens[tokens[t].from]
           IN  old # Null /\ old.state = "revoked" /\ old.user = tokens[t].user

\* However an address is written, it is one account: whoever registers it last finds
\* that it is taken, and whoever logs in finds it, whichever spelling was registered
\* (users.service.ts:17-29, 50-54).
OneAccountPerAddress ==
    \A u, v \in Users : users[u] # Null /\ LowerCase[v] = LowerCase[u]
        => users[LowerCase[v]] # Null /\ (users[v] # Null => v = u)

\* A refresh token stays with its user, once revoked stays revoked, and is revoked
\* only by a handler that acts for that user (auth.service.ts:167-261, 305-348).
TokensWither ==
    [][\A t \in Tokens : tokens[t] # Null
          => /\ tokens'[t] # Null /\ tokens'[t].user = tokens[t].user
             /\ tokens[t].state = "revoked" => tokens'[t].state = "revoked"
             /\ tokens[t].state # "revoked" /\ tokens'[t].state = "revoked"
                   => \E q \in Slots : req[q].pc = "revoke" /\ req[q].user = tokens[t].user]_vars

-----------------------------------------------------------------------------
(* What the repository says and the code does not do *)

\* Two tokens continue the session of one.
Forked(old) ==
    \E t, other \in Tokens :
        /\ t # other /\ tokens[t] # Null /\ tokens[other] # Null
        /\ tokens[t].from = old /\ tokens[other].from = old

\* "Returns 401 if the refresh token is expired or already used"
\* (auth.controller.ts:122): a refresh token is exchanged at most once, so a session
\* never forks.
ExchangedOnce == \A t \in Tokens : ~Forked(t)

=============================================================================
