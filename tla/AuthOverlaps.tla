---------------------------- MODULE AuthOverlaps ----------------------------
(***************************************************************************)
(* Auth with two history variables: the refresh and reset tokens that two  *)
(* requests relied on at once, and the reset tokens that have changed a    *)
(* password.                                                               *)
(***************************************************************************)
EXTENDS Auth

VARIABLES overlapped, redeemed

historyVars == <<vars, overlapped, redeemed>>

\* Between reading a refresh token and revoking it refreshToken relies on what it has
\* read, and resetPassword between reading a reset token and marking it used.  Requests
\* keep apart if no two of them do that with one token.  The code does not see to that; a
\* lock on the row would, or clients that never present a token twice at once.
Relying(q, t) ==
    req[q].token = t /\ (AtCall(q, "refresh", "revoke") \/ AtCall(q, "confirm", "use"))

Apart(t) == \A p, q \in Slots : p # q => ~(Relying(p, t) /\ Relying(q, t))

\* A step that writes the password a reset token allows
Redeems(q) == AtCall(q, "confirm", "password") /\ req'[q].pc = "revoke"

HistoryInit == Init /\ overlapped = {} /\ redeemed = {}
HistoryNext ==
    /\ Next
    /\ overlapped' = overlapped \cup {t \in Tokens \cup Resets : ~Apart(t)'}
    /\ redeemed' = redeemed \cup {req[q].token : q \in {p \in Slots : Redeems(p)}}
HistorySpec == HistoryInit /\ [][HistoryNext]_historyVars

\* No token is exchanged twice unless two refreshes of it have overlapped: failures,
\* resets, logouts and expiry do not fork a session, nor does anything that overtakes a
\* refresh that has revoked its token (refreshToken, auth.service.ts:167-236).
ExchangedOnceUntilOverlap == \A t \in Tokens \ overlapped : ~Forked(t)

\* A registered account keeps its password but for a confirmation whose reset token is
\* that user's, is marked used by then, and has changed no password before, unless two
\* confirmations of it have overlapped.  So neither a failure nor a second registration of
\* the address that is under way changes one (auth.service.ts:305-332,
\* users.service.ts:16-48); "The token is single-use" (auth.controller.ts:228) does not
\* survive the overlap.
OneChangePerReset ==
    [][\A u \in Users : users[u] # Null /\ users'[u].password # users[u].password
          => \E q \in Slots :
                LET r == req[q].token
                IN  /\ Redeems(q)
                    /\ resets[r] # Null /\ resets[r].user = u /\ resets[r].state = "used"
                    /\ r \in redeemed => r \in overlapped]_historyVars

=============================================================================
