SPECIFICATION HistorySpec
CONSTANTS
    u1 = u1  u1upper = u1upper  pw1 = pw1  pw2 = pw2  k1 = k1  k2 = k2  k3 = k3  x1 = x1
    q1 = q1  q2 = q2
    Null = Null
    Users = {u1, u1upper}
    LowerCase <- OneAddress
    Passwords = {pw1, pw2}
    Tokens = {k1, k2, k3}
    Resets = {x1}
    Slots = {q1, q2}
    Targets <- Suspension
    CanFail = TRUE
INVARIANTS ExchangedOnce
