SPECIFICATION Spec
CONSTANTS
    p1 = p1  p2 = p2  b1 = b1  b2 = b2  f1 = f1  f2 = f2  r1 = r1  r2 = r2
    a = a  A = A  B = B  n1 = n1  n2 = n2  g1 = g1  q1 = q1  q2 = q2
    Null = Null  Keep = Keep
    Properties = {p1, p2}
    Buildings = {b1, b2}
    Floors = {f1, f2}
    Rooms = {r1}
    Codes = {a, A, B}
    Upper <- UpperCase
    Names = {n1, n2}
    Numbers = {g1}
    Slots = {q1, q2}
    CanFail = TRUE
SYMMETRY Interchangeable
INVARIANTS CodesDistinct
PROPERTIES HomesFixed PlacedUnlessMoved
