SPECIFICATION WindowSpec
CONSTANTS
    Subs = {s1}
    Devices = {d1}
    Tokens = {t1, t2}
    ActIds = {a1}
    Creds = {c1, c2}
    Req = {r1, r2}
    None = None
SYMMETRY Symmetry
INVARIANTS OneCredentialPerDevice AnswersWereTrue
PROPERTY TokenBuysActivation
