SPECIFICATION FairSpec
CONSTANTS
    Subs = {s1}
    Devices = {d1}
    Tokens = {t1}
    ActIds = {a1}
    Creds = {c1}
    Req = {r1, r2}
    None = None
PROPERTY RequestsAreAnswered
