SPECIFICATION Spec
CONSTANTS
    Subs = {s1}
    Devices = {d1, d2}
    Tokens = {t1}
    ActIds = {a1, a2}
    Creds = {c1, c2}
    Req = {r1, r2}
    None = None
SYMMETRY Symmetry
INVARIANTS
    TypeOK
    OneActiveDevice
    CredentialNeedsActiveDevice
PROPERTIES
    SeatIsHandedOver
    ImplementsLicence
