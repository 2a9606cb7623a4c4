SPECIFICATION Spec
CONSTANTS
    Requests = {r1, r2}
    Addresses <- MCAddresses
    ToLower <- MCToLower
    Passwords = {p1, p2}
    Ids = {t1, t2, t3}
    Nobody = Nobody
    MaxSignUps = 3
    MaxSignIns = 2
    MaxFaults = 1
INVARIANTS
    OneTraderPerAddress
    RightUser
PROPERTIES PasswordKept
SYMMETRY MCSymmetry
