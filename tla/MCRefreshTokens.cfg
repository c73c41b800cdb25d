CONSTANTS
    ann = ann
    eve = eve
    phone = phone
    laptop = laptop
    desk = desk
    Users = {ann, eve}
    Devices = {phone, laptop, desk}
    OwnerOf <- MCOwnerOf
    Tokens = {t1, t2, t3}
    NoRow = NoRow
    NoToken = NoToken
SPECIFICATION Spec
CONSTRAINT MCBound
SYMMETRY Symmetry
VIEW WithoutAlarms
INVARIANTS
    TypeOK
    OneLivePerLogin
PROPERTIES
    AlarmEndsTheFamily
    NewTokensAreEarned
