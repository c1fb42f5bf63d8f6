CONSTANTS
    None = None
    Users = {adm, u1}
    Admins = {adm}
    Passwords = {p1, p2}
    Tokens = {t1, t2}
    Threads = {h1, h2}
    UseMail = TRUE
    MaxRequests = 4
SPECIFICATION Spec
CHECK_DEADLOCK FALSE
SYMMETRY Symmetry
INVARIANTS
    LoginsKnowThePassword
    MailedPasswordsWereSet
PROPERTIES
    RevokedStaysRevoked
    OnlyOwnersGetIn
    ChangesReplaceWhatTheySaw
