CONSTANTS
    Users = {u1}
    Passwords = {p1, p2}
    Tokens = {t1, t2}
    Links = {l1, l2}
    Reqs = {r1, r2}
    Life = 1
    Skew = 0
    MaxFailures = 1
    Ops = {"register", "login", "googleAuth", "refresh", "logout", "logoutAll", "changePassword", "forgotPassword", "resetPassword", "verifyEmail", "resendVerification", "deactivate", "reactivate", "reviewDriver"}
    None = None
SPECIFICATION MCSpec
SYMMETRY Symmetry
VIEW Unaudited
ACTION_CONSTRAINT InGroup
INVARIANTS TypeOK EndedIsRefused
PROPERTIES OnlyActiveAreServed
CHECK_DEADLOCK FALSE
