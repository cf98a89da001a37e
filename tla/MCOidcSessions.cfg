CONSTANTS
    login1 = login1  visit1 = visit1  visit2 = visit2  viewer = viewer
    Logins = {login1}  Visits = {visit1, visit2}  Groups = {viewer}
    Outside = Outside  Sidless = {}  NoOne = NoOne  MaxPending = 1  MaxAnswers = 1
SPECIFICATION OidcSpec
INVARIANTS OldRefreshTokenIsNotReused
CHECK_DEADLOCK FALSE
