CONSTANTS
    conn1 = conn1
    put1 = put1  put2 = put2
    Nobody = Nobody
    Conns <- OneConn  Puts <- TwoPuts  Patches <- Toggles  Switches <- None
SPECIFICATION SettingsSpec
INVARIANTS SettingsCoherent
CHECK_DEADLOCK FALSE
