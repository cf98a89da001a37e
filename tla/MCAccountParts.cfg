CONSTANTS
    ann = ann  ben = ben  r1 = r1  r2 = r2
    admin = admin  viewer = viewer  curator = curator
    Admin = admin  Viewer = viewer  Free = Free
    Bootstrap = ann
    Users <- TwoUsers  SsoUsers <- OnlyBen  Requests <- TwoRequests
    GrantedRoles <- GivenRoles  ManagedRoles <- CuratorGroup
    MaxPassword = 2
    conn1 = conn1  conn2 = conn2
    put1 = put1  put2 = put2  switch1 = switch1  switch2 = switch2
    Nobody = Nobody
    Conns <- TwoConns  Puts <- TwoPuts  Patches <- FewToggles  Switches <- TwoSwitches
SYMMETRY Symmetry
SPECIFICATION MCSpec
INVARIANTS LastAdminOnlyLostBlindly SessionsFollowTheirUser
    OnlyGrantsDeadlock
    SwitchNeverConflicts
PROPERTIES UnsentSettingsSurvive
CHECK_DEADLOCK FALSE
