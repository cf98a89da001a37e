CONSTANTS
    ann = ann  ben = ben  r1 = r1  r2 = r2
    admin = admin  viewer = viewer  curator = curator
    Admin = admin  Viewer = viewer  Free = Free
    Bootstrap = ann
    Users <- TwoUsers  SsoUsers <- OnlyBen  Requests <- TwoRequests
    GrantedRoles <- GivenRoles  ManagedRoles <- CuratorGroup
    MaxPassword = 2
SYMMETRY Symmetry
SPECIFICATION Spec
INVARIANTS NoDeadlock
CHECK_DEADLOCK FALSE
