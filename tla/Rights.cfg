\* Two tabs: sign-ins, edits of accounts and roles, enrolments.
SPECIFICATION Spec

CONSTANTS
    a = a
    b = b
    c = c
    super = super
    staff = staff
    extra = extra
    t1 = t1
    t2 = t2
    Operators = {a, b, c}
    Superadmins = {a, b}
    Staff = {}
    Roles = {super, staff, extra}
    Super = super
    StaffRole = staff
    Perms = {"sessions.manage"}
    Tabs = {t1, t2}
    MaxRevision = 3
    MaxSecrets = 2

\* Two handlers can remove the last accounts: nobody can sign in then.
CHECK_DEADLOCK FALSE

SYMMETRY Alike
CONSTRAINT OneChange

INVARIANTS
    OneLiveSession
    
    
    OnMeansProven

PROPERTY SuperadminKept
