CONSTANTS
    parent = parent
    same = same
    other = other
    admin = admin
    guest = guest
    d1 = d1
    d2 = d2
    d3 = d3
    p1 = p1
    p2 = p2
    Items = {parent, same, other}
    Nested = {same, other}
    ParentOf <- Below
    UserOf <- Roles
    DatabaseOf <- Places
    Users = {admin, guest}
    Databases = {d1, d2, d3}
    Passwords = {p1, p2}
    None = None
    Unreadable = Unreadable
    MaxOps = 2
    MaxAdmin = 0
SPECIFICATION Spec
INVARIANT RetryOffered
