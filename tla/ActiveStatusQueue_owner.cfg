SPECIFICATION Spec
CONSTANTS
    b1 = b1
    b2 = b2
    u1 = u1
    u2 = u2
    d1 = d1
    d2 = d2
    r1 = r1
    r2 = r2
    Businesses = {b1, b2}
    Providers = {"Wolt"}
    Users = {u1}
    Manages <- OneUser
    Devices = {d1}
    Runs = {}
    Batch = 10
    Faults = {}
INVARIANT ClosedIsQueued
