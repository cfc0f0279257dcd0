\* Every kind of failing plugin in the lists of the option and the file, on
\* the command line and in the default.
SPECIFICATION FairSpec
CONSTANTS
    core = core
    ini = ini
    a = a
    b = b
    c = c
    d = d
    x = x
    z = z
    w1 = w1
    w2 = w2
    Names = {core, ini, a, b, c, d, x, z}
    Core = core
    Config = ini
    Loadable = {core, ini, a, b, c, d, x}
    Needs <- MCNeeds
    Broken = {x}
    Refused <- MCRefused
    Initials <- MCInitials
    Default <- MCDefault
    Lists <- MCLists
    Windows = {w1, w2}
    MaxChanges = 5
INVARIANTS
    PluginsAgree
    UpdateForgets
PROPERTIES
    UpdatesSettle
