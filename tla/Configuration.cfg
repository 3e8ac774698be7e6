SPECIFICATION Spec
CONSTANTS
    Builtin = {"builtin"}
    Custom = {"custom"}
    Models = {"m1", "m2"}
    Order <- ConstOrder
    DefaultBinding <- ConstDefaultBinding
    UserTemplates = {"t1", "t2"}
    Threads = {a, b}
    HardLimit = 2
    ProviderBodies <- ConstProviderBodies
    TemplateBodies <- ConstTemplateBodies
    Updates <- ConstUpdates
    Packages <- ConstPackages
    MaxChanges = 3
    Unborn = Unborn
    Deleted = Deleted
SYMMETRY ThreadsAlike
INVARIANTS
    SelectedExists
PROPERTIES
    UpdatesKeepOthers
    FrozenAsConfigured
CHECK_DEADLOCK FALSE
