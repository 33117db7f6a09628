SPECIFICATION Spec
CONSTANTS
    Ids <- OneId
    Builds = {"host"}
    Changeable = {"blocklist"}
    Edited = {}
    EditShapes = {}
    MaxChanges = 1
INVARIANTS
    ListedIsHidden
