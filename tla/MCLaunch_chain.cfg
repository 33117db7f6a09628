SPECIFICATION Spec
CONSTANTS
    Ids <- OneId
    Builds = {"diy", "hardened", "host", "manager"}
    Changeable = {"helper.py", "send_gate.py", "confirm", "icon", "python", "read_policy", "blocklist", "allowlist", "send_policy", "bundle"}
    Edited = {"read_policy", "blocklist", "allowlist"}
    EditShapes <- EditsLeave
    MaxChanges = 2
INVARIANTS
    ExitNamesAFault
    AcceptedByBoth
    HiddenStaysHidden
PROPERTIES
    OnlyRootGrants
    DamageNeverOpens
