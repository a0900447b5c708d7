CONSTANTS
    client = client
    bridge = bridge
    all = all
    exits = exits
    None = None
    Admin = Admin
    Nodes = {client, bridge}
    Followed = {client}
    Groups = {all, exits}
    All = all
    RoleGroups <- MCRoleGroups
    PolicyRules <- MCPolicyRules
    MaxEpoch = 5
SPECIFICATION Spec
INVARIANTS
    CompileSeesOneState
    TablesAgree
PROPERTIES
    ImplementsRegister
    InstalledNeverRegresses
CHECK_DEADLOCK FALSE
