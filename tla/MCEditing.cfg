SPECIFICATION Spec
CONSTANTS
    None = None
    Mist = Mist
    u1 = u1
    u2 = u2
    near = near
    far = far
    Device = {near, far}
    photo = photo
    LocalWallpaper = {photo, i1}
    Builtin = {Mist}
    Web = {web, pack}
    Packaged = {pack}
    Stored <- MCStored
    Pictured <- MCPictured
    Urls = {u1}
    Icons = {"text"}
    Columns = {8}
    Styles = {"medium"}
    Overlays = {16}
    Engines = {"baidu", "google"}
    OutdatedLooks <- MCOutdatedLooks
    OutdatedOverlays = {16, 58}
    Retired = {"dawn"}
    KnownUrls = {u1}
    Titles <- MCTitles
    Defaults <- MCDefaults
    Start <- MCStart
    Scenarios <- MCScenarios
    MaxFolderDepth = 2
    MaxDlStackDepth = 4
    MaxShortcuts = 9
    MaxGroups = 5
INVARIANTS
    Visible
    OrderIsTotal
    NothingVanishes
    MergeCommutes
    Resolvable
    AcceptIsFaithful
    AcceptSettles
    LocalIsStored
PROPERTIES
    ImportIsFiled
    DropTakesPlace
    RotationMoves
CHECK_DEADLOCK FALSE
