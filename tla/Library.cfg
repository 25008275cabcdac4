CONSTANTS
    IcdNames = {"swapchain", "surface", "a"}
    TbmFormats = {"RGBA8888", "XRGB8888", "ARGB8888", "RGB565"}
    MaxItems = 4
    MaxLimit = 6
    MapKinds = {"int32", "int64", "string"}
    Words = {0, 1}
    BucketBits = 1
    MaxData = 3
    Heads = {h1, h2}
    Elements = {e1, e2, e3}
    NoNode = NoNode
SPECIFICATION MCSpec
CHECK_DEADLOCK FALSE
INVARIANTS
    OneRoundIsEnough
    RepliesHonest
    ExtensionsOnce
    FormatsCreatable
    DataFreedOnce
    ListsMatch
PROPERTY ImplementsMap
