SPECIFICATION Spec
CONSTANTS
    Nibble = 2
    Shortest = 3
    Longest = 5
    Symbols = 10
    Nothing = Nothing
    Points <- MCPoints
    Bytes <- MCBytes
    Absent = Absent
    Refused = Refused
    CodeTables = {}
    UnicodeFiles = {}
    Strings <- MCStrings
    Limits = {1, 2}
    Texts <- MCTexts
    Packages <- MCPackages
    GROUPS <- MCGroups
    SKIP_METHODS = {"__ne__"}
    SKIPPED <- MCAllowed
    Underscored = {"_VERSION"}
    BySyntax = {"__eq__"}
    Slug <- MCSlug
    Batch = 3
    Unset = Unset
INVARIANT TypesShowPrograms
CHECK_DEADLOCK FALSE
