SPECIFICATION Spec
CONSTANTS
    TextRule <- MaskText
    UrlRule <- RedactUrl
    Pages <- MCPages
    Secrets <- MCSecrets
    MaxRedirects = 2
    MaxNested = 2
    MaxEncodings = 6
    None = None
INVARIANTS
    EntryIsChecked
    NothingHides
    BenignKept
    ReviewMatches
