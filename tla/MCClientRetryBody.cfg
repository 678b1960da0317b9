SPECIFICATION Spec
CONSTANTS
    Urls <- Sites
    Parents <- Above
    PublicSuffixes = {"tld"}
    Methods = {"POST"}
    Bodies = {"stream"}
    Schemes = {"digest"}
    Statuses = {200}
    MaxRedirects = 1
    Own = Own
    Extra = Extra
    Nowhere = Nowhere
    Malformed = Malformed
INVARIANT RequestIsWhole
