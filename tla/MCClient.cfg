SPECIFICATION Spec
CONSTANTS
    Urls <- Sites
    Parents <- Above
    PublicSuffixes = {"tld"}
    Methods = {"POST"}
    Bodies = {"bytes", "stream"}
    Schemes = {"digest"}
    Statuses = {200, 302, 307}
    MaxRedirects = 2
    Own = Own
    Extra = Extra
    Nowhere = Nowhere
    Malformed = Malformed
INVARIANTS CredentialsStayHome CookiesFit NothingHeld HistoryIsChain SendsBounded
