SPECIFICATION SafeSpec
CONSTANTS
    Crawls = {c}
    Urls = {t, u, v, w}
    NoUrl = NoUrl
PROPERTIES
    FiveRedirects
