SPECIFICATION Spec
CONSTANTS
    Tokens = {t1, t2}
    None = None
    Minute = 1
    Hour = 5
    Day = 7
    MaxMails = 2
    MaxResets = 2
INVARIANTS
    LinksWorkOnce HourlyLimit
    MirrorsAgree HidesTheRest
PROPERTIES
    WayOut RedirectsEnd
