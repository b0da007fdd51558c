\* Two tabs of one browser, two accounts, three calls and one failed request;
\* a few tries on the pages behind the links in e-mails.
CONSTANTS
    t1 = t1
    t2 = t2
    a1 = a1
    a2 = a2
    Tab = {t1, t2}
    Account = {a1, a2}
    Cookies = TRUE
    MaxCalls = 3
    MaxFaults = 1
    MaxTries = 2
SYMMETRY BrowserSymmetry
SPECIFICATION BrowserSpec
CHECK_DEADLOCK FALSE
INVARIANTS
    SignOutLasts
    ShownTruly
    Permitted
    LinksTold
