SPECIFICATION Spec
CONSTANTS
    Users = {u1, u2}
    e1 = e1
    e2 = e2
    Emails <- MCEmails
    google = google
    github = github
    g1 = g1
    g2 = g2
    h1 = h1
    Providers <- MCProviders
    Subjects <- MCSubjects
    Reports <- MCReports
    ProviderOf <- MCProviderOf
    Google = google
    Sessions = {s1}
    Clients = {c1}
    Admin = Admin
    None = None
SYMMETRY Symmetry
INVARIANTS MethodRemains ErasedStaysOut
PROPERTIES LinkNeedsProof
