SPECIFICATION FairSpec
CONSTANTS
    e1 = e1
    e2 = e2
    e3 = e3
    Evidence = {e1, e2, e3}
    Plaintiff = plaintiff
    Defendant = defendant
    Parties = {plaintiff, defendant}
    Owner <- MCOwner
    NoParty = NoParty
    Ghost = Ghost
    MaxRetries = 2
    MaxOpinions = 2
    MaxConferences = 2
CHECK_DEADLOCK FALSE
INVARIANTS BoardConsistent RecordsMatchBoard NothingPrivateDisclosed
PROPERTIES SilenceIsNoConsent ConferenceEnds BoardSpec
