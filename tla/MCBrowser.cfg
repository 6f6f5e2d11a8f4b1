CONSTANTS
    h = h
    a = a
    p = p
    q = q
    e1 = e1
    s1 = s1
    s2 = s2
    i1 = i1
    Sections <- MCSections
    Home = h
    OfferSections <- MCOfferSections
    Projects <- MCProjects
    Nil = Nil
    Slots <- MCSlots
    Reentry = 1
    Dwell = 1
    LongDwell = 2
    Cooldown = 1
    MaxSubmits = 3
    Ambiguous <- MCAmbiguous
    MaxExchanges = 2
    None = None
    Empty = Empty
    Typed = Typed
    SectionIds <- MCSectionIds
    Interests <- MCInterests
    Activated = Activated
    Engaged = Engaged
    Nobody = Nobody
    MaxWrites = 2
SPECIFICATION MCSpec
INVARIANTS
    InvitationStands
    InvitationMatches
    BusyMatches
    ContinuationFresh
    HistoryFaithful
    LineIsTrue
    InterestIsHeld
PROPERTIES
    QualifiedIsAsked
    NoLateWrites
    RequestEnds
    Settles
\* The visitor may simply stop.
CHECK_DEADLOCK FALSE
