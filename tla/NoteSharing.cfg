SPECIFICATION Spec
CONSTANTS
    Owners = {o1, o2}
    Members = {m1, m2}
    Inviting = {o1}
    Invited = {m1}
    Renewing = {m1}
    o1 = o1
    o2 = o2
    m1 = m1
    m2 = m2
    None = None
    MaxEpoch = 3
    MaxKeys = 2
    MaxSharingKeys = 2
    MaxInvites = 1
    MaxTitles = 1
CHECK_DEADLOCK FALSE
INVARIANTS OneKeyPerEpoch OnlyMembersRead
PROPERTIES TitlesKept MembersCatchUp
