SPECIFICATION Spec
CONSTANTS
    owner = owner
    guest = guest
    team = team
    i1 = i1
    i2 = i2
    c1 = c1
    c2 = c2
    c3 = c3
    Users = {owner, guest}
    Groups = {team}
    Owner <- MCOwner
    Invitations = {i1, i2}
    Invited <- MCInvited
    Calls = {c1, c2, c3}
    NoInvitation = NoInvitation
    MaxRemovals = 2
INVARIANTS TypeOK OwnerStays NoNeedlessInvitation NoReturnUninvited AcceptedIsMember
SYMMETRY MCSymmetry
CHECK_DEADLOCK FALSE
