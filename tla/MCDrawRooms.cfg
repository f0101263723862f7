SPECIFICATION Spec
CONSTANTS
    a = a
    b = b
    w1 = w1
    w2 = w2
    chat = chat
    group = group
    owner = owner
    Sockets = {a, b}
    Workers = {w1, w2}
    Home <- MCHome
    Chats = {chat}
    Parties <- MCParties
    Groups = {group}
    Creator <- MCCreator
    Invitees <- MCInvitees
    NoRoom = NoRoom
    Leavers = {a}
    MaxTasks = 1
    MaxJoins = 1
    MaxLeaving = 1
INVARIANTS TypeOK MembershipKnown 
CHECK_DEADLOCK FALSE
