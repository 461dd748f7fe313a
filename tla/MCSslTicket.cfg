SPECIFICATION Spec
CONSTANTS
    Lifetimes = {0, 1, 2}
    MaxLifetime = 2
    Builds <- AllBuilds
    MaxTickets = 1
    Gone = Gone
INVARIANTS
    LiveTicketsResume
    LifetimeIsKept
    TicketsComeBack
