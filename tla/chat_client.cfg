\* One window over two conversations and a new one.
SPECIFICATION Spec
CHECK_DEADLOCK FALSE
CONSTANTS
    t1 = t1
    t2 = t2
    n = n
    main = main
    alt = alt
    None = None
    Threads = {t1, t2}
    Born = n
    Main = main
    Branches = {main, alt}
    Slots = 3
    TurnLength = 2
    Starts <- SomeStarts
    AutoStart = FALSE
INVARIANTS
    TypeOK
    ShownIsVisible
    NoForeignItem
PROPERTIES
    NewConversationKept
    ChosenIsShown
    TurnReachesScreen
    EditReachesScreen
