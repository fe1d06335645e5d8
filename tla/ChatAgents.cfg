SPECIFICATION Spec
CONSTANTS
    p1 = p1
    p2 = p2
    s1 = s1
    first = first
    Null = Null
    Posts = {p1, p2, s1}
    Chats = {a, b}
    Threads = {t}
    Kind <- MCKind
    MessageId <- MCMessageId
    MaxRestarts = 1
    MaxFaults = 1
INVARIANTS
    RegistryIsTrue
    AnswersFollowQuestions
CHECK_DEADLOCK FALSE
