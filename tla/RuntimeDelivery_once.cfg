SPECIFICATION Spec
CONSTANTS
    k1 = k1
    r1 = r1
    r2 = r2
    Keys = {k1}
    Calls = {c1, c2, c3}
    KeyOf <- MCKeyOf
    Payloads = {note, mail}
    Inbox = {mail}
    Runs = {r1, r2}
    Sessions <- MCSessions
    RunOf <- MCRunOf
    Sweeper = Sweeper
    None = None
    MaxMisreads = 1
    MaxTrims = 1
    MaxCrashes = 1
INVARIANTS TypeOK OneMessageUnlessRaced OneRowUnlessUnseen AnswersAreTrue CommitsWereSeen
PROPERTIES SupersededNeverWrites AnsweredNeverRewritten ImplementsOnceOnlyUnlessRaced
SYMMETRY MCSymmetry
CHECK_DEADLOCK FALSE
