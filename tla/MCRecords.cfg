SPECIFICATION Spec
CONSTANTS
    SimplefinAnswers <- MCSimplefin
    SnaptradeAnswers <- MCSnaptrade
    Conns <- MCConns
    Display <- MCDisplay
    Displays <- MCDisplays
    Absent = Absent
    Bounded = TRUE
INVARIANTS
    TypeOK
    ReportFaithful
    OwnRulesHold
    DuplicatesFromOneAnswer
PROPERTIES
    VerdictSticks
CONSTRAINT Explored
