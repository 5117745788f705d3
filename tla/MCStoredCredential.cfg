SPECIFICATION Spec
CONSTANTS
    tab1 = tab1
    tab2 = tab2
    Tabs <- TwoTabs
    Setups <- MCSetups
    Windows = 2
    MaxJobs = 2
INVARIANTS
    ConfiguredIsFetched
