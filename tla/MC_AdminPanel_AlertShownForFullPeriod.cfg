CONSTANTS
    tab1 = tab1
    tab2 = tab2
    dom1 = dom1
    tok1 = tok1
    Tabs <- MCTabs
    Doms = {dom1}
    Tokens = {tok1}
    Null = Null
    Empty = Empty
    Period = 3
    MaxTimers = 2
    NoAlert = NoAlert
SYMMETRY MCSymmetry
SPECIFICATION Spec
PROPERTY AlertShownForFullPeriod
