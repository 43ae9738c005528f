SPECIFICATION TacticsSpec
CONSTANTS
    hero = hero
    foe = foe
    Nowhere = Nowhere
    Actors = {hero, foe}
    Ai = {foe}
    Arena <- MCArena
    Road <- MCRoad
    Field <- MCField
    Starts <- MCStarts
    Radius <- MCRadius
    Speed <- MCSpeed
    Budgets = {20}
    Reach = 10
    Hates <- MCHates
    Friends <- MCFriends
    Duty <- MCDuty
    Bias <- MCBias
    MaxHp = 3
    Remembers = 2
    MaxPlans = 3
INVARIANTS RoutesAreShortest StandsWhereItOccupies NobodyOverlaps SightIsExact
CHECK_DEADLOCK FALSE
