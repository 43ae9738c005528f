SPECIFICATION RulesSpec
CONSTANTS
    hero = hero
    foe = foe
    bless = bless
    ward = ward
    hex = hex
    Actors = {hero, foe}
    NoOne = NoOne
    Effects = {bless, ward, hex}
    Unit = 2
    Pack <- MCPack
    Code <- MCCode
    Immune = {}
    Resistant = {foe}
    Vulnerable = {hero}
    Ability <- MCAbility
    Armor <- MCArmor
    Postures <- MCPostures
    Throws <- MCThrows
    Casters = {hero}
    MaxHp = 2
    MaxTemp = 1
    MaxPool = 1
    MaxFlag = 1
    MaxNodes = 6
    Reactions = 1
    MaxSteps = 8
    MaxTime = 1
    MaxWindows = 2
INVARIANTS TraitsOrdered
PROPERTIES DecidedOnce
CHECK_DEADLOCK FALSE
