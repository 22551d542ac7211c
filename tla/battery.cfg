SPECIFICATION ScanSpec
CONSTANTS
    m1 = m1
    m2 = m2
    None = None
    Modules <- MCModules
    Tiers <- MCTiers
    Cabinet <- MCCabinet
    Cabinets = {0, 1, 2}
    Gate = 2
    MaxChanges = 1
INVARIANTS ModuleInPlace LeftOutForSilence CabinetProven
SYMMETRY Symmetry
