CONSTANTS
    Providers = {kvm, aws}
    SpecDriven = {kvm, aws}
    Jumping = {kvm}
    Pinned = {kvm}
    Billed = {aws}
    Slugs = {base, kfk}
    Baseline = base
    OwnPlaybook = {kfk}
    JumpSlugs = {base}
    Images = {a, b}
    Profiles = {smoke}
    Floating = floating
    Unset = unset
    MaxRuns = 3
SPECIFICATION Spec
INVARIANTS
    TypeOK
    BackingIntact
    NoBumpUnderLab
    PlaysReadThisLab
    OkMeansAsAsked
CHECK_DEADLOCK FALSE
