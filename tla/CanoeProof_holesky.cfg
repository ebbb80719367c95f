CONSTANTS
    Builds <- MCSp1Builds
    main = main
    late = late
    stale = stale
    holesky = holesky
    dev = dev
    other = other
    h = h
    hReorg = hReorg
    hOld = hOld
    router = router
    elsewhere = elsewhere
    NoAddress = NoAddress
    NoRules = NoRules
    NoSketch = NoSketch
    NoReceipt = NoReceipt
    Devnet = dev
    ListedChains <- MCListedChains
    Chains <- MCChains
    Blocks <- MCBlocks
    Addresses <- MCAddresses
    Rules <- MCRules
    Forks <- MCForks
    Certs <- MCCerts
    NumberOf <- MCNumberOf
    ChainOf <- MCChainOf
    Fork <- MCFork
    Contract <- MCContract
    Deployed <- MCDeployed
    TryFromGenesis <- MCTryFromGenesis
    CustomGenesis <- MCCustomGenesis
    SteelSpec <- MCSteelSpec
    SteelChains <- MCSteelChains
    RethSpec <- MCRethSpec
    AllowedSteelForks <- MCAllowedSteelForks
    Boots <- MCBoots
    Claims <- MCClaims
    ForeignInputs <- MCForeignInputs

SPECIFICATION Spec

INVARIANTS
    ListedChainsValidate
