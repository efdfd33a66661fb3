CONSTANTS
    Lines <- MCLines
    Typed <- MCTyped
    Leftovers = {"set", "7"}
    Junk = {0, 3}
    Hosts <- MCHosts
    MaxCommands = 2
    MaxLosses = 1
SPECIFICATION FairSpec
INVARIANTS
    CommandsMeanWhatTheySay
PROPERTIES
    JoinsTheNetwork
