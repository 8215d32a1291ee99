SPECIFICATION Spec
CONSTANTS
    Places <- MCPlaces
    Names = {"x", "y", "z"}
    Trees <- MCTrees
    Configured <- MCConfigured
    Keys <- MCKeys
INVARIANTS RegistryIsWhatIsThere RemoteStartsWhole UserCallsFollowTheKey
CHECK_DEADLOCK FALSE
