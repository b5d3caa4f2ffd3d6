SPECIFICATION Spec
CONSTANTS
    Mechs <- MCMechs
    Hooks <- MCHooks
    MaxMechs = 2
    MaxArgs = 4
INVARIANTS CopingTypeOK NothingHeldAtEnd RequestNeedsConsent HooksOrdered
