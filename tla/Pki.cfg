\* Two users on one token, KMS or keys in memory; a certificate authority.
CONSTANTS
    Users = {u1, u2}
    Slots = {"slot1", "slot2"}
    CurrentSlot = "slot1"
    Stores = {"kms", "kms2", "inmem", "testprov"}
    Kms = {"kms", "kms2"}
    MaxListed = 2
    Scenarios <- MCScenarios
SYMMETRY Symmetry
SPECIFICATION Spec
INVARIANTS PairsWhole ExportedKeyLoads IssuedWithinProfile IssuerForProfile
CHECK_DEADLOCK FALSE
