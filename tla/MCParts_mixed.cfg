SPECIFICATION PartSpec
CONSTANTS
 Calls = {read, write, wrong, unknown}
 Known = {read, write, wrong}
 Valid = {read, write, unknown}
 ReadOnly = {read}
 HasSchema = TRUE
 MaxTurns = 3
 MaxCalls = 4
 MaxCorrections = 1
 MaxReply = 2
 MaxAttempts = 2
 Registry <- MCRegistry
 ValidatedOnes = {1}
 Samples = {"m1", "m2"}
 Historical = {"m1"}
 LegacyIds = {"l1", "l2"}
 FreshIds = {"f1"}
 Payloads <- MCPayloads
 SamplePayload <- MCSamples
 Editors = {e1, e2}
 MaxEdits = 2
 Prices = {0, 99, 100, 950, 999, 1000, 1001, 10000}
 Hours = 4
 Alphabet <- MCAlphabet
 Listings = {"taxi", "hotel", "tour"}
 KindOf <- MCKindOf
 Shared = {"tour"}
 MaxPrice = 2
 MaxWeight = 2
 MaxChangesMeanwhile = 2
 Ids = {"j", "v"}
 OwnerOf <- MCOwnerOf
 MaxMeanwhile = 1
 Tools = {"search", "get", "create"}
 MaxToolCalls = 2
 AtFirst <- MCAtFirst
INVARIANT StoredAggregatesAreSound
CHECK_DEADLOCK FALSE
