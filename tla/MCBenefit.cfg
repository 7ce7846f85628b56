SPECIFICATION BenefitSpec
CONSTANTS
 U64_MAX = 7
 BASE_MAX = 2
 POS_PER_PAGE = 1
 NEG_PER_PAGE = 2
 NEG_PER_REBUILD = 1
 TRIAL_PAGES = 9
INVARIANTS
 EncodeIsSafe
 ChargesAreConserved
 ScalingNeverOvercounts
PROPERTY
 PagesAreCountedOnce
CHECK_DEADLOCK FALSE
