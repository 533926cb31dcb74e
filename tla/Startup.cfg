\* Every kind of address, up to three options in any order, repeated or
\* missing, and a failure at every step.
SPECIFICATION Spec
CONSTANTS
  Addresses = {"v4", "v4_no_port", "v6", "v6_no_port", "v6_mapped", "garbage"}
  MaxArgs = 3
INVARIANTS LoopIsReady ExitReleasesEverything NoDangling StartsUnlessFault
CHECK_DEADLOCK FALSE
