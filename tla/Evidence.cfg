SPECIFICATION Spec
CHECK_DEADLOCK FALSE
PROPERTIES ReceiptsAreTrue ChecksShowWhatTheyRan ChangesAreTold ProofsClaimNoMore WorkAndAccountsAreKept
