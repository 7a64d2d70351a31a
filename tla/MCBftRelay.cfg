SPECIFICATION Spec
CONSTANTS
    COMMIT_FLAG = 2
    MaxU64 = 15
    MaxSignatures = 2
    MAX_HEADER_COUNT = 2
    MAX_HARDFORKS_PER_BLOCK = 1
    MAX_TERMINATED_FINALIZERS = 2
    Finalizers = {1, 2}
    Namespaces <- MCNamespaces
    NamespaceChoices <- MCNamespaceChoices
    ParameterInputs <- MCParameterInputs
    StartHeights = {0, 2}
    HeaderChoices <- MCHeaderChoices
    BlockChoices <- MCBlockChoices
    MaxProposals = 2
    MaxVotes = 2
    MaxHops = 2
INVARIANTS
    TypeOK
    AcceptedIsPrecommitted
    CertificateIsForItsBlock
    ChainOfCertificates
    BundlesStayValid
    ReproposalKeepsItsHash
CHECK_DEADLOCK FALSE
