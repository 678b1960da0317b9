SPECIFICATION ParitySpec
CONSTANTS
    Cases <- MCCases
    Acts <- MCActs
    Missing = Missing
INVARIANT OkMeansAgreement
CHECK_DEADLOCK FALSE
