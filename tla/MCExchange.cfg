SPECIFICATION Spec
CONSTANTS
    Version <- MCVersion
    Size <- MCSize
    ETags <- MCETags
    UserHeaders <- MCUserHeaders
INVARIANTS TypeOK AsksForItsBytes  ProbeTruthful
