\* Requests with every combination of fields, texts of five characters, and one
\* edit of each source.
CONSTANTS
    LineLimit = 10
    JobRequests <- MCJobRequests
    Answers <- MCAnswers
    DefaultModels = {"", "served"}
    Identifiers = {"user_id"}
SPECIFICATION Spec
CHECK_DEADLOCK FALSE
INVARIANTS
    AdmittedReachesInference
    PreviewPredicts
    SourceCarriedWhole
    CheckJudges
