SPECIFICATION RetrievalSpec
CHECK_DEADLOCK FALSE
CONSTANTS
    Text = {1, 2, 3}
    Doc <- DocOf
    Key <- KeyOf
    Size <- SizeOf
    Blank = Blank
    Scores = {0, 1}
    TopKs = {2, 3}
    CandidateK = 2
    CommonMultiple = 238266
    Reranking = {TRUE, FALSE}
    RerankMaxPerDoc = 2
    MaxChars = 2
    MaxPerDocument = 2
    MaxChanges = 1
INVARIANTS
    NumbersMatchCitations
    CitationsDiffer
    CitedUnlessCrowded
PROPERTY
    SameAsStoreHybrid
