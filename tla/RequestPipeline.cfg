\* Two requests, of any path, size and query, end in every way.
SPECIFICATION Spec
CONSTANTS
  Requests = {r1, r2}
  Paths = {"files", "api"}
  Queries <- MCQueries
INVARIANTS
  TypeOK
  AnswersMatchTheLog
  AccessLinesTellTheAnswers
  AnswersSayWhoMayEmbedThem
  TokensStayOutOfTheLog
SYMMETRY MCSymmetry
CHECK_DEADLOCK FALSE
