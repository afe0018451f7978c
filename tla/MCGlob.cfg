SPECIFICATION Spec
CONSTANTS
  Questions <- MCQuestions
INVARIANTS
  TypeOK
  MatchesAsDescribed
  VerdictsFollowSyntax
