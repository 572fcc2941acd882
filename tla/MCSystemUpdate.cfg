CONSTANTS
  FirstHwinfo <- MCFirstHwinfo
  MaxPolls = 2
  MaxChanges = 1
  MaxPresses = 2
SPECIFICATION FairSpec
INVARIANT TypeOK
INVARIANT SuccessIsReal
PROPERTY RebootsAreDue
PROPERTY StepsFollowSuccess
PROPERTY InstallEnds
PROPERTY ViewSettles
