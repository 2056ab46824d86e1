CONSTANT Requests <- MCRequests
SPECIFICATION FairSpec
INVARIANTS ReplyTellsTheRun OneOpenCodeAtATime TemporaryInputsLiveWithTheCall
PROPERTIES ImplementsOneInvocation CallEnds
