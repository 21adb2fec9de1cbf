SPECIFICATION Spec
PROPERTY NotificationLeadsToApplied
PROPERTY ProposalsEnd
PROPERTY TasksFinish
CHECK_DEADLOCK FALSE
