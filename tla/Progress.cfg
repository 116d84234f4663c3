SPECIFICATION FairSpec
PROPERTIES ServiceProgress WinIsPaid 
CHECK_DEADLOCK FALSE
