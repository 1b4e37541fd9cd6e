SPECIFICATION TokensSpec
CONSTANTS
 Posts = {p1, p2}
 MaxTokens = 3
 MaxStarts = 2
 NoToken = NoToken
PROPERTY RefreshedAutomatically
CHECK_DEADLOCK FALSE
