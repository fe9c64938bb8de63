SPECIFICATION FairSpec
CONSTANTS
    Speakers = {hud, chat}
    Replying = {chat}
    MaxLines = 4
INVARIANTS
    TypeOK
    OneVoice
    FreshReply
PROPERTIES
    LinesEnd
CHECK_DEADLOCK FALSE
