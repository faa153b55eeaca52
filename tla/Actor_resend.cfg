\* Messages that send messages.
CONSTANTS
    Clients = {c1, c2}
    Self = self
    MaxSend = 2
    Resends = TRUE
SPECIFICATION FairSpec
 
PROPERTIES RunInOrder DestructorReturns
