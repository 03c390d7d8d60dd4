\* Two orders at the exchange, the bot's and the owner's, and a token besides
\* the one of the earlier session.
SPECIFICATION FairAdapterSpec
CONSTANTS
    None = None
    OrderTypes <- LimitAndStop
    Received <- JustReceived
    MaxOrders = 2
    MaxTokens = 2
INVARIANTS
    CancelAllAccounts
PROPERTIES
    ImplementsBroker
    CancelAllEnds
    TokenNeverReverts
