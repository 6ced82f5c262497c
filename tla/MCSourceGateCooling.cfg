CONSTANTS
    history1 = history1
    history2 = history2
    stock = stock
    poll = poll
    eod = eod
    quotes = quotes
    pages = pages
    Pooled = {history1, history2, stock}
    Direct = {poll}
    Guarded = {history1, history2, poll}
    Sources = {eod, quotes, pages}
    SourceOf <- MCSourceOf
    Slots = 1
    Threshold = 2
    BaseCooldown = 1
    MaxCooldown = 2
    OpensCap = 2
SPECIFICATION Spec
INVARIANTS
    NoRequestWhileCooling
