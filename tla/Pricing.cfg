CONSTANTS
  Listings <- MCListings
  Answers <- MCAnswers
  Backends = {"anthropic", "openai_compat", "ollama"}
  Ids = {1, 2}
  Offers <- MCOffers
  Refreshers = {"cron"}
  BatchSize = 1
  MinSamples = 2
  MinBaselineSamples = 2
  Threshold = 60
  Filters <- MCFilters
  MaxEvents = 3
SPECIFICATION MCSpec
CHECK_DEADLOCK FALSE
INVARIANTS AcceptedCanBePriced OneKeyPerProduct TitleDecides MonotoneInPrice
PROPERTIES ScoresSettle DealEventuallyAlerted
