\* Two scrapes that overlap with each other, with the start and with the
\* shutdown; each may hang or have a slow client.  A timeout below the grace
\* (a scrape begun late still outlasts it) and the default, equal to it.
CONSTANTS
  Requests = {r1, r2}
  Timeouts = {1, 2}
  Grace = 2
SPECIFICATION FairSpec
INVARIANTS TypeOK NoForeignValue AcceptedIsAnswered
PROPERTIES StopsWhenAsked
\* The program ends.
CHECK_DEADLOCK FALSE
