\* ch has room for one: the forwarders contend for it, and Gather may be slower
\* than both of them.  Either source may hang, or outlive the scrape, while the
\* other one ends.
CONSTANTS
  Sources <- MCSources
  MaxMetrics <- MCMaxMetrics
  OutCap = 1
SPECIFICATION FairSpec
INVARIANTS TypeOK NoSendOnClosed SuccessIsComplete OneVerdictEach
PROPERTIES ImplementsScrapeSpec UpdaterNeverStuck GoroutinesEnd
\* The system stops when the scrape is over and no source is left running.
CHECK_DEADLOCK FALSE
