\* Two events, three descriptors, two scrapes that overlap with each other,
\* with Close and with a second Available.
CONSTANTS
  Events = {"busy", "rc6"}
  Fds = {3, 4, 5}
  Updaters = {u1, u2}
SPECIFICATION Spec
INVARIANTS TypeOK OwnsItsDescriptors OneHandlePerEvent
PROPERTIES OpenUntilClosed
