---------------------------- MODULE MCPmuEncode ----------------------------
(* An instance of PmuEncode for TLC: a config of four bits, two keys whose *)
(* ranges meet, overlap, run backwards or beyond the config, and events    *)
(* that use them with values that fit their fields and that do not.        *)
EXTENDS PmuEncode

File(f, l, h) == [field |-> f, lo |-> l, hi |-> h]
SomeFormats ==
  {File("config", 0, 1), File("config", 2, 3), File("config", 1, 1), File("config", 2, 1),
   File("config", 3, 0), File("config", 3, 9), File("config", 5, 6), File("config", Junk, 2),
   File("config", 2, Junk), File("other", 0, 3)}

T(k, v)  == [kind |-> "term", key |-> k, val |-> v]
Empty    == [kind |-> "empty", key |-> "unknown", val |-> {}]
Bad      == [kind |-> "malformed", key |-> "unknown", val |-> {}]
SomeLines ==
  {<<>>, <<T("event", {0, 1})>>, <<T("event", {0, 1, 2}), T("gt", {0})>>,
   <<T("gt", {0, 1}), Empty, T("event", {1})>>, <<T("event", {0}), T("event", {1, 3})>>,
   <<T("config", {0, 3}), T("gt", {1})>>, <<T("event", {0}), T("config1", {0})>>,
   <<T("gt", {0}), Bad>>, <<T("unknown", {1}), T("event", {0})>>}
=============================================================================
