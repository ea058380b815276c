------------------------ MODULE MCNotifyDispatcher -------------------------
(* Model-checking instance of NotifyDispatcher: notify sections to reload. *)
EXTENDS NotifyDispatcher

Section(url, silence, agg) ==
  [enabled |-> TRUE, url |-> url, silence |-> silence, agg |-> agg]

Aggregating == Section("url1", 0, 2)
Silencing   == Section("url1", 3, 2)
Plain       == Section("url2", 2, 0)
NoChannel   == Section("", 0, 2)

MCConfigs == {Aggregating, Silencing, Plain, NoChannel}
=============================================================================
