---------------------------- MODULE MCSessions ----------------------------
(* Values of the constants of BrowserTabs for TLC.  Tabs and the requests of *)
(* a tab are interchangeable; passwords are not, the first is the initial    *)
(* one.                                                                      *)
EXTENDS BrowserTabs, TLC

Interchangeable == Permutations(Tab) \cup Permutations(Request)
=============================================================================
