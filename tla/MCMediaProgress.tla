---- MODULE MCMediaProgress ----
EXTENDS MediaProgress

\* Both tabs are open in one browser.
OneBrowser(t) == "browser"
WritersOf == [t \in Tabs |-> 2]
PacketsOf == [t \in Tabs |-> IF t = 1 THEN 2 ELSE 1]
====
