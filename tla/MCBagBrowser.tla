----------------------------- MODULE MCBagBrowser -----------------------------
EXTENDS BagBrowserProperties

MCReports == {6, 60}
===============================================================================
