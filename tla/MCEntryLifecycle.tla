---------------------------- MODULE MCEntryLifecycle ----------------------------
EXTENDS EntryLifecycle

MCInverters == {"first"}
===============================================================================
