------------------------------ MODULE MCAreas ------------------------------
\* Two areas: an echo, and netmail that a scan of all leaves out and the scan
\* at the start takes.  Scanning takes the netmail first.
EXTENDS Areas
Order == <<2, 1>>
=============================================================================
