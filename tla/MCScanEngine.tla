----------------------------- MODULE MCScanEngine -----------------------------
\* ScanEngine on three tasks of two accounts, one of which may fail.
EXTENDS ScanEngine

CONSTANTS base, other

MCAccount == {base, other}

\* Launch order is by account: one task of the base account, two of the other.
MCOwner == <<base, other, other>>

MCMayFail == {other}
===============================================================================
