------------------------ MODULE MCConnectionSettings ------------------------
\* One connection and the bodies two PUTs may send to it.
EXTENDS ConnectionSettings, TLC

CONSTANTS conn1, put1, put2

OneConn == {conn1}
TwoPuts == {put1, put2}
None == {}

\* One or two settings at a time, as the toggles of the form send them.
Toggles == UNION {[ks -> BOOLEAN] : ks \in {{k} : k \in Keys} \cup {{"scan", "tracking"}}}
=============================================================================
