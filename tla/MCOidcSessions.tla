---------------------------- MODULE MCOidcSessions ----------------------------
\* One session and two requests with its cookie.
EXTENDS OidcSessions

CONSTANTS login1, visit1, visit2, viewer
=============================================================================
