---------------------------- MODULE MCBackendConn ----------------------------
EXTENDS BackendConn

\* Two ordinary reported parameters and server_version.
MCParams == {"TimeZone", "DateStyle", "server_version"}

\* AuthOk, cleartext, MD5 and SASL (10).
MCAuthCodes == {0, 3, 5, 10}

\* A truncated body, a bare method code, and a code followed by data (a
\* SASL mechanism list, an MD5 salt).
MCBodyLengths == {2, 4, 8}

=============================================================================
