--------------------------- MODULE MCServerProcess ---------------------------
EXTENDS ServerProcess

\* Clients whose clock is up to two ticks late or ahead: a timestamp may be
\* accepted at either edge of the window.
MCSkews == {-2, 0, 2}
=============================================================================
