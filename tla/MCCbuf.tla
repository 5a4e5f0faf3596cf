------------------------------- MODULE MCCbuf -------------------------------
EXTENDS Cbuf

CONSTANTS x, y

\* A write of one cell, and one as long as the buffer takes
Payloads == {<<x>>, <<x, y, y>>}
=============================================================================
