----------------------------- MODULE MCSession ------------------------------
\* Model values for Session.tla.
EXTENDS Session

\* ANGLE binds every IOSurface or none.
MCRefusals == {{}, Bos}
=============================================================================
