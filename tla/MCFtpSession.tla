--------------------------- MODULE MCFtpSession ---------------------------
\* FtpSession for TLC.  The bounds are in the configurations: three calls of
\* FTPPutOneFile, of which an earlier one may have left its mark on the control
\* connection for the two later ones; a file of two blocks and a pipe of one, so
\* that a write can block; two attempts at PASV, so that the last one is reached.
EXTENDS FtpSession
============================================================================
