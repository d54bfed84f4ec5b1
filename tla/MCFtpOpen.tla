----------------------------- MODULE MCFtpOpen -----------------------------
\* FtpOpen for TLC: every type of firewall; two opens of the same connection, so
\* that what the first leaves behind meets the second; two dials in each, so that
\* what a failed dial leaves behind meets the next.
EXTENDS FtpOpen
AllFirewalls == AllFirewallTypes
=============================================================================
