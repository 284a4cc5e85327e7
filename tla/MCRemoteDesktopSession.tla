----------------------- MODULE MCRemoteDesktopSession -----------------------
EXTENDS RemoteDesktopSession, TLC
=============================================================================
