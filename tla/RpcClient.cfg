\* Two kills, so that half lines of two lost connections meet in the buffer;
\* the four requests of a new connection, and two more once they are answered.
CONSTANTS
  MaxInFlight = 2
  MaxKills = 2
SPECIFICATION FairSpec
INVARIANTS TypeOK TimersFollowSocket ViewsHoldTheirKind StatusIsTheServers
PROPERTIES Reconnects DiagnosticEnds
