\* 64 bytes: a ClientHello with room for an extension that carries one name
\* or two empty ones, behind 44 bytes that every ClientHello has; lengths one
\* beyond what fits; connection identifiers one beyond 20.
CONSTANTS
  MaxLen = 64
  MaxByte = 21
  MaxField = 65
SPECIFICATION FairSpec
INVARIANTS TypeOK PanicsOnlyOnShortHello NameInsideList PayloadInsidePacket
PROPERTY ParserEnds
CHECK_DEADLOCK FALSE
