SPECIFICATION Spec
CONSTANTS
  Addr = {"local", "d1", "d2"}
  Local = "local"
  Clusters = {"onoff", "level", "color", "temperature", "humidity"}
  Offers <- MCOffers
  Raw <- MCRaw
  Inexact = {2005}
  MaxNodes = 2
  MaxEndpoints = 2
  MaxClusters = 2
  MaxCache = 2
  MaxNodeCaps = 2
  BusSize = 2
  NoValue = NoValue
INVARIANTS TypeOK CacheMirrors BrokerCurrent LocalShown
PROPERTIES SensorShown
