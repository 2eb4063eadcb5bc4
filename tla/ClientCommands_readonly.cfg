\* One session of one cursor; the tools as tools.rs annotates them.
SPECIFICATION Spec
CONSTANTS
  MaxSession = 1
  MaxCursor = 1
  MaxPosition = 1
  MaxHits = 1
  StepsPerSequence = 1
  Installers = {i1}
  MaxVersion = 1
PROPERTY ReadOnlyToolsChangeNothing
CHECK_DEADLOCK FALSE
