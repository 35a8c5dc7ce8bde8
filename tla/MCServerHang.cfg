SPECIFICATION Spec
CONSTANTS
  NetTask = {move}
  Event = {think}
  Query = {store}
  WithCallback = {store}
  Signal = {sigterm}
  SaveGame = saveGame
  GameShutdown = gameShutdown
  Terminate = terminate
  NoTask = NoTask
  Task = {move, think, store, sigterm, saveGame, gameShutdown, terminate}
  Timed = {move}
  Producer = {dispatcherThread, networkThread, schedulerThread, databaseThread}
  DispatcherThread = dispatcherThread
  NetworkThread = networkThread
  SchedulerThread = schedulerThread
  DatabaseThread = databaseThread
  QueueBound = 4
  PostBound = 2
PROPERTIES
  AllThreadsEnd
CHECK_DEADLOCK FALSE
