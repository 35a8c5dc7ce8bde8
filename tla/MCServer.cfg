SPECIFICATION Spec
CONSTANTS
  NetTask = {move}
  Event = {think}
  Query = {insert, store}
  WithCallback = {store}
  Signal = {sigterm}
  SaveGame = saveGame
  GameShutdown = gameShutdown
  Terminate = terminate
  NoTask = NoTask
  Task = {move, think, store, sigterm, saveGame, gameShutdown, terminate}
  Timed = {move}
  Producer = {dispatcherThread, networkThread, schedulerThread, databaseThread}
  DispatcherThread = dispatcherThread
  NetworkThread = networkThread
  SchedulerThread = schedulerThread
  DatabaseThread = databaseThread
  QueueBound = 3
  PostBound = 1
INVARIANTS
  OwnedOnce
  NoTaskLeftBehind
  QueriesDurable
  OnlyInHandOvertaken
  NoSleepOverWork
PROPERTIES
  ImplementsTaskQueue
  DispatcherAndSchedulerEnd
CHECK_DEADLOCK FALSE
