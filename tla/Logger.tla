------------------------------- MODULE Logger -------------------------------
(***************************************************************************)
(* The Logger singleton as the threads of the program use it: the LOG_     *)
(* macros, log, defaultOutput with rollOver, and setLoggerFileName. None   *)
(* of them takes mutex_. The log file is one descriptor of the process,    *)
(* among those that the rest of the program opens and closes; open takes   *)
(* the lowest free one.                                                    *)
(*                                                                         *)
(* The texts are left out, with the tag that log puts before a line        *)
(* (another thread's macro may have changed logLevel_ by then, and the     *)
(* line gets its tag), and so is a g_output other than the default         *)
(* (AsyncLogging has its own module).                                      *)
(***************************************************************************)
EXTENDS Naturals, FiniteSetsExt

CONSTANTS Threads, MaxFd,  \* descriptors 1..MaxFd; 0 stands for -1
          MaxCalls         \* bound on the calls of each thread

ASSUME LoggerAssumption == MaxFd \in Nat \ {0} /\ MaxCalls \in Nat

VARIABLES logLevel_, allowRecord, log_file_fd_,
          due,       \* now >= nextRollOverTime_
          table,     \* the descriptors: "free", "log" or "other"
          conn,      \* descriptors that other parts of the program think they own
          at, level, \* of every thread: where it is, and the macro it is in
          ended,     \* exit was called
          calls,
          harm,      \* history: the logger wrote to or closed a descriptor of others
          overlap    \* history: two threads used the log file at the same time

logVars == <<logLevel_, allowRecord, log_file_fd_, due>>
fdVars  == <<table, conn, harm>>
loggerVars == <<logVars, fdVars, at, level, ended, calls, overlap>>

Levels == {"INFO", "ERROR", "FATAL"}

LoggerTypeOK ==
    /\ logLevel_ \in Levels /\ allowRecord \in BOOLEAN /\ due \in BOOLEAN
    /\ log_file_fd_ \in 0..MaxFd
    /\ table \in [1..MaxFd -> {"free", "log", "other"}] /\ conn \subseteq 1..MaxFd
    /\ at \in [Threads -> {"idle", "log", "test", "close", "open", "stamp", "write",
                          "level", "return", "nameClose", "nameOpen"}]
    /\ level \in [Threads -> Levels]
    /\ ended \in BOOLEAN /\ harm \in BOOLEAN /\ overlap \in BOOLEAN /\ calls \in [Threads -> 0..MaxCalls]

(* The constructor opened the file; nextRollOverTime_ is 0, so the first   *)
(* line rolls over. logLevel_ is uninitialized, and set before it is read. *)
LoggerInit ==
    /\ logLevel_ \in Levels /\ allowRecord = TRUE /\ log_file_fd_ = 1 /\ due = TRUE
    /\ table = [fd \in 1..MaxFd |-> IF fd = 1 THEN "log" ELSE "free"] /\ conn = {}
    /\ at = [t \in Threads |-> "idle"]
    /\ level = [t \in Threads |-> "INFO"]
    /\ ended = FALSE /\ harm = FALSE /\ overlap = FALSE /\ calls = [t \in Threads |-> 0]

-----------------------------------------------------------------------------
(* The kernel.                                                             *)
Lowest == IF \E fd \in 1..MaxFd : table[fd] = "free"
          THEN Min({fd \in 1..MaxFd : table[fd] = "free"}) ELSE 0
Opened(owner) == [fd \in 1..MaxFd |-> IF fd = Lowest THEN owner ELSE table[fd]]
Closed(n) == [fd \in 1..MaxFd |-> IF fd = n THEN "free" ELSE table[fd]]
Foreign(fd) == fd \in 1..MaxFd /\ table[fd] = "other"

(* Between the test for the roll-over and the write, or in                 *)
(* setLoggerFileName, a thread uses log_file_fd_.                          *)
UsesFile == {"test", "close", "open", "stamp", "write", "nameClose", "nameOpen"}

Go(t, from, to) ==
    /\ ~ended /\ at[t] = from
    /\ at' = [at EXCEPT ![t] = to]
    /\ overlap' = (overlap \/ (to \in UsesFile /\ \E u \in Threads \ {t} : at[u] \in UsesFile))

(* Mutant: a failed open leaves the old number in log_file_fd_.            *)
OldFdIfFailed(fd) == IF fd = 0 THEN log_file_fd_ ELSE fd

(* What open returned goes into log_file_fd_, -1 included.                 *)
FdOf(fd) == fd

(* LOG_INFO, LOG_ERROR, LOG_FATAL up to the call of log.                   *)
Macro(t, l) ==
    /\ Go(t, "idle", "log") /\ calls[t] < MaxCalls
    /\ calls' = [calls EXCEPT ![t] = @ + 1]
    /\ logLevel_' = l /\ level' = [level EXCEPT ![t] = l]
    /\ UNCHANGED <<allowRecord, log_file_fd_, due, fdVars, ended>>

(* log up to defaultOutput's test of allowRecord.                          *)
Log(t) ==
    /\ Go(t, "log", IF allowRecord THEN "test" ELSE "level")
    /\ UNCHANGED <<logVars, fdVars, level, ended, calls>>

TestRollOver(t) ==
    /\ Go(t, "test", IF due THEN "close" ELSE "write")
    /\ UNCHANGED <<logVars, fdVars, level, ended, calls>>

CloseFile(t, from, to) ==
    /\ Go(t, from, to)
    /\ table' = Closed(log_file_fd_)
    /\ harm' = (harm \/ Foreign(log_file_fd_))
    /\ UNCHANGED <<logVars, conn, level, ended, calls>>

OpenFile(t, from, to) ==
    /\ Go(t, from, to)
    /\ log_file_fd_' = FdOf(Lowest) /\ table' = Opened("log")
    /\ UNCHANGED <<logLevel_, allowRecord, due, conn, harm, level, ended, calls>>

(* rollOver: close, open, and the time of the next one.                    *)
RollOver(t) ==
    \/ CloseFile(t, "close", "open")
    \/ OpenFile(t, "open", "stamp")
    \/ /\ Go(t, "stamp", "write")
       /\ due' = FALSE
       /\ UNCHANGED <<logLevel_, allowRecord, log_file_fd_, fdVars, level, ended, calls>>

(* The end of defaultOutput.                                               *)
Write(t) ==
    /\ Go(t, "write", "level")
    /\ harm' = (harm \/ Foreign(log_file_fd_))
    /\ UNCHANGED <<logVars, table, conn, level, ended, calls>>

(* The end of log.                                                         *)
ExitOnFatalLevel(t) ==
    /\ Go(t, "level", "return")
    /\ ended' = (logLevel_ = "FATAL")
    /\ UNCHANGED <<logVars, fdVars, level, calls>>

(* Mutant: LOG_FATAL relies on the exit in log.                            *)
MacroJustReturns(t) ==
    /\ Go(t, "return", "idle")
    /\ UNCHANGED <<logVars, fdVars, level, ended, calls>>

(* The end of the macro; LOG_FATAL calls exit(-1).                         *)
MacroEnds(t) ==
    /\ Go(t, "return", "idle")
    /\ ended' = (level[t] = "FATAL")
    /\ UNCHANGED <<logVars, fdVars, level, calls>>

(* setLoggerFileName, closeLoggerRecord and startLogerRecord.              *)
Configure(t) ==
    \/ /\ Go(t, "idle", "nameClose") /\ calls[t] < MaxCalls
       /\ calls' = [calls EXCEPT ![t] = @ + 1]
       /\ UNCHANGED <<logVars, fdVars, level, ended>>
    \/ CloseFile(t, "nameClose", "nameOpen")
    \/ OpenFile(t, "nameOpen", "idle")
    \/ /\ Go(t, "idle", "idle")
       /\ allowRecord' = ~allowRecord
       /\ UNCHANGED <<logLevel_, log_file_fd_, due, fdVars, level, ended, calls>>

ThreadStep(t) ==
    \/ Log(t) \/ TestRollOver(t) \/ RollOver(t) \/ Write(t)
    \/ ExitOnFatalLevel(t) \/ MacroEnds(t)

HourPasses ==
    /\ ~due /\ due' = TRUE
    /\ UNCHANGED <<logLevel_, allowRecord, log_file_fd_, fdVars, at, level, ended, calls, overlap>>

(* The rest of the program opens descriptors and closes them.              *)
OthersOpen ==
    /\ ~ended /\ Lowest # 0
    /\ table' = Opened("other") /\ conn' = conn \cup {Lowest}
    /\ UNCHANGED <<logVars, harm, at, level, ended, calls, overlap>>

OthersClose(fd) ==
    /\ ~ended /\ fd \in conn
    /\ table' = Closed(fd) /\ conn' = conn \ {fd}
    /\ UNCHANGED <<logVars, harm, at, level, ended, calls, overlap>>

LoggerNext ==
    \/ \E t \in Threads : ThreadStep(t) \/ Configure(t) \/ \E l \in Levels : Macro(t, l)
    \/ HourPasses \/ OthersOpen \/ \E fd \in 1..MaxFd : OthersClose(fd)

LoggerSpec == LoggerInit /\ [][LoggerNext]_loggerVars

(* Threads are scheduled; nobody need call the logger.                     *)
LoggerFairSpec == LoggerSpec /\ \A t \in Threads : WF_loggerVars(ThreadStep(t))

-----------------------------------------------------------------------------
(* No thread ends the process unless one has called LOG_FATAL, though log  *)
(* exits by a level that any thread may have set.                          *)
EndsOnlyByFatal == ended => \E t \in Threads : level[t] = "FATAL"

(* LOG_FATAL ends the process, whatever other threads do to logLevel_, the *)
(* file and allowRecord meanwhile, and nothing else ends it.               *)
FatalEndsProcess ==
    /\ \A t \in Threads : at[t] # "idle" /\ level[t] = "FATAL" ~> ended
    /\ []EndsOnlyByFatal

(* The logger touches no descriptor of the rest of the program, not even   *)
(* after a failed open, as long as no two threads use the log file at the  *)
(* same time: what defaultOutput, rollOver and setLoggerFileName lack is   *)
(* the mutex_ that the class has.                                          *)
HarmOnlyByOverlap == harm => overlap
=============================================================================
