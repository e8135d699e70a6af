------------------------------ MODULE LogFiles ------------------------------
(***************************************************************************)
(* The log files (pkg/log): klog writes a message to the file of its        *)
(* severity and to those of the lower ones, starting a new file when one is *)
(* full, and the monitor removes the oldest files of a severity above the   *)
(* limit.  Reading the directory and removing each file are steps that the  *)
(* writing threads come between.                                            *)
(***************************************************************************)
EXTENDS Naturals, Sequences, FiniteSets

CONSTANTS
  NoFile,       \* no file is open
  Severity,     \* the severities messages are logged with, of the four below
  Limits,       \* values of --log_file_max_num
  MaxWrites,    \* bound on the messages logged
  MaxRestarts   \* bound on the restarts of the agent

Levels == <<"INFO", "WARNING", "ERROR", "FATAL">>

ASSUME LogFilesAssumption ==
  /\ Limits \subseteq Nat /\ MaxWrites \in Nat /\ MaxRestarts \in Nat /\ NoFile \notin Nat
  /\ Severity \subseteq {Levels[i] : i \in DOMAIN Levels}

Rank(s) == CHOOSE i \in DOMAIN Levels : Levels[i] = s

VARIABLES
  files,     \* the directory: [sev, id, time] with the time of the last write
  current,   \* for each severity the id of the file klog writes
  clock,     \* the number of messages so far
  maxNum,    \* logFileMaxNum
  mon,       \* the monitor
  restarts

logsVars == <<files, current, clock, maxNum, mon, restarts>>

FilesOf(sev) == {f \in files : f.sev = sev}

(* The limit counts only when klog logs to a directory of files. *)
InitLogFileLimits(toStdErr, logFile, arg) == IF toStdErr \/ logFile THEN 0 ELSE arg

LogsInit ==
  /\ files = {}
  /\ current = [s \in {Levels[i] : i \in DOMAIN Levels} |-> NoFile]
  /\ clock = 0
  /\ \E arg \in Limits, e, l \in BOOLEAN : maxNum = InitLogFileLimits(e, l, arg)
  /\ mon = [at |-> "rest"]
  /\ restarts = 0

-----------------------------------------------------------------------------
(* klog: a message goes to every file of its severity or below; a file that  *)
(* does not exist yet, or is full, is replaced by a new one.  What is left   *)
(* open by another process is not written again.  A message of the highest    *)
(* severity ends the agent, and another one starts.                          *)
Write(sev) ==
  /\ clock < MaxWrites /\ clock' = clock + 1
  /\ \E full \in SUBSET Severity :
       LET to == {s \in DOMAIN current : Rank(s) <= Rank(sev)}
           new == {s \in to : current[s] = NoFile \/ s \in full}
           id(s) == IF s \in new THEN clock + 1 ELSE current[s]
       IN  /\ current' = [s \in DOMAIN current |-> IF sev = "FATAL" THEN NoFile
                                                   ELSE IF s \in to THEN id(s) ELSE current[s]]
           /\ files' = {IF f.sev \in to \ new /\ f.id = current[f.sev] THEN [f EXCEPT !.time = clock + 1] ELSE f : f \in files}
                       \cup {[sev |-> s, id |-> clock + 1, time |-> clock + 1] : s \in new}
  /\ mon' = IF sev = "FATAL" THEN [at |-> "rest"] ELSE mon
  /\ UNCHANGED <<maxNum, restarts>>

(* The agent ends for another reason, and another one starts. *)
Restart ==
  /\ restarts < MaxRestarts /\ restarts' = restarts + 1
  /\ current' = [s \in DOMAIN current |-> NoFile]
  /\ mon' = [at |-> "rest"]
  /\ UNCHANGED <<files, clock, maxNum>>

-----------------------------------------------------------------------------
(* The monitor, if there is a limit. *)

StartLogFileNumberMonitor == maxNum # 0

CheckedButError == <<"INFO", "WARNING">>

(* The severities whose files are counted. *)
Checked == <<"INFO", "WARNING", "ERROR">>

(* checkLogFiles: the directory is read; nothing is to do if it has fewer    *)
(* files than one severity may have.                                         *)
CheckLogFiles ==
  /\ StartLogFileNumberMonitor
  /\ mon.at = "rest"
  /\ Cardinality(files) > maxNum
  /\ mon' = [at |-> "remove", todo |-> Checked, dir |-> files]
  /\ UNCHANGED <<files, current, clock, maxNum, restarts>>

SurplusOldFirst(fs) == {f \in fs : Cardinality({g \in fs : g.time < f.time}) >= maxNum}

(* files[maxNum:] of the files sorted by time, the latest first.             *)
Surplus(fs) == {f \in fs : Cardinality({g \in fs : g.time > f.time}) >= maxNum}

(* checkFilesFn: one file of the severity in hand, as the directory was.     *)
RemoveFile ==
  /\ mon.at = "remove" /\ mon.todo # <<>>
  /\ LET old == Surplus({f \in mon.dir : f.sev = Head(mon.todo)})
     IN  IF old = {} THEN mon' = [mon EXCEPT !.todo = Tail(mon.todo)] /\ UNCHANGED files
         ELSE \E f \in old :
                /\ files' = {g \in files : <<g.sev, g.id>> # <<f.sev, f.id>>}
                /\ mon' = [mon EXCEPT !.dir = mon.dir \ {f}]
  /\ UNCHANGED <<current, clock, maxNum, restarts>>

CheckEnds ==
  /\ mon.at = "remove" /\ mon.todo = <<>>
  /\ mon' = [at |-> "rest"]
  /\ UNCHANGED <<files, current, clock, maxNum, restarts>>

Monitor == CheckLogFiles \/ RemoveFile \/ CheckEnds

LogsNext == (\E s \in Severity : Write(s)) \/ Restart \/ Monitor

LogsSpec == LogsInit /\ [][LogsNext]_logsVars

(* The monitor looks every ten minutes. *)
LogsFairSpec == LogsSpec /\ WF_logsVars(Monitor)

-----------------------------------------------------------------------------
LogsTypeOK ==
  /\ clock \in 0..MaxWrites
  /\ maxNum \in Limits \cup {0}
  /\ \A f \in files : f.sev \in DOMAIN current /\ f.id \in 1..clock /\ f.time \in f.id..clock

(* The monitor never removes a file klog is writing, although the directory  *)
(* may be long out of date when it removes one.                              *)
CurrentKept ==
  \A s \in DOMAIN current : current[s] # NoFile => \E f \in files : f.sev = s /\ f.id = current[s]

(* Once the agent is quiet no severity keeps more files than the limit.      *)
LimitKept ==
  <>[](maxNum # 0 => \A s \in DOMAIN current : Cardinality(FilesOf(s)) <= maxNum)
=============================================================================
