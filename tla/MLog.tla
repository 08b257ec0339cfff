-------------------------------- MODULE MLog --------------------------------
(***************************************************************************)
(* The log of lib/m_log.c: which levels are printed and to which file.     *)
(* log_file_path is a buffer of its own beside the stream log_file, and    *)
(* log_clear opens what it names.  A path is a sequence of characters, so  *)
(* that one copied over a longer one leaves the rest of it; a file is the  *)
(* number of its lines.  The programs log from one thread here: log_buf,   *)
(* which all threads share, is left out.                                   *)
(***************************************************************************)
EXTENDS Integers, Sequences

CONSTANTS
  Paths,       (* paths given to log_init                                    *)
  MaxLines     (* bound: lines and sections of one file                      *)

(* memcpy of a path without its zero byte.                                  *)
Overlay(new, old) == new \o SubSeq(old, Len(new) + 1, Len(old))

(* What a mixture of two paths names is one of the files, too.              *)
ASSUME MLogAssumption ==
  /\ \A p \in Paths : p \in Seq({p[i] : i \in DOMAIN p})
  /\ << >> \notin Paths /\ MaxLines \in Nat
  /\ \A p, q \in Paths : Overlay(p, q) \in Paths

LOG_F == 1
LOG_I == 5
LOG_D == 6
Terminal == << >>

VARIABLES
  log_flag,       (* the levels whose bit is set                              *)
  log_inited,
  log_file,       (* what the stream has open, Terminal for NULL              *)
  log_file_path,
  streams,        (* log files the process has open                           *)
  lines,          (* lines of every file                                      *)
  asked,          (* the levels of the last log_init                          *)
  stale,          (* log_clear lost its file: the path outlived the stream    *)
  logged          (* the level of the last message if it was printed, else 0  *)

logVars == <<log_flag, log_inited, log_file, log_file_path, streams, lines, asked, stale, logged>>

LogInit0 ==
  /\ log_flag = {} /\ log_inited = FALSE /\ log_file = Terminal /\ log_file_path = << >>
  /\ streams = 0 /\ lines = [p \in Paths |-> 0]
  /\ asked = {} /\ stale = FALSE /\ logged = 0

(* fwrite to the stream; the terminal is not modelled.                      *)
Written(file, before) ==
  IF file = Terminal THEN before ELSE [before EXCEPT ![file] = @ + 1]

(* log_section: nothing is written when log_time_get fails.                 *)
Section(file, before) == {before, Written(file, before)}

Levels(level, only) == IF only THEN {level} ELSE 1 .. level

(* Mutant: the path is not cleared when its file is closed.                 *)
ClosedKeepsPath == [file |-> Terminal, path |-> log_file_path,
                    streams |-> IF log_file = Terminal THEN streams ELSE streams - 1]

(* The file that is open is closed and its path cleared.                    *)
Closed ==
  IF log_file_path # << >> /\ log_file # Terminal
  THEN [file |-> Terminal, path |-> << >>, streams |-> streams - 1]
  ELSE [file |-> log_file, path |-> log_file_path, streams |-> streams]

(* fopen with "a+", which may fail.                                         *)
Opened(path, ok) ==
  IF path = Terminal THEN Closed
  ELSE IF ~ok THEN [Closed EXCEPT !.file = Terminal]
  ELSE [file |-> path, path |-> Overlay(path, Closed.path), streams |-> Closed.streams + 1]

(* The part of log_init behind its check of the level, log_section included. *)
Configure(level, only, path, ok) ==
  LET o == Opened(path, ok) IN
  /\ log_flag' = Levels(level, only) /\ log_inited' = TRUE
  /\ log_file' = o.file /\ log_file_path' = o.path /\ streams' = o.streams

(* log_init.  A level below LOG_F clears the levels and returns before      *)
(* log_inited is set, so that the next message may set them again; one      *)
(* above LOG_D is taken for LOG_D.                                          *)
LogInit(level, only, path) ==
  LET l == IF level > LOG_D THEN LOG_D ELSE level IN
  /\ asked' = IF l < LOG_F THEN {} ELSE IF only THEN {l} ELSE 1 .. l
  /\ logged' = 0
  /\ \/ /\ l < LOG_F /\ log_flag' = {}
        /\ UNCHANGED <<log_inited, log_file, log_file_path, streams, lines, stale>>
     \/ /\ l >= LOG_F
        /\ \E ok \in BOOLEAN :
             /\ Configure(l, only, path, ok)
             /\ lines' \in Section(log_file', lines)
        /\ stale' = (stale /\ log_file_path' # log_file')

(* log_private: the first message of a program that has not asked for any   *)
(* level asks for LOG_I on the terminal.  Nothing is printed of a level     *)
(* whose bit is not set, nor when log_time_get fails.                       *)
LogMessage(level) ==
  /\ \/ log_inited /\ UNCHANGED <<log_flag, log_inited, log_file, log_file_path, streams, asked>>
     \/ ~log_inited /\ Configure(LOG_I, FALSE, Terminal, TRUE) /\ asked' = 1 .. LOG_I
  /\ \/ /\ level \in log_flag'
        /\ lines' = Written(log_file', lines) /\ logged' = level
     \/ logged' = 0 /\ UNCHANGED lines
  /\ UNCHANGED stale

(* log_clear: freopen with "w" of what log_file_path names.  When it fails  *)
(* the old stream is closed all the same.                                   *)
LogClear ==
  /\ \/ log_file = Terminal /\ UNCHANGED <<log_file, streams, lines, stale>>
     \/ /\ log_file # Terminal
        /\ log_file' = log_file_path /\ lines' = [lines EXCEPT ![log_file_path] = 0]
        /\ UNCHANGED <<streams, stale>>
     \/ /\ log_file # Terminal
        /\ log_file' = Terminal /\ streams' = streams - 1 /\ stale' = TRUE
        /\ UNCHANGED lines
  /\ logged' = 0
  /\ UNCHANGED <<log_flag, log_inited, log_file_path, asked>>

LogNext ==
  \/ /\ \A p \in Paths : lines[p] < MaxLines
     /\ \/ \E level \in {0, 1, 3, 6, 7}, only \in BOOLEAN, path \in Paths \cup {Terminal} :
             LogInit(level, only, path)
        \/ \E level \in {1, 3, 5, 6} : LogMessage(level)
  \/ LogClear

LogSpec == LogInit0 /\ [][LogNext]_logVars

-----------------------------------------------------------------------------
(* Only log_clear takes lines away, and only from the file that is being    *)
(* written: not from the file of an earlier log_init whose longer path is   *)
(* still in log_file_path.  The exception is a log_clear that failed        *)
(* before, after which log_init does not clear the path.                    *)
ClearsOwnFile ==
  [][\A p \in Paths : lines'[p] < lines[p] => p = log_file \/ stale]_logVars

(* However often the log is redirected, and whatever fails, no more than    *)
(* the current log file is open.                                            *)
OneLogFile == streams = IF log_file = Terminal THEN 0 ELSE 1

(* A printed message has a level of the last log_init, also when an earlier *)
(* one asked for more, or the file has changed or was lost in between.      *)
LevelsAsAsked == logged # 0 => logged \in asked

(* Over any sequence of log_init, messages and log_clear, some of whose     *)
(* steps fail, the log does what the last log_init asked for: its levels,   *)
(* one file, and no other file loses a line.                                *)
LogAsAsked == [](OneLogFile /\ LevelsAsAsked) /\ ClearsOwnFile
=============================================================================
