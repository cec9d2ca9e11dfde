---------------------------- MODULE ConfigWatch ----------------------------
(***************************************************************************)
(* The configuration file and its watcher (config/loader.go).  An editor   *)
(* truncates and fills the file, replaces it by another file that may be   *)
(* older, or removes it; times are coarse, so that two changes may bear    *)
(* the same one.  Watch looks at the time of the file and reads the file   *)
(* afterwards, once: a reload that fails is not repeated.  main.go takes   *)
(* from a reload the log level alone.                                      *)
(***************************************************************************)
EXTENDS Settings

CONSTANTS Configs,         \* the texts an editor writes
          Unparsable,      \* the text that is no YAML
          MaxWrites,       \* bound on the changes of the file
          MaxFileTime      \* bound on the clock

ASSUME ConfigAssumption == MaxWrites \in Nat /\ MaxFileTime \in Nat \ {0}

VARIABLES configFile,      \* the file at the path: its text, time and the change it is of
          filling,         \* an editor has truncated it and not yet written
          clock,
          current,         \* Loader.current: a configuration, or <<>> for nil
          watch            \* the watcher: its step, lastMod and the change it last loaded

configVars == <<configFile, filling, clock, current, watch>>

Accepted(text) == text # Unparsable /\ Validate(MergeWithDefaults(text))

\* loadFromFile: a missing file is an empty one.
TextRead == IF configFile.exists THEN configFile.text ELSE Blank

ConfigInit ==
    /\ configFile \in [exists : {TRUE}, text : Configs, time : {1}, change : {0}]
               \cup {[exists |-> FALSE, text |-> Blank, time |-> 1, change |-> 0]}
    /\ filling = FALSE /\ clock = 1
    /\ current = <<>>
    /\ watch = [step |-> "off", lastMod |-> 0, read |-> 0, done |-> FALSE]

Change(exists, text, time) ==
    /\ configFile.change < MaxWrites
    /\ configFile' = [exists |-> exists, text |-> text, time |-> time,
                      change |-> configFile.change + 1]
    /\ UNCHANGED <<clock, current, watch>>

\* An editor writes in place.
TruncateFile == Change(TRUE, Blank, clock) /\ ~filling /\ filling' = TRUE

FillFile(text) == Change(TRUE, text, clock) /\ filling /\ filling' = FALSE

\* A file written before is moved to the path, with its time.
ReplaceFile(text, time) == Change(TRUE, text, time) /\ ~filling /\ UNCHANGED filling

RemoveFile == configFile.exists /\ Change(FALSE, Blank, clock) /\ ~filling /\ UNCHANGED filling

ClockTick ==
    /\ clock < MaxFileTime
    /\ clock' = clock + 1
    /\ UNCHANGED <<configFile, filling, current, watch>>

\* The file is read and becomes the configuration, if it parses and Validate accepts it.
Loaded ==
    /\ Accepted(TextRead)
    /\ current' = MergeWithDefaults(TextRead)

\* It does not, or the read fails for another reason than a missing file, or a directory
\* that Validate looks at is not there or not writable at the moment.
NotLoaded == UNCHANGED current

\* The first Load: main ends if it fails.
LoadConfig ==
    /\ watch.step = "off"
    /\ \/ Loaded /\ watch' = [watch EXCEPT !.step = "loaded", !.read = configFile.change]
       \/ NotLoaded /\ watch' = [watch EXCEPT !.step = "ended"]
    /\ UNCHANGED <<configFile, filling, clock>>

\* Watch notes the time it finds, much later in main.go; Stat may fail.
StartWatch ==
    /\ watch.step = "loaded"
    /\ \E noted \in {0} \cup (IF configFile.exists THEN {configFile.time} ELSE {}) :
          watch' = [watch EXCEPT !.step = "idle", !.lastMod = noted]
    /\ UNCHANGED <<configFile, filling, clock, current>>

\* Mutant: a newer time is looked for.
IsChangedLater == configFile.exists /\ configFile.time > watch.lastMod

IsChanged == configFile.exists /\ configFile.time # watch.lastMod

\* A tick; when the watcher is stopped at once, the tick may still win.
WatchTick ==
    /\ watch.step = "idle" /\ IsChanged
    /\ watch' = [watch EXCEPT !.step = "reload", !.lastMod = configFile.time]
    /\ UNCHANGED <<configFile, filling, clock, current>>

\* The time of the file is noted by now, loaded or not.
Reload ==
    /\ watch.step = "reload"
    /\ \/ Loaded /\ watch' = [watch EXCEPT !.step = "idle", !.read = configFile.change]
       \/ NotLoaded /\ watch' = [watch EXCEPT !.step = "idle"]
    /\ UNCHANGED <<configFile, filling, clock>>

StopWatch ==
    /\ watch.step \in {"idle", "reload"} /\ ~watch.done
    /\ watch' = [watch EXCEPT !.done = TRUE]
    /\ UNCHANGED <<configFile, filling, clock, current>>

WatchEnds ==
    /\ watch.step = "idle" /\ watch.done
    /\ watch' = [watch EXCEPT !.step = "ended"]
    /\ UNCHANGED <<configFile, filling, clock, current>>

ConfigNext ==
    \/ TruncateFile \/ RemoveFile
    \/ \E text \in Configs : FillFile(text) \/ \E time \in 1..clock : ReplaceFile(text, time)
    \/ ClockTick
    \/ LoadConfig \/ StartWatch \/ WatchTick \/ Reload \/ StopWatch \/ WatchEnds

\* The ticker fires as long as the process lives.
ConfigSpec ==
    /\ ConfigInit /\ [][ConfigNext]_configVars
    /\ WF_configVars(WatchTick) /\ WF_configVars(Reload)
-----------------------------------------------------------------------------
\* The file was changed after it was last loaded and bears the time already noted: it was
\* changed again within one tick of the clock, or between Load and Watch, or the one
\* reload that its time caused has failed.
Unnoticed == watch.lastMod = configFile.time /\ watch.read # configFile.change

\* The configuration of the agent becomes the one of the file, if the file stays one
\* that Validate accepts and the agent keeps watching, unless the watcher has noted its
\* time without loading it.  A reload that fails when a later one, for a later time or
\* for a time put back, succeeds costs nothing.
ChangeArrives ==
    <>[](/\ watch.step \in {"idle", "reload"}
         /\ configFile.exists /\ Accepted(configFile.text)
         /\ ~(watch.step = "idle" /\ Unnoticed))
        => <>[](Accepted(configFile.text) /\ current = MergeWithDefaults(configFile.text))
=============================================================================
