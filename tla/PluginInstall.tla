---------------------------- MODULE PluginInstall ----------------------------
(***************************************************************************)
(* Installing and uninstalling one plugin                                  *)
(* (internal/plugins/installer/installer.go, internal/config/store):       *)
(* its directory and its record in the database, which change one after    *)
(* the other.  Every "nupi plugins" command is a process of its own that   *)
(* may crash, and nothing keeps two of them apart.                         *)
(*                                                                         *)
(* A directory is empty, partly copied or whole.  A record is known by the *)
(* number the database gave it.  Downloading, unpacking and the manifest   *)
(* come before and touch neither; they are left out.                       *)
(***************************************************************************)
EXTENDS Integers, FiniteSets

CONSTANTS
    Commands,   \* commands that run, each once
    MaxRecords  \* bound: records made

ASSUME InstallAssumption == IsFiniteSet(Commands) /\ MaxRecords \in Nat \ {0}

VARIABLES
    files,     \* the plugin's directory: "none", "part" or "whole"
    record,    \* the number of its row in installed_plugins, 0 for none
    lastRecord, \* the last number given
    checksums, \* the records that have checksums
    enabled,   \* the row is enabled
    command,   \* where each command is
    mine,      \* the record a command has inserted
    overlap,   \* history: two commands ran at once
    crash,     \* history: a command crashed
    unclean    \* history: a cleanup failed

rowVars == <<record, lastRecord, checksums, enabled>>
faultVars == <<overlap, crash, unclean>>
installVars == <<files, rowVars, command, mine, faultVars>>

Records == 1..MaxRecords
Idle == {"new", "done", "failed"}
Working == {"row", "copy", "copying", "insert", "remove", "hash", "sums", "clean", "unrow", "disable",
            "wipe", "forget"}

InstallTypeOK ==
    /\ files \in {"none", "part", "whole"}
    /\ record \in 0..MaxRecords /\ lastRecord \in 0..MaxRecords /\ checksums \subseteq Records
    /\ enabled \in BOOLEAN
    /\ command \in [Commands -> Idle \cup Working]
    /\ mine \in [Commands -> 0..MaxRecords]
    /\ overlap \in BOOLEAN /\ crash \in BOOLEAN /\ unclean \in BOOLEAN

InstallInit ==
    /\ files = "none" /\ record = 0 /\ lastRecord = 0 /\ checksums = {} /\ enabled = FALSE
    /\ command = [c \in Commands |-> "new"] /\ mine = [c \in Commands |-> 0]
    /\ overlap = FALSE /\ crash = FALSE /\ unclean = FALSE

CommandTo(c, next) == command' = [command EXCEPT ![c] = next]
CommandAt(c, from, next) == command[c] = from /\ CommandTo(c, next)

\* RemoveAll; it may fail, and then it may have removed some of the files.
RemoveFiles == files' = "none" /\ UNCHANGED unclean
RemoveFails == files' \in {files, "part"} /\ files # "none" /\ unclean' = TRUE

-----------------------------------------------------------------------------
(* installFromDir.                                                         *)

Starts(c, next) ==
    /\ command[c] = "new" /\ CommandTo(c, next)
    /\ overlap' = (overlap \/ \E d \in Commands \ {c} : command[d] \notin Idle)

\* Conflicts on disk, then in the database; then the marketplace is looked up.
BeginInstall(c) ==
    /\ Starts(c, IF files = "none" THEN "row" ELSE "failed")
    /\ UNCHANGED <<files, rowVars, mine, crash, unclean>>

CheckRow(c) ==
    /\ command[c] = "row"
    /\ CommandTo(c, IF record = 0 THEN "copy" ELSE "failed")
    /\ UNCHANGED <<files, rowVars, mine, faultVars>>

\* copyDir creates the directory if there is none, and writes over what is there.
BeginCopy(c) ==
    /\ CommandAt(c, "copy", "copying")
    /\ files' = IF files = "none" THEN "part" ELSE files
    /\ UNCHANGED <<rowVars, mine, faultVars>>

EndCopy(c) ==
    /\ CommandAt(c, "copying", "insert")
    /\ files' = IF files = "none" THEN "part" ELSE "whole"
    /\ UNCHANGED <<rowVars, mine, faultVars>>

CopyFails(c) ==
    /\ CommandAt(c, "copying", "remove")
    /\ UNCHANGED <<files, rowVars, mine, faultVars>>

RemoveCopy(c) ==
    /\ CommandAt(c, "remove", "failed")
    /\ RemoveFiles \/ RemoveFails
    /\ UNCHANGED <<rowVars, mine, overlap, crash>>

\* One row for a plugin: a unique index.  The insertion may fail otherwise too.
InsertRow(c) ==
    /\ record = 0 /\ lastRecord < MaxRecords
    /\ CommandAt(c, "insert", "hash")
    /\ lastRecord' = lastRecord + 1 /\ record' = lastRecord' /\ enabled' = FALSE
    /\ mine' = [mine EXCEPT ![c] = record']
    /\ UNCHANGED <<files, checksums, faultVars>>

InsertFails(c) ==
    /\ CommandAt(c, "insert", "remove")
    /\ UNCHANGED <<files, rowVars, mine, faultVars>>

\* computeChecksums walks the directory, which must be there.
HashFiles(c) ==
    /\ files # "none" /\ CommandAt(c, "hash", "sums")
    /\ UNCHANGED <<files, rowVars, mine, faultVars>>

\* SetPluginChecksums: in one transaction, if the row is still there.
StoreChecksums(c) ==
    /\ record = mine[c] /\ CommandAt(c, "sums", "done")
    /\ checksums' = checksums \cup {record}
    /\ UNCHANGED <<files, record, lastRecord, enabled, mine, faultVars>>

ChecksumsFail(c) ==
    /\ CommandAt(c, "hash", "clean") \/ CommandAt(c, "sums", "clean")
    /\ UNCHANGED <<files, rowVars, mine, faultVars>>

\* cleanupInstall: the directory, then the row, whether or not the first fails.
CleanFiles(c) ==
    /\ CommandAt(c, "clean", "unrow")
    /\ RemoveFiles \/ RemoveFails
    /\ UNCHANGED <<rowVars, mine, overlap, crash>>

\* DeleteInstalledPlugin; its checksums go with the row.
DeleteRow == record' = 0 /\ enabled' = FALSE /\ checksums' = checksums \ {record} /\ UNCHANGED lastRecord

\* A cleanup that keeps the row.
CleanRow_Keeps(c) ==
    /\ CommandAt(c, "unrow", "failed")
    /\ UNCHANGED <<rowVars, unclean, files, mine, overlap, crash>>

CleanRow(c) ==
    /\ CommandAt(c, "unrow", "failed")
    /\ \/ DeleteRow /\ UNCHANGED unclean
       \/ unclean' = TRUE /\ UNCHANGED rowVars
    /\ UNCHANGED <<files, mine, overlap, crash>>

Installing(c) ==
    \/ BeginInstall(c) \/ CheckRow(c) \/ BeginCopy(c) \/ EndCopy(c) \/ CopyFails(c) \/ RemoveCopy(c)
    \/ InsertRow(c) \/ InsertFails(c) \/ HashFiles(c) \/ StoreChecksums(c) \/ ChecksumsFail(c)
    \/ CleanFiles(c) \/ CleanRow(c)

-----------------------------------------------------------------------------
(* Uninstall, and SetPluginEnabled.                                        *)

BeginUninstall(c) ==
    /\ Starts(c, IF record = 0 THEN "failed" ELSE IF enabled THEN "disable" ELSE "wipe")
    /\ UNCHANGED <<files, rowVars, mine, crash, unclean>>

\* An error ends the command; so it does below.
Disable(c) ==
    /\ command[c] = "disable"
    /\ \/ record # 0 /\ CommandTo(c, "wipe") /\ enabled' = FALSE
       \/ CommandTo(c, "failed") /\ UNCHANGED enabled
    /\ UNCHANGED <<files, record, lastRecord, checksums, mine, faultVars>>

WipeFiles(c) ==
    /\ \/ CommandAt(c, "wipe", "forget") /\ RemoveFiles
       \/ CommandAt(c, "wipe", "failed") /\ RemoveFails
    /\ UNCHANGED <<rowVars, mine, overlap, crash>>

\* The row may be gone, or the database may fail: the row without files that
\* this leaves can be uninstalled again.
ForgetRow(c) ==
    /\ \/ record # 0 /\ CommandAt(c, "forget", "done") /\ DeleteRow /\ UNCHANGED unclean
       \/ CommandAt(c, "forget", "failed") /\ unclean' = TRUE /\ UNCHANGED rowVars
    /\ UNCHANGED <<files, mine, overlap, crash>>

\* Mutant of Enable: an update that meets no row counts as a success.
Enable_Blind(c) ==
    /\ Starts(c, "done")
    /\ enabled' = (record # 0)
    /\ UNCHANGED <<files, record, lastRecord, checksums, mine, crash, unclean>>

Enable(c) ==
    /\ Starts(c, IF record = 0 THEN "failed" ELSE "done")
    /\ enabled' = (record # 0)
    /\ UNCHANGED <<files, record, lastRecord, checksums, mine, crash, unclean>>

Uninstalling(c) == BeginUninstall(c) \/ Disable(c) \/ WipeFiles(c) \/ ForgetRow(c)

CommandCrashes(c) ==
    /\ command[c] \notin Idle /\ CommandTo(c, "failed")
    /\ crash' = TRUE
    /\ UNCHANGED <<files, rowVars, mine, overlap, unclean>>

InstallNext == \E c \in Commands : Installing(c) \/ Uninstalling(c) \/ Enable(c) \/ CommandCrashes(c)

InstallSpec == InstallInit /\ [][InstallNext]_installVars

-----------------------------------------------------------------------------
(* Properties.                                                             *)

AtRest == \A c \in Commands : command[c] \in Idle

\* When no command is under way the directory, the row and its checksums are
\* all there or none of them is, however the commands failed; unless one of
\* them crashed, could not clean up, or ran along with another.
AllOrNothing ==
    AtRest /\ ~overlap /\ ~crash /\ ~unclean =>
        IF record = 0 THEN files = "none" ELSE files = "whole" /\ record \in checksums

\* A directory without a row is taken for a plugin installed by hand, and loaded
\* (the enabled checker of internal/daemon/daemon.go): there is one only while
\* an installation is between its copy and its row.
NoStrayFiles ==
    files # "none" /\ record = 0 /\ ~overlap /\ ~crash /\ ~unclean =>
        \E c \in Commands : command[c] \in {"copying", "insert", "remove"}

\* An enabled plugin has its files and their checksums, at every moment of an
\* uninstallation too.
EnabledWhole ==
    enabled /\ ~overlap /\ ~crash /\ ~unclean => files = "whole" /\ record \in checksums

InstalledWhole == AllOrNothing /\ NoStrayFiles /\ EnabledWhole

-----------------------------------------------------------------------------
(* What the commands promise.                                              *)

\* The plugin is there once its record has checksums for its files.
PluginIs ==
    IF overlap \/ crash \/ unclean THEN "unknown"
    ELSE IF files # "whole" \/ record = 0 \/ record \notin checksums THEN "absent"
    ELSE IF enabled THEN "enabled" ELSE "installed"

OutcomeOf(c) ==
    IF command[c] = "forget" THEN "removed"
    ELSE IF command[c] \in {"done", "failed"} THEN command[c] ELSE "open"

InstallPromise == INSTANCE AtomicInstall WITH
    plugin <- PluginIs, outcome <- [c \in Commands |-> OutcomeOf(c)]

\* Directory, row and checksums change one after the other, and still the
\* plugin appears, changes and goes in one step of the command that reports it.
InstallsAtomically == InstallPromise!Spec
=============================================================================
