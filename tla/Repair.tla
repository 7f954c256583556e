------------------------------- MODULE Repair -------------------------------
(***************************************************************************)
(* RepairDB: a store without a usable descriptor is put together from the  *)
(* log and table files found.  Logs become tables, damaged tables are      *)
(* copied as far as they can be read, all go to level 0 of a new           *)
(* descriptor; what is replaced moves to lost/.  The process may die at    *)
(* any step and RepairDB be run again.                                     *)
(*                                                                         *)
(* An entry is a sequence number; a file's entries are those its iterator  *)
(* can still reach.                                                        *)
(***************************************************************************)
EXTENDS Integers, FiniteSets, FiniteSetsExt

CONSTANTS
    FoundFiles,      \* numbers of the log and table files at the start
    MaxRepairCrashes

ASSUME RepairAssumption ==
    FoundFiles \subseteq Nat \ {0} /\ IsFiniteSet(FoundFiles) /\ MaxRepairCrashes \in Nat

VARIABLES
    dir,        \* files by number: kind "log" or "table", entries, damaged
    manifest,   \* the descriptor: "old", "none" (archived) or "new" with its edit
    rep,        \* the Repairer: where it is, next_file_number_, logs_, table_numbers_, tables_
    crashes,
    safe        \* entries of logs, and of tables undamaged at the start, that met no write error
repairVars == <<dir, manifest, rep, crashes, safe>>

NotRunning == [pc |-> "stopped"]
RepFile(kind, ents, damaged) == [kind |-> kind, ents |-> ents, damaged |-> damaged]
WithFile(d, n, f) == [m \in DOMAIN d \cup {n} |-> IF m = n THEN f ELSE d[m]]
WithoutFile(d, n) == [m \in DOMAIN d \ {n} |-> d[m]]      \* ArchiveFile, DeleteFile

RepairInit ==
    /\ \E kind \in [FoundFiles -> {"log", "table"}], bad, empty \in SUBSET FoundFiles :
         /\ dir = [n \in FoundFiles |-> RepFile(kind[n], IF n \in empty THEN {} ELSE {n}, n \in bad)]
         /\ safe = {n \in FoundFiles \ empty : kind[n] = "log" \/ n \notin bad}
    /\ manifest = [is |-> "old"] /\ rep = NotRunning /\ crashes = 0

RepAt(pc) == rep.pc = pc
RepGoes(pc) == rep' = [rep EXCEPT !.pc = pc]

FindFiles ==
    /\ RepAt("stopped") /\ manifest.is # "new"
    /\ rep' = [pc |-> "logs", next |-> Max({0} \cup DOMAIN dir) + 1,
               logs |-> {n \in DOMAIN dir : dir[n].kind = "log"},
               numbers |-> {n \in DOMAIN dir : dir[n].kind = "table"}, tables |-> {},
               log |-> 0, src |-> 0, copy |-> 0, got |-> {}]
    /\ UNCHANGED <<dir, manifest, crashes, safe>>

\* mutant: the log goes before its table is written
ConvertLogToTableArchivesFirst(n) ==
    /\ RepAt("logs") /\ n \in rep.logs
    /\ dir' = WithoutFile(dir, n)
    /\ rep' = [rep EXCEPT !.pc = "archiveLog", !.logs = @ \ {n}, !.log = n]
    /\ UNCHANGED <<manifest, crashes, safe>>
\* ConvertLogToTable: the readable records, in a table of a new number.  An
\* empty table is deleted by BuildTable.
ConvertLogToTable(n) ==
    LET num == rep.next
        some == dir[n].ents # {}
    IN  /\ RepAt("logs") /\ n \in rep.logs
        /\ dir' = IF some THEN WithFile(dir, num, RepFile("table", dir[n].ents, FALSE)) ELSE dir
        /\ rep' = [rep EXCEPT !.pc = "archiveLog", !.next = num + 1, !.logs = @ \ {n},
                              !.numbers = IF some THEN @ \cup {num} ELSE @, !.log = n]
        /\ UNCHANGED <<manifest, crashes, safe>>
\* The table cannot be written: the log is archived all the same.
ConvertFails(n) ==
    /\ RepAt("logs") /\ n \in rep.logs
    /\ rep' = [rep EXCEPT !.pc = "archiveLog", !.next = @ + 1, !.logs = @ \ {n}, !.log = n]
    /\ safe' = safe \ dir[n].ents /\ UNCHANGED <<dir, manifest, crashes>>
ArchiveLog ==
    /\ RepAt("archiveLog") /\ RepGoes("logs")
    /\ dir' = WithoutFile(dir, rep.log) /\ UNCHANGED <<manifest, crashes, safe>>

LogsDone ==
    /\ RepAt("logs") /\ rep.logs = {} /\ RepGoes("tables") /\ UNCHANGED <<dir, manifest, crashes, safe>>

\* ScanTable: a table whose iterator ends without an error is kept as it is.
Info(n, ents) == [number |-> n, max |-> Max({0} \cup ents)]
ScanTable(n) ==
    /\ RepAt("tables") /\ n \in rep.numbers
    /\ IF dir[n].damaged
       THEN rep' = [rep EXCEPT !.pc = "copy", !.numbers = @ \ {n}, !.src = n]
       ELSE rep' = [rep EXCEPT !.numbers = @ \ {n}, !.tables = @ \cup {Info(n, dir[n].ents)}]
    /\ UNCHANGED <<dir, manifest, crashes, safe>>

\* RepairTable: a copy (unreadable until it is finished) of what can be read,
\* ...
CopyTable ==
    /\ RepAt("copy")
    /\ dir' = WithFile(dir, rep.next, RepFile("table", {}, TRUE))
    /\ rep' = [rep EXCEPT !.pc = "archiveSrc", !.next = @ + 1, !.copy = rep.next, !.got = dir[rep.src].ents]
    /\ UNCHANGED <<manifest, crashes, safe>>
\* The copy's file cannot be made: the source stays where it is.
CopyFails ==
    /\ RepAt("copy") /\ rep' = [rep EXCEPT !.pc = "tables", !.next = @ + 1]
    /\ UNCHANGED <<dir, manifest, crashes, safe>>
\* ... the source moved to lost/, ...
ArchiveSrc ==
    /\ RepAt("archiveSrc") /\ dir' = WithoutFile(dir, rep.src)
    /\ RepGoes(IF rep.got = {} THEN "tables" ELSE "finish") /\ UNCHANGED <<manifest, crashes, safe>>
\* ... the copy finished, or deleted if that or its renaming fails, ...
FinishCopy ==
    /\ RepAt("finish") /\ dir' = [dir EXCEPT ![rep.copy] = RepFile("table", rep.got, FALSE)]
    /\ RepGoes("rename") /\ UNCHANGED <<manifest, crashes, safe>>
FinishFails ==
    /\ RepAt("finish") \/ RepAt("rename")
    /\ dir' = WithoutFile(dir, rep.copy)
    /\ RepGoes("tables") /\ UNCHANGED <<manifest, crashes, safe>>
\* ... and renamed to the source's name.
RenameCopy ==
    /\ RepAt("rename")
    /\ dir' = WithFile(WithoutFile(dir, rep.copy), rep.src, dir[rep.copy])
    /\ rep' = [rep EXCEPT !.pc = "tables", !.tables = @ \cup {Info(rep.src, rep.got)}]
    /\ UNCHANGED <<manifest, crashes, safe>>

\* WriteDescriptor: the edit in a temporary file, the old manifests archived,
\* the new one renamed and CURRENT set.
Descriptor ==
    [is |-> "new", next |-> rep.next, last |-> Max({0} \cup {t.max : t \in rep.tables}), tables |-> {t.number : t \in rep.tables}]
ArchiveManifests ==
    /\ RepAt("tables") /\ rep.numbers = {} /\ manifest' = [is |-> "none"] /\ RepGoes("descriptor")
    /\ UNCHANGED <<dir, crashes, safe>>
InstallDescriptor ==
    /\ RepAt("descriptor") /\ manifest' = Descriptor /\ rep' = NotRunning /\ UNCHANGED <<dir, crashes, safe>>

RepairCrash ==
    /\ ~RepAt("stopped") /\ crashes < MaxRepairCrashes
    /\ crashes' = crashes + 1 /\ rep' = NotRunning /\ UNCHANGED <<dir, manifest, safe>>

RepairNext ==
    \/ FindFiles
    \/ \E n \in DOMAIN dir : ConvertLogToTable(n) \/ ConvertFails(n) \/ ScanTable(n)
    \/ ArchiveLog \/ LogsDone \/ CopyTable \/ CopyFails \/ ArchiveSrc \/ FinishCopy \/ FinishFails \/ RenameCopy
    \/ ArchiveManifests \/ InstallDescriptor \/ RepairCrash

RepairSpec == RepairInit /\ [][RepairNext]_repairVars

-----------------------------------------------------------------------------
(* Properties *)

\* What an undamaged table or any log held is in the store's directory at
\* every moment, whenever the process dies and however often RepairDB is run,
\* unless a log's table could not be written.
RepairKeeps == safe \subseteq UNION {dir[n].ents : n \in DOMAIN dir}

\* The descriptor lists only tables that are there and readable, together
\* holding all of that; and new writes and files get numbers above every one
\* of them.
RepairedWhole ==
    manifest.is = "new" =>
        /\ manifest.tables \subseteq DOMAIN dir
        /\ \A n \in manifest.tables : dir[n].kind = "table" /\ ~dir[n].damaged
        /\ LET held == UNION {dir[n].ents : n \in manifest.tables}
           IN  safe \subseteq held /\ \A e \in held : e <= manifest.last
        /\ \A n \in DOMAIN dir : n < manifest.next

\* RepairDB: nothing sound is lost on the way, and the descriptor it ends with
\* opens a store that holds all of it.
RepairExact == RepairKeeps /\ RepairedWhole
=============================================================================
