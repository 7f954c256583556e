------------------------------ MODULE EnvFiles ------------------------------
(***************************************************************************)
(* What LevelDB does with whole files: CURRENT is replaced through a       *)
(* temporary file and read back in pieces, and a store is destroyed file   *)
(* by file while others may open it.  A file is an inode: a name leads to  *)
(* it, open descriptors and locks stay with it.                            *)
(***************************************************************************)
EXTENDS Integers, Sequences, FiniteSets, Functions, SequencesExt

CONSTANTS ManifestNumber,      \* numbers of manifests, each set as CURRENT at most once
          ReadBuffer,      \* kBufferSize of ReadFileToString
          StoreUser,       \* processes that open the store
          MaxOpens         \* bound on their DB::Open calls

ASSUME EnvFilesAssumption ==
    /\ ReadBuffer \in Nat \ {0}
    /\ StoreUser \cap {"destroyer", "nobody"} = {}

VARIABLES
    dirs,      \* the directory after each change the disk may still lack; the last is now
    inodes,    \* [bytes, synced]: what a file holds and how much of it is on disk
    setter,    \* a SetCurrentFile call
    fetcher,   \* a ReadFileToString call
    shelf,     \* the store's directory for Open and DestroyDB: name -> inode
    holders,   \* inode of a LOCK file -> the process whose lock it is
    user,      \* by process: its DB::Open
    destroyer, \* a DestroyDB call
    opens
currentVars == <<dirs, inodes, setter, fetcher>>
destroyVars == <<shelf, holders, user, destroyer, opens>>
envFileVars == <<currentVars, destroyVars>>

Assoc(f, x, v) == [i \in DOMAIN f \cup {x} |-> IF i = x THEN v ELSE f[i]]
Dropped(f, x) == Restrict(f, DOMAIN f \ {x})
NoSetter == [at |-> "idle", d |-> 0, file |-> 0]
NoFetcher == [at |-> "idle", file |-> 0, data |-> <<>>]

-----------------------------------------------------------------------------
(* CURRENT *)

\* The name of the manifest and a newline.
ManifestName(d) == <<"MANIFEST", d, "newline">>
TempName(d) == <<"tmp", d>>
CurrentName == <<"CURRENT", 0>>
Dir == Last(dirs)
CurrentInit == dirs = <<<<>>>> /\ inodes = <<>> /\ setter = NoSetter /\ fetcher = NoFetcher

SetCurrentFile(d) ==
    /\ setter.at = "idle" /\ \A i \in DOMAIN inodes : inodes[i].of # d
    /\ setter' = [NoSetter EXCEPT !.at = "create", !.d = d]
    /\ UNCHANGED <<dirs, inodes, fetcher>>
\* fopen(fname, "w")
NewWritableFile ==
    /\ setter.at = "create" /\ UNCHANGED fetcher
    /\ \/ /\ inodes' = Append(inodes, [of |-> setter.d, bytes |-> <<>>, synced |-> 0])
          /\ dirs' = Append(dirs, Assoc(Dir, TempName(setter.d), Len(inodes')))
          /\ setter' = [setter EXCEPT !.at = "append", !.file = Len(inodes')]
       \/ setter' = [setter EXCEPT !.at = "failed"] /\ UNCHANGED <<dirs, inodes>>
\* fwrite fills a buffer, of which any part may reach the file; what happens
\* to the rest when Append or a later step fails is the fclose of ~WritableFile.
Reached(n) == [inodes EXCEPT ![setter.file].bytes = SubSeq(ManifestName(setter.d), 1, n)]
AppendData ==
    /\ setter.at = "append" /\ UNCHANGED <<dirs, fetcher>>
    /\ \E n \in 0..Len(ManifestName(setter.d)), ok \in BOOLEAN :
         /\ inodes' = Reached(n)
         /\ setter' = [setter EXCEPT !.at = IF ok THEN "sync" ELSE "failed"]
ShouldSync == TRUE
\* fflush and fdatasync; WriteStringToFile goes without.
SyncFile ==
    /\ setter.at = "sync" /\ UNCHANGED <<dirs, fetcher>>
    /\ \/ /\ inodes' = (IF ShouldSync THEN [Reached(Len(ManifestName(setter.d))) EXCEPT
                                               ![setter.file].synced = Len(ManifestName(setter.d))]
                        ELSE inodes)
          /\ setter' = [setter EXCEPT !.at = "close"]
       \/ \E n \in Len(inodes[setter.file].bytes)..Len(ManifestName(setter.d)) :
            inodes' = Reached(n) /\ setter' = [setter EXCEPT !.at = "failed"]
CloseFile ==
    /\ setter.at = "close" /\ UNCHANGED <<dirs, fetcher>>
    /\ inodes' = [inodes EXCEPT ![setter.file].bytes = ManifestName(setter.d)]
    /\ \E ok \in BOOLEAN : setter' = [setter EXCEPT !.at = IF ok THEN "rename" ELSE "failed"]
\* rename replaces what the target was, at once
RenameFile ==
    /\ setter.at = "rename" /\ UNCHANGED <<inodes, fetcher>>
    /\ \/ /\ dirs' = Append(dirs, Assoc(Dropped(Dir, TempName(setter.d)), CurrentName, setter.file))
          /\ setter' = NoSetter
       \/ setter' = [setter EXCEPT !.at = "failed"] /\ UNCHANGED dirs
\* What a directory may be after unlink
Unlinked(d, name) == {d, Dropped(d, name)}
\* DoWriteStringToFile and SetCurrentFile delete the file; an error of that is ignored.
DeleteTemp ==
    /\ setter.at = "failed" /\ setter' = NoSetter /\ UNCHANGED <<inodes, fetcher>>
    /\ \E d \in Unlinked(Dir, TempName(setter.d)) : dirs' = IF d = Dir THEN dirs ELSE Append(dirs, d)

\* fopen(fname, "r"): the descriptor stays with the file the name led to.
NewSequentialFile(name, file) == name \in DOMAIN Dir /\ file = Dir[name]
ReadFileToString ==
    /\ fetcher.at = "idle"
    /\ \E file \in DOMAIN inodes : NewSequentialFile(CurrentName, file)
                                   /\ fetcher' = [at |-> "reading", file |-> file, data |-> <<>>]
    /\ UNCHANGED <<dirs, inodes, setter>>
\* The next fragment of the descriptor opened; an empty one is the end.
ReadFragment ==
    /\ fetcher.at = "reading" /\ UNCHANGED <<dirs, inodes, setter>>
    /\ LET bytes == inodes[fetcher.file].bytes
           end == IF Len(fetcher.data) + ReadBuffer > Len(bytes) THEN Len(bytes) ELSE Len(fetcher.data) + ReadBuffer
           fragment == SubSeq(bytes, Len(fetcher.data) + 1, end)
       IN  \/ fetcher' = [fetcher EXCEPT !.data = @ \o fragment, !.at = IF fragment = <<>> THEN "done" ELSE @]
           \/ fetcher' = NoFetcher       \* the read fails
ReadDone == fetcher.at = "done" /\ fetcher' = NoFetcher /\ UNCHANGED <<dirs, inodes, setter>>

\* The process ends; or the power fails, and of the directory's changes only
\* the first ones, of each file only what was synced and any part of the rest
\* is left.
ProcessEnds ==
    /\ setter' = NoSetter /\ fetcher' = NoFetcher /\ (setter.at # "idle" \/ fetcher.at # "idle")
    /\ UNCHANGED <<dirs, inodes>>
PowerFails ==
    /\ Len(dirs) > 1 /\ setter' = NoSetter /\ fetcher' = NoFetcher
    /\ \E i \in DOMAIN dirs : dirs' = <<dirs[i]>>
    /\ \E keep \in [DOMAIN inodes -> 0..Len(ManifestName(0))] :
         /\ \A f \in DOMAIN inodes : keep[f] \in inodes[f].synced..Len(inodes[f].bytes)
         /\ inodes' = [f \in DOMAIN inodes |-> [inodes[f] EXCEPT !.bytes = SubSeq(@, 1, keep[f]), !.synced = keep[f]]]

CurrentNext ==
    \/ \E d \in ManifestNumber : SetCurrentFile(d)
    \/ NewWritableFile \/ AppendData \/ SyncFile \/ CloseFile \/ RenameFile \/ DeleteTemp
    \/ ReadFileToString \/ ReadFragment \/ ReadDone \/ ProcessEnds \/ PowerFails

-----------------------------------------------------------------------------
(* DestroyDB beside users of the store.  "DATA" stands for its numbered files. *)

DestroyInit ==
    /\ shelf = <<>> /\ holders = <<>> /\ user = [p \in StoreUser |-> [at |-> "idle", lock |-> 0]]
    /\ destroyer = [at |-> "idle", files |-> {}, lock |-> 0, under |-> FALSE] /\ opens = 0
NewInode == Cardinality(DOMAIN holders) + 1
\* LockFile: open with O_CREAT, then fcntl on what was opened.
LockedShelf == IF "LOCK" \in DOMAIN shelf THEN shelf ELSE Assoc(shelf, "LOCK", NewInode)
LockOn(p, inode) == Assoc(holders, inode, p)
LockFree(inode) == inode \in DOMAIN holders => holders[inode] = "nobody"
LockInode == LockedShelf["LOCK"]
TakeLock(p) == shelf' = LockedShelf /\ LockFree(LockInode) /\ holders' = LockOn(p, LockInode)
OpenStore(p) ==
    /\ user[p].at = "idle" /\ opens < MaxOpens /\ opens' = opens + 1
    /\ TakeLock(p) /\ user' = [user EXCEPT ![p] = [at |-> "locked", lock |-> LockInode]]
    /\ UNCHANGED destroyer
\* NewDB makes what is missing (create_if_missing); a CURRENT without its
\* files is an error, and the lock is given back.
Recover(p) ==
    /\ user[p].at = "locked" /\ UNCHANGED <<destroyer, opens>>
    /\ IF "CURRENT" \in DOMAIN shelf /\ "DATA" \notin DOMAIN shelf
       THEN /\ user' = [user EXCEPT ![p] = [at |-> "idle", lock |-> 0]] /\ UNCHANGED shelf
            /\ holders' = [holders EXCEPT ![user[p].lock] = "nobody"]
       ELSE /\ shelf' = Assoc(Assoc(shelf, "DATA", 0), "CURRENT", 0)
            /\ user' = [user EXCEPT ![p].at = "running"] /\ UNCHANGED holders
CloseStore(p) ==
    /\ user[p].at = "running" /\ user' = [user EXCEPT ![p] = [at |-> "idle", lock |-> 0]]
    /\ holders' = [holders EXCEPT ![user[p].lock] = "nobody"] /\ UNCHANGED <<shelf, destroyer, opens>>

\* GetChildren before the lock is taken
DestroyDB ==
    /\ destroyer.at = "idle" /\ destroyer' = [destroyer EXCEPT !.at = IF shelf = <<>> THEN "done" ELSE "list", !.files = DOMAIN shelf \ {"LOCK"}]
    /\ UNCHANGED <<shelf, holders, user, opens>>
DestroyLock ==
    /\ destroyer.at = "list" /\ UNCHANGED <<user, opens>>
    /\ \/ TakeLock("destroyer") /\ destroyer' = [destroyer EXCEPT !.at = "delete", !.lock = LockInode]
       \/ /\ shelf' = LockedShelf /\ ~LockFree(LockInode)
          /\ destroyer' = [destroyer EXCEPT !.at = "done"] /\ UNCHANGED holders
DestroyFile ==
    /\ destroyer.at = "delete" /\ UNCHANGED <<holders, user, opens>>
    /\ \E f \in destroyer.files : /\ shelf' \in Unlinked(shelf, f)
                                  /\ destroyer' = [destroyer EXCEPT !.files = @ \ {f}]
\* UnlockFile, then the lock file, then the directory, if it is empty by then
DestroyUnlock ==
    /\ destroyer.at = "delete" /\ destroyer.files = {}
    /\ destroyer' = [destroyer EXCEPT !.at = "unlocked"]
    /\ holders' = [holders EXCEPT ![destroyer.lock] = "nobody"] /\ UNCHANGED <<shelf, user, opens>>
DestroyLockFile ==
    /\ destroyer.at = "unlocked"
    /\ destroyer' = [destroyer EXCEPT !.at = "done",
                       !.under = "LOCK" \in DOMAIN shelf /\ ~LockFree(shelf["LOCK"])]
    /\ shelf' \in Unlinked(shelf, "LOCK") /\ UNCHANGED <<holders, user, opens>>
DestroyNext ==
    \/ \E p \in StoreUser : OpenStore(p) \/ Recover(p) \/ CloseStore(p)
    \/ DestroyDB \/ DestroyLock \/ DestroyFile \/ DestroyUnlock \/ DestroyLockFile

-----------------------------------------------------------------------------
\* Whatever fails and whenever the process or the power ends, CURRENT, on any
\* disk that may be left, is whole and on disk: the old name or the new one.
CurrentWhole ==
    \A i \in DOMAIN dirs : CurrentName \in DOMAIN dirs[i] =>
        LET f == inodes[dirs[i][CurrentName]] IN f.bytes = ManifestName(f.of) /\ f.synced = Len(f.bytes)

\* A reader of CURRENT gets one whole name, also while it is replaced, and a
\* failed or finished call leaves no temporary file unless its deletion failed.
ReadWhole == fetcher.at = "done" => \E d \in ManifestNumber : fetcher.data = ManifestName(d)

\* DestroyDB takes no file away from a process that has the store open, and
\* the lock keeps users apart.  Only after it deleted the LOCK file that
\* someone locked in between (its last step is without the lock) may two have
\* the store.
DestroyedUnused ==
    /\ \A p \in StoreUser : user[p].at = "running" => {"DATA", "CURRENT"} \subseteq DOMAIN shelf
    /\ ~destroyer.under => \A p, q \in StoreUser : user[p].at # "idle" /\ user[q].at # "idle" => p = q

FilesExact == CurrentWhole /\ ReadWhole /\ DestroyedUnused
=============================================================================
