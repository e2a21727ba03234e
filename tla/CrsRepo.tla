------------------------------ MODULE CrsRepo ------------------------------
(***************************************************************************)
(* A local CRS repository, bpt::crs::repository in src/bpt/crs/repo.cpp,   *)
(* used by several processes (Procs) at once: `repo init`                  *)
(* (src/bpt/cli/cmd/repo_init.cpp, with its --if-exists policy), imports   *)
(* (import_targz, import_dir after open_existing) and remove_pkg.          *)
(*                                                                         *)
(* The state is what outlives a process: repo.db (its migration version,   *)
(* the self-row and the committed package rows), the package directories  *)
(* pkg/<name>/<ver>~<rev>/ and the files in them, the temporary archives   *)
(* import_dir writes into pkg/, the staging directories imports create in *)
(* tmp/, and repo.db.gz, the snapshot written by _vacuum_and_compress.  Each process runs one command as the sequence of *)
(* calls the code makes.  SQLite lets one connection write at a time: a    *)
(* write while another process's transaction is open waits, or fails with  *)
(* SQLITE_BUSY (Busy).  File writes may fail (at most MaxFaults) and a     *)
(* process may be killed between two calls (at most MaxCrashes); SQLite    *)
(* rolls back the transaction of a connection that goes away.             *)
(*                                                                         *)
(* `repo init` runs alone.  remove_pkg runs alone unless                   *)
(* RemoveConcurrently: whether an operator may remove a package while     *)
(* imports run.                                                            *)
(***************************************************************************)
EXTENDS Naturals, FiniteSets

CONSTANTS
    Procs,              \* processes using the repository
    Pkgs,               \* package ids (name, version, revision)
    Invalid,            \* those with revision < 1
    RepoNames,          \* names `repo init` may be given
    IfExists,           \* --if-exists policies used
    ImportKinds,        \* subset of {"targz", "dir"}: import_targz / import_dir
    RemoveConcurrently, \* may remove_pkg overlap other commands?
    MaxCommands,        \* bound: commands started in a behaviour
    MaxFaults,          \* bound: failed file writes
    MaxCrashes,         \* bound: processes killed mid-command
    None                \* model value

ASSUME Invalid \subseteq Pkgs /\ IfExists \subseteq {"fail", "ignore", "replace"}
ASSUME ImportKinds \subseteq {"targz", "dir"} /\ RemoveConcurrently \in BOOLEAN

Complete == {"pkg.tgz", "pkg.json"}
Cids     == 1 .. MaxCommands                \* command numbers

VARIABLES
    dbFile, migrated, self, rows,   \* repo.db: exists, version 1, self-row, package rows
    dir,        \* dir[p]: files in p's package directory, or None if absent
    tmpTgz,     \* commands whose temporary archive lies in pkg/
    staged,     \* commands whose staging directory lies in tmp/
    gz,         \* repo.db.gz: [self, rows] of the last snapshot, or None
    pc, kind, arg, mode, cid,      \* per process: the running command
    tx,         \* tx[q]: the package INSERTed by q's open transaction, or None
    ver,        \* ver[q]: the migration version q read before migrating
    commands, faults, crashes,
    initKilled, \* history: some `repo init` was killed
    leftBehind, \* history: commands whose archive may legitimately stay
    killed      \* history: commands that were killed

repoVars  == <<dbFile, migrated, self, rows, dir, tmpTgz, staged, gz>>
procVars  == <<pc, kind, arg, mode, cid, tx, ver>>
countVars == <<commands, faults, crashes>>
histVars  == <<initKilled, leftBehind, killed>>
vars == <<repoVars, procVars, countVars, histVars>>

Pcs == {"idle", "open", "migrate", "self", "stage", "tmp", "insert", "mkdir",
        "copy_tgz", "copy_json", "commit", "vacuum", "delete", "rmdir"}
Kinds == {"init", "remove"} \cup ImportKinds

TypeOK ==
    /\ dbFile \in BOOLEAN /\ migrated \in BOOLEAN
    /\ self \in RepoNames \cup {None} /\ rows \subseteq Pkgs
    /\ dir \in [Pkgs -> SUBSET Complete \cup {None}]
    /\ tmpTgz \subseteq Cids /\ staged \subseteq Cids
    /\ gz \in [self : RepoNames \cup {None}, rows : SUBSET Pkgs] \cup {None}
    /\ pc \in [Procs -> Pcs] /\ kind \in [Procs -> Kinds \cup {None}]
    /\ arg \in [Procs -> Pkgs \cup RepoNames \cup {None}]
    /\ mode \in [Procs -> IfExists \cup {None}]
    /\ cid \in [Procs -> Cids \cup {0}]
    /\ tx \in [Procs -> Pkgs \cup {None}] /\ ver \in [Procs -> {0, 1, None}]
    /\ commands \in 0 .. MaxCommands
    /\ faults \in 0 .. MaxFaults /\ crashes \in 0 .. MaxCrashes
    /\ initKilled \in BOOLEAN /\ leftBehind \subseteq Cids /\ killed \subseteq Cids

(* An empty directory: no repository yet. *)
Init ==
    /\ dbFile = FALSE /\ migrated = FALSE /\ self = None /\ rows = {}
    /\ dir = [p \in Pkgs |-> None] /\ tmpTgz = {} /\ staged = {} /\ gz = None
    /\ pc = [q \in Procs |-> "idle"] /\ kind = [q \in Procs |-> None]
    /\ arg = [q \in Procs |-> None] /\ mode = [q \in Procs |-> None]
    /\ cid = [q \in Procs |-> 0] /\ tx = [q \in Procs |-> None]
    /\ ver = [q \in Procs |-> None]
    /\ commands = 0 /\ faults = 0 /\ crashes = 0
    /\ initKilled = FALSE /\ leftBehind = {} /\ killed = {}

Set(f, q, v) == [f EXCEPT ![q] = v]

Goto(q, from, to) == pc[q] = from /\ pc' = Set(pc, q, to)

(* No other process has an open write transaction: q's statement can take  *)
(* SQLite's write lock.                                                    *)
NoOtherWriter(q) == \A o \in Procs \ {q} : tx[o] = None

(* The command of q ends, normally or by an exception: the transaction     *)
(* guard rolls back whatever is still open.                                *)
End(q) ==
    /\ pc' = Set(pc, q, "idle") /\ kind' = Set(kind, q, None)
    /\ arg' = Set(arg, q, None) /\ mode' = Set(mode, q, None)
    /\ cid' = Set(cid, q, 0) /\ tx' = Set(tx, q, None) /\ ver' = Set(ver, q, None)

CanFail == faults < MaxFaults

(* temporary_dir::create_in, temp.nix.cpp:20-33: mkdtemp creates a fresh   *)
(* bpt-tmp-XXXXXX under base.                                              *)
create_in(q) == staged' = staged \cup {cid[q]}

(* The temporary_dir of q's import is destroyed. *)
Release(q) == staged' = staged \ {cid[q]}

(* repo.cpp:149-155 _vacuum_and_compress: VACUUM, then gzip repo.db. *)
Snapshot == [self |-> self, rows |-> rows]

(* A new command of kind k with argument a starts in process q. *)
Start(q, k, a, m) ==
    /\ pc[q] = "idle" /\ commands < MaxCommands
    /\ commands' = commands + 1
    /\ pc' = Set(pc, q, "open") /\ kind' = Set(kind, q, k)
    /\ arg' = Set(arg, q, a) /\ mode' = Set(mode, q, m)
    /\ cid' = Set(cid, q, commands + 1)
    /\ UNCHANGED <<repoVars, tx, ver, faults, crashes, histVars>>

Alone(q) == \A o \in Procs \ {q} : pc[o] = "idle"
NoLoneCommandRuns ==
    \A o \in Procs : kind[o] # "init" /\ (kind[o] = "remove" => RemoveConcurrently)

StartInit(q) ==
    /\ Alone(q)
    /\ \E n \in RepoNames, m \in IfExists : Start(q, "init", n, m)

StartImport(q) ==
    /\ NoLoneCommandRuns
    /\ \E k \in ImportKinds, p \in Pkgs : Start(q, k, p, None)

StartRemove(q) ==
    /\ Alone(q) \/ (RemoveConcurrently /\ NoLoneCommandRuns)
    /\ \E p \in Pkgs : Start(q, "remove", p, None)

-----------------------------------------------------------------------------
(* Opening and migrating, shared by every command.                         *)

(* get_migration_version, migrate.cpp:82-106: the meta table's version.  *)
get_migration_version == IF migrated THEN 1 ELSE 0

(* validate_package_info, repo.cpp:94-101: pkg-version must be positive.  *)
validate_package_info(p) == p \notin Invalid

(* Mutant: every command opens repo.db with `open`, creating it.           *)
OpenCreates(q) ==
    /\ Goto(q, "open", "migrate")
    /\ dbFile' = TRUE
    /\ ver' = Set(ver, q, get_migration_version)
    /\ UNCHANGED <<migrated, self, rows, dir, tmpTgz, staged, gz, kind, arg, mode,
                   cid, tx, countVars, histVars>>

(* create (repo.cpp:159-160) creates the directory and opens repo.db,      *)
(* creating it; open_existing (176) fails if it is absent.  Then           *)
(* do_migrations_1 creates the meta table and reads the version,           *)
(* migrate.cpp:19-50 and 82-106, outside any transaction.                  *)
Open(q) ==
    /\ pc[q] = "open"
    /\ IF kind[q] = "init" \/ dbFile
          THEN /\ pc' = Set(pc, q, "migrate")
               /\ dbFile' = TRUE
               /\ ver' = Set(ver, q, get_migration_version)
               /\ UNCHANGED <<kind, arg, mode, cid, tx>>
          ELSE End(q) /\ UNCHANGED dbFile
    /\ UNCHANGED <<migrated, self, rows, dir, tmpTgz, staged, gz, countVars, histVars>>

(* What follows the migrations: the self-row for init, the DELETE for     *)
(* remove_pkg, the INSERT (import_targz) or the temporary archive         *)
(* (import_dir), each after creating its staging directory.               *)
AfterOpen(q) ==
    CASE kind[q] = "init"   -> "self"
      [] kind[q] = "remove" -> "delete"
      [] kind[q] \in ImportKinds -> "stage"

(* migrate.cpp:52-79: in one transaction, apply the migrations after the   *)
(* version read earlier and set the version.  If another process migrated  *)
(* in between, CREATE TABLE fails and the migration errors out.  Then     *)
(* import_dir validates its package (repo.cpp:235) and ends if invalid.    *)
Migrate(q) ==
    /\ pc[q] = "migrate" /\ NoOtherWriter(q)
    /\ \/ /\ ver[q] = 0 /\ migrated
          /\ End(q) /\ UNCHANGED migrated
       \/ /\ ver[q] = 1 \/ ~migrated
          /\ migrated' = TRUE
          /\ IF kind[q] = "dir" /\ ~validate_package_info(arg[q])
                THEN End(q)
                ELSE pc' = Set(pc, q, AfterOpen(q))
                     /\ UNCHANGED <<kind, arg, mode, cid, tx, ver>>
    /\ UNCHANGED <<dbFile, self, rows, dir, tmpTgz, staged, gz, countVars, histVars>>

(* A write statement of q finds another transaction open: SQLITE_BUSY.    *)
Busy(q) ==
    /\ pc[q] \in {"migrate", "self", "insert", "vacuum", "delete"}
    /\ ~NoOtherWriter(q)
    /\ End(q) /\ Release(q)
    /\ tmpTgz' = tmpTgz \ {cid[q]}
    /\ UNCHANGED <<dbFile, migrated, self, rows, dir, gz, countVars, histVars>>

-----------------------------------------------------------------------------
(* Staging: repo.cpp:197-203 and 238-242.  An import makes a directory in  *)
(* tmp/ and works in it; the temporary_dir handle removes it when the      *)
(* import returns or throws, so every exit path other than a kill takes it *)
(* away again.                                                             *)

(* import_targz, lines 197-203: create tmp/ and the staging directory      *)
(* (mkdtemp may fail: system_error), expand pkg.json from the archive into *)
(* it and parse it (which may fail), then validate_package_info.  The      *)
(* failures after mkdtemp leave through the handle's destructor, so each   *)
(* failure leaves tmp/ as it was.                                          *)
StageTargz(q) ==
    /\ pc[q] = "stage" /\ kind[q] = "targz"
    /\ \/ /\ validate_package_info(arg[q])
          /\ create_in(q) /\ pc' = Set(pc, q, "insert")
          /\ UNCHANGED <<kind, arg, mode, cid, tx, ver, faults>>
       \/ ~validate_package_info(arg[q]) /\ End(q) /\ UNCHANGED <<staged, faults>>
       \/ CanFail /\ faults' = faults + 1 /\ End(q) /\ UNCHANGED staged
    /\ UNCHANGED <<dbFile, migrated, self, rows, dir, tmpTgz, gz, commands, crashes,
                   histVars>>

(* import_dir, lines 238-242: create tmp/ and the staging directory, copy  *)
(* the libraries into it (archive_package_libraries, 66-91) and write      *)
(* pkg.json; any of these may fail.                                        *)
StageDir(q) ==
    /\ pc[q] = "stage" /\ kind[q] = "dir"
    /\ \/ create_in(q) /\ pc' = Set(pc, q, "tmp")
          /\ UNCHANGED <<kind, arg, mode, cid, tx, ver, faults>>
       \/ CanFail /\ faults' = faults + 1 /\ End(q) /\ UNCHANGED staged
    /\ UNCHANGED <<dbFile, migrated, self, rows, dir, tmpTgz, gz, commands, crashes,
                   histVars>>

-----------------------------------------------------------------------------
(* `repo init`: the rest of repository::create (repo.cpp:161-171) inside   *)
(* _repo_init (repo_init.cpp:13-41).                                       *)

(* repository::create, lines 162-168: INSERT the self-row at rowid 1729;  *)
(* a primary-key violation throws e_repo_already_init.                    *)
InsertSelf(q) ==
    /\ self = None
    /\ self' = arg[q]
    /\ pc' = Set(pc, q, "vacuum")
    /\ UNCHANGED <<dbFile, migrated, rows, kind, arg, mode, cid, tx, ver>>

(* _repo_init's handler of e_repo_already_init, by policy: ignore returns  *)
(* 0, fail rethrows, replace deletes repo.db and runs try_create again,    *)
(* whose own e_repo_already_init is not caught again.                      *)
InitInsert(q) ==
    /\ pc[q] = "self" /\ NoOtherWriter(q)
    /\ \/ InsertSelf(q)
       \/ /\ self # None /\ mode[q] \in {"ignore", "fail"}
          /\ End(q)
          /\ UNCHANGED <<dbFile, migrated, self, rows>>
       \/ /\ self # None /\ mode[q] = "replace"
          /\ dbFile' = FALSE /\ migrated' = FALSE /\ self' = None /\ rows' = {}
          /\ pc' = Set(pc, q, "open") /\ mode' = Set(mode, q, "fail")
          /\ UNCHANGED <<kind, arg, cid, tx, ver>>
    /\ UNCHANGED <<dir, tmpTgz, staged, gz, countVars, histVars>>

(* _vacuum_and_compress after create (169-171) and after an import         *)
(* (225 / 267); the command then returns.                                  *)
Vacuum(q) ==
    /\ pc[q] = "vacuum" /\ NoOtherWriter(q)
    /\ gz' = Snapshot
    /\ End(q) /\ Release(q)
    /\ UNCHANGED <<dbFile, migrated, self, rows, dir, tmpTgz, countVars, histVars>>

-----------------------------------------------------------------------------
(* Importing: import_targz (repo.cpp:195-228) and import_dir (230-270).    *)

(* Mutant: the error path leaves the temporary archive in pkg/.            *)
AbortNoCleanup(q) ==
    /\ End(q) /\ Release(q)
    /\ UNCHANGED tmpTgz

(* Mutant: an error path does not destroy the temporary_dir (a handle     *)
(* that is moved out, or a release only on success).                       *)
AbortKeepsStaging(q) ==
    /\ End(q)
    /\ tmpTgz' = tmpTgz \ {cid[q]}
    /\ UNCHANGED staged

(* An exception after line 246: the transaction guard rolls back and the   *)
(* neo_defer removes import_dir's temporary archive.                       *)
Abort(q) ==
    /\ End(q) /\ Release(q)
    /\ tmpTgz' = tmpTgz \ {cid[q]}

(* import_dir, lines 244-246: compress the package into pkg/<tmp>.tgz,    *)
(* then register the neo_defer that removes it.  A failing compress leaves *)
(* its partial archive behind: the defer is not registered yet.           *)
WriteTmp(q) ==
    /\ pc[q] = "tmp"
    /\ tmpTgz' = tmpTgz \cup {cid[q]}
    /\ \/ /\ pc' = Set(pc, q, "insert")
          /\ UNCHANGED <<staged, kind, arg, mode, cid, tx, ver, faults, leftBehind>>
       \/ /\ CanFail /\ faults' = faults + 1
          /\ leftBehind' = leftBehind \cup {cid[q]}
          /\ End(q) /\ Release(q)
    /\ UNCHANGED <<dbFile, migrated, self, rows, dir, gz, commands, crashes,
                   initKilled, killed>>

(* Mutant: the INSERT is not made in the transaction that is committed.   *)
InsertOutsideTx(q) ==
    /\ pc[q] = "insert" /\ NoOtherWriter(q)
    /\ IF arg[q] \in rows
          THEN Abort(q)
          ELSE pc' = Set(pc, q, "mkdir") /\ UNCHANGED <<tmpTgz, staged, kind, arg, mode, cid, tx, ver>>
    /\ UNCHANGED <<dbFile, migrated, self, rows, dir, gz, countVars, histVars>>

(* Lines 206-218 / 248-260: open a transaction and INSERT the row; a       *)
(* unique violation becomes e_repo_import_pkg_already_present.             *)
Insert(q) ==
    /\ pc[q] = "insert" /\ NoOtherWriter(q)
    /\ IF arg[q] \in rows
          THEN Abort(q)
          ELSE /\ tx' = Set(tx, q, arg[q]) /\ pc' = Set(pc, q, "mkdir")
               /\ UNCHANGED <<tmpTgz, staged, kind, arg, mode, cid, ver>>
    /\ UNCHANGED <<dbFile, migrated, self, rows, dir, gz, countVars, histVars>>

(* A file step of the import throws. *)
ImportFails(q) ==
    /\ CanFail /\ faults' = faults + 1
    /\ Abort(q)
    /\ UNCHANGED dir

(* Lines 220-221 / 262-263: create_directories(subdir_of(pkg)). *)
MakeDir(q) ==
    /\ pc[q] = "mkdir"
    /\ \/ /\ pc' = Set(pc, q, "copy_tgz")
          /\ dir' = [dir EXCEPT ![arg[q]] = IF @ = None THEN {} ELSE @]
          /\ UNCHANGED <<tmpTgz, staged, kind, arg, mode, cid, tx, ver, faults>>
       \/ ImportFails(q)
    /\ UNCHANGED <<dbFile, migrated, self, rows, gz, commands, crashes, histVars>>

(* Put file f into the package directory, or fail -- as it must when a    *)
(* concurrent remove_pkg took the directory away.  import_dir moves its    *)
(* temporary archive into place (264), taking it out of pkg/.              *)
CopyInto(q, from, f, to) ==
    /\ pc[q] = from
    /\ \/ /\ dir[arg[q]] # None /\ pc' = Set(pc, q, to)
          /\ dir' = [dir EXCEPT ![arg[q]] = @ \cup {f}]
          /\ tmpTgz' = IF f = "pkg.tgz" THEN tmpTgz \ {cid[q]} ELSE tmpTgz
          /\ UNCHANGED <<staged, kind, arg, mode, cid, tx, ver, faults>>
       \/ /\ CanFail \/ dir[arg[q]] = None
          /\ faults' = IF dir[arg[q]] = None THEN faults ELSE faults + 1
          /\ Abort(q) /\ UNCHANGED dir
    /\ UNCHANGED <<dbFile, migrated, self, rows, gz, commands, crashes, histVars>>

(* Mutant: the pkg.json copy is left out. *)
CopyTgzOnly(q) == CopyInto(q, "copy_tgz", "pkg.tgz", "commit")

(* Lines 222 / 264, then 223 / 265. *)
CopyTgz(q)  == CopyInto(q, "copy_tgz", "pkg.tgz", "copy_json")
CopyJson(q) == CopyInto(q, "copy_json", "pkg.json", "commit")

(* Lines 224 / 266: tr.commit(). *)
Commit(q) ==
    /\ Goto(q, "commit", "vacuum")
    /\ rows' = rows \cup {tx[q]}
    /\ tx' = Set(tx, q, None)
    /\ UNCHANGED <<dbFile, migrated, self, dir, tmpTgz, staged, gz, kind, arg, mode, cid,
                   ver, countVars, histVars>>

-----------------------------------------------------------------------------
(* remove_pkg, repo.cpp:306-320, after open_existing.                      *)

(* Lines 308-317: DELETE the row, outside any transaction (autocommit). *)
Delete(q) ==
    /\ Goto(q, "delete", "rmdir") /\ NoOtherWriter(q)
    /\ rows' = rows \ {arg[q]}
    /\ UNCHANGED <<dbFile, migrated, self, dir, tmpTgz, staged, gz, kind, arg, mode, cid,
                   tx, ver, countVars, histVars>>

(* Lines 318-319: ensure_absent(subdir), which may fail; then return --    *)
(* there is no _vacuum_and_compress.                                       *)
RemoveDir(q) ==
    /\ pc[q] = "rmdir"
    /\ \/ dir' = [dir EXCEPT ![arg[q]] = None] /\ UNCHANGED faults
       \/ CanFail /\ faults' = faults + 1 /\ UNCHANGED dir
    /\ End(q)
    /\ UNCHANGED <<dbFile, migrated, self, rows, tmpTgz, staged, gz, commands, crashes,
                   histVars>>

-----------------------------------------------------------------------------
(* Process q is killed between two calls: its transaction is rolled back,  *)
(* files stay as they are.                                                 *)
Crash(q) ==
    /\ pc[q] # "idle" /\ crashes < MaxCrashes
    /\ crashes' = crashes + 1
    /\ initKilled' = (initKilled \/ kind[q] = "init")
    /\ leftBehind' = leftBehind \cup {cid[q]}
    /\ killed' = killed \cup {cid[q]}
    /\ End(q)
    /\ UNCHANGED <<repoVars, commands, faults>>

Finished ==
    /\ \A q \in Procs : pc[q] = "idle"
    /\ commands = MaxCommands
    /\ UNCHANGED vars

Proc(q) ==
    \/ StartInit(q) \/ StartImport(q) \/ StartRemove(q)
    \/ Open(q) \/ Migrate(q) \/ Busy(q) \/ InitInsert(q) \/ Vacuum(q)
    \/ StageTargz(q) \/ StageDir(q) \/ WriteTmp(q) \/ Insert(q) \/ MakeDir(q) \/ CopyTgz(q) \/ CopyJson(q)
    \/ Commit(q) \/ Delete(q) \/ RemoveDir(q) \/ Crash(q)

Next == (\E q \in Procs : Proc(q)) \/ Finished

Spec == Init /\ [][Next]_vars

-----------------------------------------------------------------------------
(* Properties.                                                             *)

AllIdle == \A q \in Procs : pc[q] = "idle"

(* Every committed row has its package directory with pkg.tgz and pkg.json *)
(* in it, whatever fails or crashes and however imports interleave: an    *)
(* import copies both files before it commits (repo.cpp:221-224),         *)
(* remove_pkg deletes the row before the directory (308-319).  This needs *)
(* remove_pkg to run alone: with RemoveConcurrently an import of the same  *)
(* package can commit between the DELETE and ensure_absent, and loses its *)
(* files.  Half of spec.md invariant 1 (the other half, no directory      *)
(* without a row, is RepoConsistent).                                     *)
RowsHaveFiles == \A p \in rows : dir[p] = Complete

(* spec.md invariant 1 and section 5 ("temporary files ... are released on *)
(* every exit path, and a failed import leaves no orphan directory under   *)
(* pkg/"): between commands pkg/ holds exactly the complete directories of *)
(* the committed rows, and no temporary archive.                           *)
RepoConsistent ==
    AllIdle =>
        /\ \A p \in Pkgs : /\ p \in rows <=> dir[p] = Complete
                           /\ dir[p] # None => p \in rows
        /\ tmpTgz = {}

(* spec.md 4.C: repo.db.gz is republished after every mutation, so every  *)
(* package the snapshot advertises can be downloaded.                      *)
SnapshotPackagesAvailable ==
    AllIdle /\ gz # None => \A p \in gz.rows : dir[p] = Complete

(* repository::create migrates and inserts the self-row in separate       *)
(* statements (repo.cpp:161-168), so a repository.db without a name, which *)
(* open_existing accepts and imports go into but name() fails on, can      *)
(* exist -- but only if a `repo init` was killed: no other command creates *)
(* repo.db.                                                                *)
NamelessOnlyAfterKill ==
    AllIdle /\ dbFile /\ self = None => initKilled

(* import_dir's temporary archive leaves pkg/ on every exit path after its *)
(* neo_defer is registered (repo.cpp:246): one that stays belongs to a     *)
(* running command, a killed one, or one whose compress failed before the  *)
(* defer existed.                                                          *)
StrayArchivesExplained ==
    \A c \in tmpTgz : c \in leftBehind \/ \E q \in Procs : cid[q] = c

(* Every staging directory in tmp/ belongs to a running import or to one  *)
(* that was killed: import_targz and import_dir release it on every exit   *)
(* path, the duplicate-id rollback, SQLITE_BUSY and every failing file     *)
(* step included (spec.md section 5).  Nothing removes one a kill leaves.  *)
StagingReleased ==
    \A c \in staged : c \in killed \/ \E q \in Procs : cid[q] = c

=============================================================================
