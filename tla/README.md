# TLA+ models of bpt / dds

This directory holds TLA+ models of the parts of the bpt package manager and build
driver (`src/`) whose correctness depends on concurrency, on the order of side
effects, or on what survives a failure. Each model is checked with TLC. Every
definition that models code is listed in `PROJECT.json` ("map") with the lines it
translates.

## The system and its parts

| Part | Code | State | Operations | Interacts with |
|---|---|---|---|---|
| Worker pool | `parallel_run` in `dds/build/plan/compile_exec.cpp` and an identical copy in `full.cpp` | a mutex, a shared iterator, the exception list, the threads | spawn, per thread: lock / check / take / unlock / run fn / relock and push, join | every build phase |
| Incremental compile | `compile_all`, `should_compile`, `do_compile` in `compile_exec.cpp` | object files and their mtimes, the deps DB (command and inputs per object), `new_deps` | filter view (`begin`, `++iter`), compile, persist records | pool, file system, deps DB |
| Build phases | `build_plan::compile_all / archive_all / link_all` in `full.cpp` | one pool per phase | run the phases in order | pool |
| CRS repository | `bpt::crs::repository` in `bpt/crs/repo.cpp`, `repo init` in `bpt/cli/cmd/repo_init.cpp`, migrations in `dds/util/db/migrate.cpp` | `repo.db` (migration version, self-row, package rows), `pkg/<name>/<ver>~<rev>/{pkg.tgz,pkg.json}`, `import_dir`'s temporary `pkg/<tmp>.tgz`, `repo.db.gz` | create (with `--if-exists`), open_existing and migration, import_targz / import_dir, remove_pkg, vacuum-and-compress | SQLite (one writer at a time), file system, other processes on the same repository |
| Toolchain | `dds/toolchain.cpp` | none (pure) | `split_shell_string`, `load_from_file` key validation, placeholder substitution in the compile and archive commands | compile commands |
| Parsers | `bpt/project/dependency.cpp`, `bpt/sdist/file.cpp`, `dds/project/project.walk.cpp`, `dds/pkg/id.cpp` | none (pure) | dependency shorthand, source kind, manifest keys, package ids | manifests |
| `pkg get` | `dds/cli/cmd/pkg_get.cpp` with `dds/pkg/id.cpp` | the output directory's entries `<name>@<version>` | per argument: parse the id, look it up, download, `remove_all(dest)`, `move_file` | package database, network, file system |
| Other CLI wrappers, temp dirs, logging | `dds/cli/cmd/pkg_prefetch.cpp`, `repoman_ls.cpp`, `bpt/temp.*.cpp`, `bpt/util/log.cpp` | none of interest | I/O | everything |

The hard behaviours are these:
- threads sharing an iterator and an exception list;
- a deps database written after the object files it describes;
- a build killed (Ctrl-C) at any point;
- files edited between builds (or during one);
- repository commands that write files before they commit, and commit before they snapshot;
- `pkg get`, which deletes a destination before it moves the new sdist there;
- several processes using one repository, serialised only by SQLite's write lock;
- I/O calls that fail half-way.

## Modules

- **`ParallelFor`** is the abstract specification of the pool: what `parallel_run`
  promises its callers.
  - Items start in range order and at most once each.
  - Nothing starts after a failure.
  - The call returns when nothing runs and either an item failed or all items
    started. It returns true iff none failed.
- **`ParallelRun`** is the pool step by step (`compile_exec.cpp:22-72`).
  - `mainPc` is the calling thread. `pc[w]` is the place in `run_one` of thread `w`.
  - `mut` is the mutex, `iter` the iterator, and `exceptions` the pushed exceptions.
  - One action per statement group: `Lock` is line 34, `Check` lines 35-40, `Take` 41,
    `Advance` 42-43, `RunFn` 44-46 (the fn may throw), `Relock` 47 and `Push` 48-49.
    `Spawn` is lines 54-60 and `Join` lines 61-71.
  - The history variables `taken` and `finished` serve the refinement mapping to
    `ParallelFor` (`ImplementsParallelFor`).
- **`CompileAll`** is incremental compilation over a sequence of builds.
  - The file system is modelled as follows:
    - file versions `content`, mtimes `mtime` and `objMtime` from a logical `clock`;
    - the headers each TU `includes`, and the generated command `cmd`;
    - the deps DB `db[t] = [cmd, inputs]`.
  - A build is modelled as follows:
    - `StartBuild` calls `begin()` on the filter view.
    - Workers run `TakeNext` (lines 34-43 under one hold of the mutex, including
      `++iter`, which runs `should_compile`), `CompilerRead`, `CompilerExit`
      (`do_compile`, and `fn` pushing to `new_deps`) and `RelockPush`.
    - Then come `Join`, `PersistOne` (one transaction per record, lines 196-200) and
      `Return`.
  - The environment is modelled by `Edit`, `ChangeCommand` and `Crash`.
  - `ghost built[t]` is what the object was compiled from. It defines
    `ObjCurrent(t)`, the truth that `should_compile` approximates.
  - `get_rebuild_info` is not in `src/`. `NewerInputs` follows spec 4.I.
  - The pool is checked in `ParallelRun`, so here each critical section is one step.
- **`BuildPhases`** composes three `INSTANCE`s of `ParallelFor`, one per phase, with
  the phase transitions of `full.cpp:78-109`. The builder that calls the phases in
  order is not in `src/` and is taken from spec 4.I.
- **`CrsRepo`** is the repository used by the processes `Procs`, each running one
  command at a time.
  - Shared state, which outlives the processes:
    - `dbFile`, `migrated`, `self` (the row at rowid 1729) and `rows` (committed
      package rows);
    - `dir[p]` (the files in a package directory, or `None`);
    - `tmpTgz` (the commands whose temporary archive lies in `pkg/`);
    - `staged` (the commands whose staging directory, made by
      `temporary_dir::create_in`, lies in `tmp/`);
    - `gz` (the last snapshot).
  - Per process: `pc`, the command `kind`, its argument `arg` and policy `mode`,
    its number `cid`, `tx[q]` (the INSERT of its open transaction) and `ver[q]`
    (the migration version it read).
  - Each command is its sequence of calls:
    - every command: `Open` (`create` creates `repo.db`, `open_existing` fails
      without it; then `get_migration_version`, read outside any transaction),
      then `Migrate` (`do_migrations_1`'s transaction, which fails if another
      process migrated since the version was read; `import_dir` then runs
      `validate_package_info`);
    - `repo init`: `InitInsert` (`InsertSelf`, or the `--if-exists` handler), `Vacuum`;
    - imports: `StageTargz` (make the staging directory, expand and parse
      `pkg.json`, then validate) or `StageDir` (make the staging directory, copy
      the libraries, write `pkg.json`), `WriteTmp` (`import_dir` only), `Insert`, `MakeDir`, `CopyTgz`
      (a move for `import_dir`), `CopyJson`, `Commit`, `Vacuum`;
    - `remove_pkg`: `Delete` (autocommit) and `RemoveDir`.
  - SQLite lets one connection write at a time. A write statement waits while
    another process's transaction is open, or fails with `SQLITE_BUSY` (`Busy`);
    nothing in `src/` retries it.
  - A file step may fail (`MaxFaults`); a failed compress in `WriteTmp` leaves its
    archive, since the `neo_defer` that removes it is registered after it. A kill
    (`Crash`, `MaxCrashes`) rolls back the open transaction and leaves files as
    they are. `Abort` is the exception path: rollback plus the `neo_defer`.
  - The staging directory is released (`Release`) on every exit of an import:
    `Abort`, `Busy`, a failed `WriteTmp` and the final `Vacuum`. A kill leaves it.
    `mkdtemp` itself may fail, and so may the writes into the directory.
  - History variables `initKilled`, `leftBehind` and `killed` record kills of
    `repo init`, the commands whose archive may stay (killed, or failed compress),
    and the killed commands.
  - Environment assumptions: `repo init` runs alone; `remove_pkg` runs alone unless
    `RemoveConcurrently`.
- **`Toolchain`** is `load_from_file` and the command templates of
  `dds/toolchain.cpp`.
  - `try_single` is one round of the key loop, applied to the file's pairs in
    order by the recursive `items_loop`.
  - `find` and `replace_loop` are `replace`'s `find`/append loop.
  - `create_compile_command` and `create_archive_command` splice `<FLAGS>` /
    `<OBJECTS>` and replace the other placeholders, `<FILE>` before `<OUT>`.
  - Placeholders are written as three characters (`<F>` for `<FILE>`), which
    `find` matches the way it matches the real ones.
  - The references are `ToolchainSpec` (known keys, none twice, the required
    present) and `Subst`, a left-to-right scan that substitutes all placeholders
    at once.
- **`ShellSplit`** has `split_shell_string` as a fold (`ShellStep`) over the
  characters, and a recursive reference, `ShellWords` (POSIX word splitting of strings
  without backslashes). Each initial state is one input string.
- **`DepShorthand`** is `from_shorthand_string` (`bpt/project/dependency.cpp`).
  - `next_token`, `adv_token` (the pointer arithmetic as "what follows the token"),
    `parse_dep_range_shorthand` and the `using` loop `uses_loop` are operators over
    character sequences. `after_range` (lines 82-91) and `set_uses` (92-93, 112)
    are the steps after the name and range, each its own operator.
    Splitting them out keeps TLC's evaluation of `from_shorthand_string` cheap.
  - The glyph `"U"` stands for the word `using`.
  - The name validator, `trim_view` and the restricted semver range parser are not
    in `src/` and follow the spec.
  - The reference `ShorthandSpec` recognises the grammar of spec 4.A character by
    character. It is an automaton whose transition function is `Step`, run by the
    recursive `Grammar`.
- **`SourceKind`** is `infer_source_kind` (`bpt/sdist/file.cpp`).
  - The three tables are kept as byte strings.
  - `is_in` is libstdc++'s halving `lower_bound` under byte order.
  - `extension` and `stem` follow `std::filesystem`: dot-files have no extension.
  - The reference `SpecKind` uses set membership in the tables.
- **`PkgGet`** is `dds pkg get` (`dds/cli/cmd/pkg_get.cpp`).
  - `parse` and `to_string` are `pkg_id::parse` and `pkg_id::to_string`
    (`dds/pkg/id.cpp`) over character sequences. The name is what precedes the first
    `@`. The semver parser is not in `src/`, so `ValidVersion` abstracts it to a
    non-empty run of version characters.
  - `out[e]` is the output-directory entry named `e`: `"absent"`, `"other"` (the
    user's own) or `"sdist"`.
  - `args`, `i` and `pc` are the command's arguments and its place in the loop.
    `result` is how the last command ended: `"exit0"`/`"exit1"` from the
    handlers, `"thrown"` for an exception none of them matches (a malformed id, a
    `remove_all` or `move_file` error), or `"killed"`.
  - Per argument:
    - `Fetch` covers lines 22-24 and their handlers: a malformed id, an id missing
      from the database, or a database/network/JSON fault.
    - `RemoveAll` is line 27 and `Move` line 28.
    - `Return` is line 30.
  - `Crash` kills the command.
  - History variables:
    - `initial`: the directory before the first command;
    - `held`: entries that ever held something;
    - `interrupted`: entries whose get stopped between `remove_all` and the end
      of `move_file`.
- **`MC_Parsers`** has one initial state per input: a shorthand string, a file name,
  a toolchain file, or a toolchain with a compile or an archive to build. It checks
  each operator against its reference.

The MC modules (`MC_ParallelRun`, `MC_CompileAll`, `MC_CrsRepo`, `MC_PkgGet`, `MC_Parsers`) give the constants
model values.

## Runs

| Run | cfg | Expect | What it shows |
|---|---|---|---|
| pool | ParallelRun.cfg | pass | Three threads (`n_jobs = 0`, `hardware_concurrency() = 1`) over four items, any of which may throw. The pool refines `ParallelFor` (`ImplementsParallelFor`). Under the mapping, items are taken once each and in range order, none after another thread recorded an exception, and the result is true iff every fn completed. It always returns (`Terminates`). 11,735 states. |
| compile | CompileAll.cfg | pass | Two TUs, one header, two commands, two threads, two builds, two edits or command changes, compiler failures and one kill. `NoStaleSkip`: with no edit during a build, the filter never skips a stale object. An edit during a compile (`EditsDuringBuild = TRUE`) breaks it, and so does an old record after a kill or a missing `.d` file from the third build on (the configurations of `compile_crash` and `compile_no_depfile`). `NoRedundantCompile`: the filter never recompiles an object whose record describes it (scenario S6). `UpToDateAfterSuccess`: a successful build leaves every object current. 760k states, about 25 s. |
| compile_crash | CompileAllCrash.cfg | violation | Kill after a recompile, before its record is written. A later header edit is missed and a "successful" build leaves a stale object. |
| compile_no_depfile | CompileAllNoDepfile.cfg | violation | A missing gnu `.d` file keeps the old record: same effect. |
| repo | CrsRepo.cfg | pass | Three processes, four commands between them, both import kinds, all `--if-exists` policies, one I/O failure, one kill. `RowsHaveFiles`: every committed row has both files, whatever fails, crashes or interleaves, as long as `remove_pkg` runs alone (see below). `NamelessOnlyAfterKill`: an existing `repo.db` without a self-row needs a killed `repo init`. `StrayArchivesExplained`: a temporary archive in `pkg/` belongs to a running command, a killed one, or one whose compress failed. `StagingReleased`: a staging directory in `tmp/` belongs to a running import or a killed one. 873k states, about 70 s. |
| repo_failed_import | CrsRepoFailedImport.cfg | violation | A failed copy leaves an orphan package directory (`RepoConsistent`, spec invariant 1). |
| repo_init_replace | CrsRepoReplace.cfg | violation | `--if-exists=replace` keeps `pkg/` while it recreates `repo.db`. |
| repo_remove_snapshot | CrsRepoRemoveSnapshot.cfg | violation | `remove_pkg` never republishes `repo.db.gz`, which keeps listing the package. |
| build_phases | BuildPhases.cfg | violation | `archive_all` and `link_all` ignore failures, so the build returns normally. |
| shell_split | ShellSplit.cfg | violation | An opening quote discards the word's earlier characters (`a''` → `""`). |
| pkg_get | PkgGet.cfg | pass | Two commands of up to two arguments each: listed, unlisted and malformed ids. The output directory starts with any mix of the user's entries. One fault and one kill are allowed. `NoSilentLoss`: an entry that held something is missing only mid-get or after a get that was killed or reported an error. `OthersUntouched`: entries not named after a listed package are never touched. `OkMeansAllPresent`: exit 0 means every requested sdist is in place. 25k states. |
| parsers | MC_Parsers.cfg | pass | Covers every shorthand string of up to nine characters over `a`, `U`, `@`, blank and comma, and every file name of up to three dot-separated parts. `ShorthandMatchesGrammar`: the token loop yields exactly the grammar's parse, rejecting trailing commas, a bare `using` and trailing words. `SourceKindMatchesTables`: the binary-search lookups classify every name as the tables say. `ToolchainLoadMatchesSpec`: toolchain files with each key 0-2 times, in three orders, are accepted as spec 4.G says. `CommandsSubstituteVerbatim`: compile and archive commands equal the verbatim substitution, with placeholders inside every substituted value. The one exception is the re-substitution the code's order makes (`toolchain.cpp:206-207`): an `<OUT>` inside the source path becomes the object path. The property states that exception exactly, and TLC finds the plain verbatim claim violated without it. 2.5M states, about 3 min with coverage reporting on. |

Each property of a passing run has a mutant in `PROJECT.json`: a plausible bug in a
mapped definition under which TLC finds that property violated.

### Bounds

**Worker pool.** Three threads and four items are enough for a thread to throw while
two others still hold or want items. This is the case the early-stop check (line 35)
exists for.

**Compile.** The bounds cover the following:
- Two TUs and two threads let one thread's `++iter` run `should_compile` on the other
  thread's TU.
- Two builds with two edits and one kill reach the scenarios that matter:
  - first build, edit, incremental build;
  - a command change between the builds;
  - a kill of either build, after which every later build must still return.
- The crash scenario needs three builds (build, include change, killed build,
  header edit, build). It is found by compile_crash, which uses three builds and
  checks safety only. With two builds a kill cannot break these properties, so the
  passing run checks them as they are. With three builds and one kill, its
  liveness check would take about 6 minutes.
- One header is enough for "a TU starts including a header".
- The deps mode matters only when a `.d` file may be missing, so the passing runs use
  gnu mode alone.

**Repository.** Three packages (one with revision 0) and two names cover the
following:
- a duplicate import;
- an invalid revision;
- import and remove of different packages;
- a second `repo init`.

Three processes and four commands cover the following:
- two imports of one package at once, with a third import running;
- a kill between creating a staging directory and the end of the import;
- an import opening the repository while another migrates it;
- a statement meeting another's open transaction (`Busy`);
- an init, then imports that overlap a kill or a fault.

The violation runs use one process and `import_targz` only, which is enough for
their traces and keeps them short. With `RemoveConcurrently = TRUE` (and no faults
or kills), TLC finds `RowsHaveFiles` violated:
1. `remove_pkg` deletes the row.
2. An import of the same package commits.
3. The remove's `ensure_absent` deletes the new files.

No run keeps that configuration (see the hazards).

**Toolchain.** The bounds cover the following:
- Each key 0-2 times, plus one unknown key, reaches every reason to reject and
  every accepted file.
- Values `<<k, n>>` catch a value filed under the wrong key or taken from the
  wrong occurrence.
- Templates hold placeholders alone, twice, next to each other, and inside
  substituted values, where they must not be substituted again.
- Source paths contain no `<OUT>`: `<FILE>` is replaced before `<OUT>`, so such a
  path would be rewritten (listed as a hazard).

**Parsers.** The bounds cover the following:
- Nine characters hold `a@a U a,a`: two libraries, so the loop goes round twice.
  They also hold a trailing comma and blanks around each comma.
- `@` is the only operator character. It exercises both the separator search and
  the `@`→`^` normalisation.
- The file-name parts include the empty part, which gives dot-files and doubled
  dots. They also include each table's neighbours in byte order, and `test` and
  `main`.

**pkg get.** Two commands of two arguments let one command install a package
that a later command replaces, or that the same command names twice. Arguments:
- `a@1` and `b@1` are listed in the database;
- `a@2` is well formed but unlisted, and is also the name of a possible user entry;
- `a` has no `@`;
- `a@1@1` has an `@` inside its version.

One fault reaches each failure path once, and one kill reaches each step.

### Fairness

**ParallelRun and CompileAll.** Each thread and the calling thread are weakly fair:
- the OS schedules runnable threads;
- a compiler process exits.

Only `ParallelRun` checks a liveness property (`Terminates`). `CompileAll`'s
workers hold no mutex, so every step of a build stays enabled until it is taken,
and a build returns by the shape of the actions; no run checks it.

The user (`Edit`, `ChangeCommand`) and kills are not fair: nothing obliges them to
happen.

**CrsRepo, PkgGet and BuildPhases.** These check only safety. CrsRepo's processes are
scheduled arbitrarily, which is all the operating system promises.

## Not modelled, and why

- The read-only repository queries change no state.
- The packing and extraction of archives is pure I/O.
- The package database and the download behind `pkg get`, and the package cache
  behind `pkg prefetch`, are not in `src/`. `pkg get` abstracts them to a lookup
  that succeeds iff the id is listed and a download that may fail. `pkg prefetch`
  and `repoman ls` are only calls into that missing code.
- Temporary directories are modelled only where the repository imports use them.
  `temporary_dir::create` and the Windows variant are not used by any modelled
  component.
- Logging (`log.cpp`) is a level mapping and a per-thread warn-once flag before
  an event is emitted; its subscribers and sinks are outside `src/` and out of
  the spec's scope, so nothing that could be checked depends on it. Error
  formatting is layout.
- The project manifest walker (`project.walk.cpp`) is not modelled. Its meaning
  is given by the semester library's combinators (`mapping`, `if_key`,
  `required_key`, what happens to a key no handler accepts). That library is
  neither in `src/` nor described by the spec, so a model of it would be guessed,
  not translated. One thing can be read off without it: the first handler
  throws `e_bad_pkg_yaml_key` for any key outside `KNOWN_KEYS`, and `$schema` is
  not in it, so `if_key{"$schema", just_accept}` (line 141) is never reached.
- SQLite's busy timeout (how long a writer waits) is not modelled: a waiting writer
  either takes its step later or fails busy.

The `hazards` list in `PROJECT.json` records each such gap with the line it concerns.

## Further work

1. Keep runs for the edit-during-compile race (`EditsDuringBuild = TRUE`, which
   violates `NoStaleSkip`) and the remove-versus-import race
   (`RemoveConcurrently = TRUE`, which violates `RowsHaveFiles`) if the run budget
   allows.
