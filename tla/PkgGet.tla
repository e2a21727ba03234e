------------------------------ MODULE PkgGet ------------------------------
(***************************************************************************)
(* `dds pkg get` (src/dds/cli/cmd/pkg_get.cpp) with pkg_id::parse and      *)
(* pkg_id::to_string (src/dds/pkg/id.cpp).  For each argument the command  *)
(* parses the id, looks it up in the package database, downloads the sdist *)
(* into a temporary directory, then removes <out>/<id> and moves the sdist *)
(* there.  The output directory is a function from entry names to what     *)
(* the entry holds; the user may run the command several times, and any    *)
(* run may be killed.                                                      *)
(*                                                                         *)
(* A string is a sequence of one-character strings.                       *)
(***************************************************************************)
EXTENDS Naturals, Sequences, SequencesExt

CONSTANTS
    Args,          \* the argument strings a user may pass
    MaxItems,      \* at most this many arguments per command
    VersionChars,  \* characters of an abstract semver version
    Catalog,       \* the ids the package database lists
    MaxCommands,   \* bounds: commands run,
    MaxFaults,     \*   lookup, download or file-system errors,
    MaxCrashes,    \*   kills
    None

VARIABLES
    out,          \* out[e]: "absent", "other" (not written by pkg get) or "sdist"
    args,         \* the current command's arguments
    i,            \* the loop index into args
    pc,           \* "idle", "fetch", "remove", "move"
    result,       \* the last command's return value ("exit0", "exit1"),
                  \*   "thrown" (an exception no handler matches), "killed"
                  \*   or None
    commands, faults, crashes,
    initial,      \* history: out before the first command
    interrupted,  \* history: entries whose get stopped between remove_all
                  \*   and the end of move_file
    held          \* history: entries that ever held something

vars == <<out, args, i, pc, result, commands, faults, crashes, initial,
          interrupted, held>>
hist == <<initial, interrupted, held>>

Invalid == [ok |-> FALSE]

(* semver::version::parse (not in src/): a non-empty run of version       *)
(* characters; its to_string gives the same characters back.              *)
ValidVersion(v) == v # <<>> /\ \A k \in DOMAIN v : v[k] \in VersionChars

(* pkg_id::parse, id.cpp:12-28, and the constructor's check of 30-37: the  *)
(* name is everything before the first '@', the version everything after. *)
parse(s) ==
    LET at   == SelectInSeq(s, LAMBDA c : c = "@")
        name == SubSeq(s, 1, at - 1)
        ver  == SubSeq(s, at + 1, Len(s))
    IN  IF at = 0 \/ ~ValidVersion(ver) \/ "@" \in ToSet(name) THEN Invalid
        ELSE [ok |-> TRUE, name |-> name, version |-> ver]

(* pkg_id::to_string, id.cpp:39. *)
to_string(id) == id.name \o <<"@">> \o id.version

Entries == {to_string(parse(s)) : s \in {a \in Args : parse(a).ok}}
ArgLists == UNION {[1 .. n -> Args] : n \in 0 .. MaxItems}

(* The item being worked on and its destination, pkg_get.cpp:22 and 25.    *)
Item == parse(args[i])
Dest == to_string(Item)

TypeOK ==
    /\ out \in [Entries -> {"absent", "other", "sdist"}]
    /\ initial \in [Entries -> {"absent", "other"}]
    /\ args \in ArgLists /\ i \in 1 .. MaxItems + 1
    /\ pc \in {"idle", "fetch", "remove", "move"}
    /\ result \in {None, "exit0", "exit1", "thrown", "killed"}
    /\ commands \in 0 .. MaxCommands /\ faults \in 0 .. MaxFaults
    /\ crashes \in 0 .. MaxCrashes
    /\ interrupted \subseteq Entries /\ held \subseteq Entries

Init ==
    /\ out \in [Entries -> {"absent", "other"}]
    /\ initial = out
    /\ args = <<>> /\ i = 1 /\ pc = "idle" /\ result = None
    /\ commands = 0 /\ faults = 0 /\ crashes = 0
    /\ interrupted = {}
    /\ held = {e \in Entries : out[e] # "absent"}

Fault == faults < MaxFaults /\ faults' = faults + 1

(* The command ends with exit code (or escaping exception) r.              *)
Finish(r) == pc' = "idle" /\ result' = r

(* Mutant: the loop index starts at 0.                                     *)
StartGetFromZero ==
    /\ pc = "idle" /\ commands < MaxCommands
    /\ commands' = commands + 1
    /\ \E a \in ArgLists : args' = a
    /\ i' = 0 /\ pc' = "fetch" /\ result' = None
    /\ UNCHANGED <<out, faults, crashes, hist>>

(* A user runs `pkg get` with some arguments.                              *)
StartGet ==
    /\ pc = "idle" /\ commands < MaxCommands
    /\ commands' = commands + 1
    /\ \E a \in ArgLists : args' = a
    /\ i' = 1 /\ pc' = "fetch" /\ result' = None
    /\ UNCHANGED <<out, faults, crashes, hist>>

(* Mutant: the loop stops before the last argument.                        *)
ReturnEarly ==
    /\ pc = "fetch" /\ i >= Len(args)
    /\ Finish("exit0")
    /\ UNCHANGED <<out, args, i, commands, faults, crashes, hist>>

(* The loop of lines 21-29 is done: return 0 (line 30).                    *)
Return ==
    /\ pc = "fetch" /\ i > Len(args)
    /\ Finish("exit0")
    /\ UNCHANGED <<out, args, i, commands, faults, crashes, hist>>

(* Mutant: the database lookup does not stop the item; the sdist of any    *)
(* well-formed id is fetched.                                             *)
FetchNoLookup ==
    /\ pc = "fetch" /\ i <= Len(args)
    /\ \/ ~Item.ok /\ Finish("thrown") /\ UNCHANGED faults
       \/ Item.ok /\ Fault /\ Finish("exit1")
       \/ Item.ok /\ pc' = "remove" /\ UNCHANGED <<faults, result>>
    /\ UNCHANGED <<out, args, i, commands, crashes, hist>>

(* Lines 22-24: a malformed id throws a user_error no handler of pkg_get   *)
(* matches; an id missing from the database is e_nonesuch (line 54); a    *)
(* database, network or JSON error is one of the handlers of 36-66.  All  *)
(* happen before the output directory is touched.                          *)
Fetch ==
    /\ pc = "fetch" /\ i <= Len(args)
    /\ \/ ~Item.ok /\ Finish("thrown") /\ UNCHANGED faults
       \/ Item.ok /\ Item \notin Catalog /\ Finish("exit1") /\ UNCHANGED faults
       \/ Item.ok /\ Item \in Catalog /\ Fault /\ Finish("exit1")
       \/ Item.ok /\ Item \in Catalog /\ pc' = "remove" /\ UNCHANGED <<faults, result>>
    /\ UNCHANGED <<out, args, i, commands, crashes, hist>>

(* Line 27: fs::remove_all(dest); its filesystem_error escapes.            *)
RemoveAll ==
    /\ pc = "remove"
    /\ \/ out' = [out EXCEPT ![Dest] = "absent"] /\ pc' = "move"
          /\ UNCHANGED <<faults, result>>
       \/ Fault /\ Finish("thrown") /\ UNCHANGED out
    /\ UNCHANGED <<args, i, commands, crashes, hist>>

(* Mutant: move_file's result is not checked, so a failed move goes on to  *)
(* the next item.                                                          *)
MoveIgnoringError ==
    /\ pc = "move"
    /\ \/ out' = [out EXCEPT ![Dest] = "sdist"] /\ held' = held \cup {Dest}
          /\ UNCHANGED faults
       \/ Fault /\ UNCHANGED <<out, held>>
    /\ i' = i + 1 /\ pc' = "fetch"
    /\ UNCHANGED <<args, result, commands, crashes, initial, interrupted>>

(* Line 28: move_file(tsd.sdist.path, dest).value(); on failure the        *)
(* system_error (no network_origin) escapes and dest stays removed.         *)
Move ==
    /\ pc = "move"
    /\ \/ out' = [out EXCEPT ![Dest] = "sdist"] /\ i' = i + 1 /\ pc' = "fetch"
          /\ held' = held \cup {Dest} /\ UNCHANGED <<faults, result, interrupted>>
       \/ Fault /\ Finish("thrown") /\ interrupted' = interrupted \cup {Dest}
          /\ UNCHANGED <<out, i, held>>
    /\ UNCHANGED <<args, commands, crashes, initial>>

(* The process is killed; a kill after remove_all leaves dest removed.     *)
Crash ==
    /\ pc # "idle" /\ crashes < MaxCrashes
    /\ crashes' = crashes + 1
    /\ Finish("killed")
    /\ interrupted' = IF pc = "move" THEN interrupted \cup {Dest} ELSE interrupted
    /\ UNCHANGED <<out, args, i, commands, faults, initial, held>>

Finished ==
    /\ pc = "idle" /\ commands = MaxCommands
    /\ UNCHANGED vars

Next == StartGet \/ Return \/ Fetch \/ RemoveAll \/ Move \/ Crash \/ Finished

Spec == Init /\ [][Next]_vars

-----------------------------------------------------------------------------
(* Properties.                                                             *)

(* An entry of the output directory that held something (the user's own  *)
(* files or an sdist) is missing only while a get of it is between         *)
(* remove_all and move_file (lines 27-28), or after such a get was killed  *)
(* or reported move_file's error: pkg get never loses a directory          *)
(* silently.                                                               *)
NoSilentLoss ==
    \A e \in Entries :
        out[e] = "absent" /\ e \in held
            => e \in interrupted \/ (pc = "move" /\ Dest = e)

(* A get that exits 0 (line 30) was given only well-formed ids and leaves  *)
(* an sdist at <out>/<id> for every one of them, not only for the last.   *)
OkMeansAllPresent ==
    [][pc' = "idle" /\ result' = "exit0"
          => \A k \in DOMAIN args :
                LET id == parse(args[k]) IN id.ok /\ out'[to_string(id)] = "sdist"]_vars

(* An entry not named after a package of the database (the user's own    *)
(* directory, or one named by a mistyped argument) is never removed or    *)
(* overwritten: the lookup of line 23 comes before remove_all.            *)
OthersUntouched ==
    \A e \in Entries \ {to_string(id) : id \in Catalog} : out[e] = initial[e]

====
