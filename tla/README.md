# Verification of the HVSC Update Tool

The tool applies an update script (`UpdateXY.hvs`) to a copy of the High Voltage
SID Collection: it moves, replaces and deletes files, edits the headers of
sidtunes, and archives the script in `DOCUMENTS` when nothing went wrong. It has
no undo, it changes the user's only copy in place, and each update relies on the
one before it. The modules here model what it does to that copy. Paths below are
relative to the root of the repository.

## The system

| Component | Source | State | Operations | Hard parts |
|---|---|---|---|---|
| Path lookup, file helpers | `src/helpers.cpp`, `src/PathSplitter.cpp` | none; reads the file tree | `getHVSCpath`, `makeHVSCdir`, `fileCopy` | names that differ in case only; exceptions of `std::filesystem` |
| MOVE, REPLACE | `src/MoveReplace.cpp` | the file being moved, the rest of its directory | `move_replace` | several file-system calls per file, nothing atomic; two ways to name one destination |
| DELETE, MKDIR | `src/Update.cpp` 584-633 | none | two cases of the switch in `main` | exceptions |
| Script reader, command loop | `src/TextFile.cpp`, `src/Mode.h`, `src/Update.cpp` 465-654 | line, buffer, mode, `skipLinesAfterError`, `errorCount` | `UpdateReader::NextLine`, the loop | staying in step with the script after an error |
| Update run | `src/Update.cpp` 134-463, 656-694 | version found, warning, update number; scripts, archive, Errors file on disk | prompts, checks, archiving | runs that die and are started again |
| Header reader, versions | `src/TextFile.cpp` 61-93, `src/hvscver.cpp`, `src/hvscver.h`, `src/Update.cpp` 256-287, 358-404 | the place in a file, the versions found, required and resulting | `HeaderReader::NextLine`, `FindKey`, `atohvscver`, `hvscvercmp` | the limit of ten lines; lines that repeat a key or tell no version; a version that has to fit one number |
| Sidtune commands | `src/mysidtune.cpp` | the sidtune in memory | `writeToSidTune` | fields that are checked after they were changed |
| Sidtune files | `src/sidtune.cpp`, `src/fformat/psid_.cpp` | the header fields, the cached file | load, check, save | PSID and RSID, four versions, fields that share a word |
| PowerPacker | `src/fformat/pp_.cpp`, `src/sidtune.cpp` 128-247 | current word and bits of it, positions in the packed data and in the output, `globalError` | `ppRead`, `ppBytes`, `ppSequence`, `depp`, `loadFile` | words that end in the middle of a value; ends of both buffers; data of any kind |
| Progress display, format helpers, Windows console | `src/fastperc.h`, `src/fformat/fformat_.cpp`, `appExit` | none that matters | output | none |
| Test, build | `test/test.py`, CMake | - | a chain of unattended runs; `NDEBUG` | - |

How they interact: `main` opens the script with the reader and loops over its
lines. The mode in force decides what a line is. The sidtune keywords look up a
path, read further lines themselves, and load, change and save that file. MOVE
and REPLACE get the reader, because they read the destination line themselves,
and a callback (`ErrorLogger`) that writes to the Errors file and increments
`errorCount`. Everything shares the file tree and nothing else. There is one
thread; what happens concurrently is the user's kill signal, and what survives a
run is the tree, which includes the script, its archived copy and the Errors
file. Exceptions of `std::filesystem` are caught nowhere but around the two
header readers, so an error that the library reports by throwing ends the
process in the middle of a command.

What makes each part correct:

- lookup: in a collection without ambiguous names it finds exactly the entry that
  differs at most in case; it never invents a path;
- MOVE, REPLACE, DELETE, MKDIR: no tune is lost by a MOVE at whatever point it
  stops, nothing is overwritten, REPLACE removes the file it replaces and no
  other, the tree stays a tree;
- reader and loop: whatever fails, later blocks are read as the format defines
  them, every failure is counted, and a count of zero means that everything was
  done;
- run: the script of an update is never lost, its archived copy stands for a
  complete update, an unattended exit code 0 does so too, a collection that does
  not fit is never touched without the user's consent, the Errors file tells the
  truth about the last run, unless that was cut off;
- header and versions: a script without its versions is refused, and the user is
  warned exactly if the collection does not have the version the update needs;
- sidtunes: a command changes the fields it names and no others, a failed command
  leaves the file as it was, a saved file can be loaded again, and whatever becomes
  of a save the data are never anything but the data of the tune;
- PowerPacker: what a compressor has written is read as it was, nothing is written
  outside the output, what asks for another number of bytes than it says it has or
  for more words than there are is refused, and the decoder comes to an end.

## Modules

| Module | Models |
|---|---|
| `HvscTree` | the file tree, the `std::filesystem` calls, `getHVSCpath`, `makeHVSCdir` |
| `CollectionStore` | abstract: what the file commands promise |
| `FileCommands` | MOVE, REPLACE, DELETE, MKDIR, call by call, with exceptions, kills and reruns |
| `ScriptReader` | the loop of `main` over the lines of a script |
| `HvscVersion` | the header reader on documentation and script, version numbers, the check of the collection's version |
| `UpdateScript` | a script as `main` reads it, header first, commands second: `HvscVersion` and `ScriptReader` on the same lines |
| `UpdateRun` | a run from its first prompt to its exit code, and the runs after it |
| `UpdateSession` | `main` and its commands on one tree, call by call: `FileCommands` with the run around it |
| `SidTune` | loading, changing and saving one sidtune, command by command, with kills, full disks and later runs |
| `PowerPacker` | loading a file that may be packed, bit by bit |
| `MCFileCommands`, `MCUpdateScript`, `MCUpdateSession`, `MCSidTune`, `MCPowerPacker` | small instances for TLC |
| `HvscTreeProofs`, `FileCommandsProofs`, `UpdateRunProofs` | theorems on the tree, the file commands and runs |
| `UpdateScriptProofs` | theorems on the reading of a script, first and second time |
| `UpdateSessionProofs` | theorems on whole updates, call by call |
| `SidTuneProofs`, `SidEditProofs` | theorems on sidtunes: types, data and loading; what a command changes |
| `PowerPackerProofs` | theorems on the decoder: any file, and files a compressor has written |

`UpdateScript` composes the two readings of one script. `UpdateSession` composes
`FileCommands` with the run: script, archived copy, documentation and tunes are
files of one tree, and every step is a step of `UpdateRun` or changes nothing of
what `UpdateRun` sees (`ImplementsRun`). Two components enter it as what has been
shown of them: a sidtune command is a file that is truncated and written with its
new content (`SidTune` says what that is, and its `RepeatingIsHarmless` is the
`EditedAssumption` of `UpdateSession` and lets `UpdateRun` call sidtune commands
`Repeatable`), and a script is a sequence of commands (`ScriptReader` says that
this is how the loop cuts up its lines).

### HvscTree and FileCommands

A path is the sequence of names below the HVSC root; a tree is a function from
paths to `Directory` or to what the file holds. Each tune is one model value, so
contents can be followed through copies. `Resolve` is the loop of `getHVSCpath`,
with its peculiarity that *every* entry that matches is appended. `Listing` is
the order of the directory iterator, which is a constant, because nothing in the
code depends on it but the path made of two ambiguous matches.

`Begin` is `move_replace` up to its first change of the tree other than making
the destination directory: source lookup, destination lookup, and the checks with
their early returns. `NextFile` is one turn of the loop over a source directory.
`RemoveOld`, `OpenDestination`, `FillDestination` and `RemoveSource` are the
file-system calls on one file, `fs::copy_file` being two steps because a kill can
leave a fragment. `Complete`, `LogError` and `Abort` are the ways a command ends.
After `Abort` or `Kill` the tool can be run again on the tree as it is.

A REPLACE has several states in which it can die with the old version gone; that
is what the code does, and what `Tunes` in `MoveLosesNothing` is restricted to
MOVE for.

### ScriptReader

A script is a sequence of lines; a line has a kind (a keyword, text, comment, blank)
and may be indented, and a parameter is known by the number of its line. What the loop
takes a line for is `Seen`: it removes white space at the end only and then looks at the
first character, so that an indented comment or keyword is text to it. What the
format takes a line for is `Meant`: white space in front does not count, and `NO_MODE`
is no keyword. `DocumentedBlocks` is the format as `HVSC_Update.txt` defines it,
written independently of the loop: it cuts a script into blocks of the documented
number of lines. The properties compare the blocks the loop executed with it, for
`Regular` scripts: those without the cases in which the code is known to differ
from the document (below). There are three:

- a COPYRIGHT block, for which the loop has no action;
- a parameter, behind the first line of its block, that begins with `#` or `;`, which
  the loop skips;
- outside of these parameters, where a block or a keyword can begin, a line that is
  not `Seen` as it is `Meant`: an indented comment or keyword, or `NO_MODE`.

Within a block an indented line of any kind is a parameter to both, and such scripts
are regular. Types and the count of failures are claimed for all scripts, and the run
reads irregular ones of every kind as well.

### HvscVersion and UpdateScript

A line is what remains when white space has been removed: a key and a version,
whose major number is 0 where the text is no number. `ReadDocLine` and
`ReadHeaderLine` are one turn of `main`'s loops over `HVSC.txt` (and then
`hv_sids.txt`, which is read as well and overrides it) and over the script;
`HasNextLine` is the limit of ten lines. `seen` holds what is true of the two
`bool`s of the code: that the last line of a key told a version. `MAKE_HVSCVER`
keeps the last digit of the minor number and wraps at the width of `unsigned`.
`CheckVersion` is the comparison that sets the warning.

`WellFormed` files have each key once and proper versions. For them
`VersionCheckIsExact` is the whole of what the documentation promises;
`UnwarnedVersionsAgree` is what remains of it for files of any kind, if only the
version the script requires does not wrap to the number 0 (`NonzeroHeader`): 0
stands for a version that is not known, and then the code warns of nothing. There is
a list of documentation files, so `docs` has at least one member, which may have no
lines.

In command mode header lines are comments (`FilesAssumption`) or, where they are
indented, text under no keyword, hence errors: header mode removes all white space
from a line, command mode that at its end. A script without its versions is not read
a second time.

### UpdateRun

Update *n* turns version *n* into version *n* + 1. What is on disk: the scripts
in the update directory, their copies in `DOCUMENTS` (none, partial, whole), the
Errors files (none, empty, with errors), the versions both documentation files
tell, and which commands have taken effect. Main's checks are one action each,
each question is a state that only the user leaves, and a command succeeds, logs
an error or throws. A command that has been executed before fails unless it is
`Repeatable`: the file a MOVE takes is no longer there, whereas a sidtune can be
edited again. `May` names what can go wrong.

`UpdatesComplete` is the promise as a whole: unattended runs that are started again
and again, on a collection to which nothing happens any more from some moment on,
leave every script of an unbroken chain in the archive. What it assumes are
hypotheses of the property, not of the specification: that runs are started
(`test/test.py` 434-441 does that), that finally there is no `Mishap`, and that no
update is `Stuck` already, such as by a partial copy in `DOCUMENTS`, over which
the code never gets.

### UpdateSession

`main` goes through the steps of `UpdateRun` (`Check` runs its actions as they are,
the others act on the tree), and in "commands" one action of `FileCommands` at a
time. `Outcome` is what `main` makes of the way a command ends. `expected` is
computed once, from collection and pack: the trees that the commands lead through if
they do what `HVSC_Update.txt` says, by `Effect`, which knows nothing of lookups,
calls and failures. `ArchivedMeansUpdated` compares the tree with the last of
them, entry by entry, whenever a run has found no error - over however many runs
it took. `BystandersUntouched` holds at every moment.

A command is `About` the paths on its lines, the files in a directory it takes, and
what these become: `BystandersUntouched` is about all other paths of the collection
that the pack does not bring. `Entries` are the paths that collection, pack and script
can come to name; it bounds the quantifiers and may be all of `Path`. `PackAssumption`
says what unpacking does: it adds the script, and turns no directory into a file.

One case is excluded by name: `Restartable`. A script may take with one command
what a later one brings; started again from its first line after a kill, it then
takes the wrong file, and nothing shows that. With `REPLACE d/x` to `d/a` and then
`MOVE u/b` to `d/x`, a run killed after the copy of the MOVE leaves the tune at both `u/b`
and `d/x`; the next run moves `d/x` to `d/a`, then `u/b` to `d/x`, finds no error and
archives the script, although `d/a` holds the wrong tune. Something like it happens where
a command deletes or changes what a later MOVE or REPLACE of a directory brings, since
that one succeeds on whatever is left in the directory.

A pack is unpacked only where its script is not there, every command counts as one
error, no command names the Errors file, and writing a tune does not fail: the
failed write that `SidTune` shows can go unnoticed, and then the script is archived
although a tune has lost its end.

### SidTune

A file is a record of the header's fields, a bit field being the set of its bits;
of the data only the length and how much has been taken from the front are kept
(`Cut` is a file that ends too early). An object in memory (`sidTune::info`) is
another record, `Info`; `Defaults` is what `safeConstructor` leaves in it.
`FileSupport` is `PSID_fileSupport` with the checks it calls, `Load` adds
`acceptSidTune` and what `filesConstructor` does with the result; `Write` is
`writeToSidTune`, one operator per keyword; `Saved` is `PSID_fileSupportSave`.
`Load` and `Write` yield a set, empty where the code returns false. The number of
a line is already read (a line that is no number counts as 0); widths are kept,
so SONGS cuts to a byte and addresses to a word.

`Execute` is main's part up to the truncation of the file, with the failure to
open it; `Save` fills the file; `Kill` in between leaves nothing or the file with
part of its data. `WriteFails` is the full disk: the stream is tested before it is
closed (`src/fformat/psid_.cpp` 271), so that what does not fit is reported only
where it is more than the stream buffers, and otherwise goes unnoticed. `original`
is the tune the runs started with; `DataStayInPlace` compares the data with it,
byte for byte as far as they are there, which is what FIXLOAD, the load address in
front of the data and the two ways of cutting could spoil together. `v2ng` is what
`hvscvercmp` answers in a run: below version 3.9, or where no version was found,
saving zeroes the newer fields, so runs of both kinds follow each other on one
tune.

A field counts as changed when a program that loads the file before and after sees
a difference (`OnlyNamedFieldsChange`, `EditsTakeHold`), not when a byte differs:
saving normalises the header on purpose (`HVSC_Update.txt` 70-79).

The properties name their exceptions, and each is something the code does:
`SavedTunesLoad` leaves out FIXLOAD, which checks nothing, and a BASIC tune that
starts below a ROM (`StartsHidden`) when it was saved by a run below version 3.9;
`OnlyNamedFieldsChange` leaves out a header with 0 songs, which SONGS 256 makes, and
FIXLOAD on a tune at address 0, whose INIT address of 0 it makes another one;
`RepeatingIsHarmless` leaves out FIXLOAD, which takes two bytes every time.

### PowerPacker

`ReadBit` is one turn of the loop in `ppRead`: a word that is used up is replaced at
once, from the data or, where none are left, by what remains of it, which is zeros.
Each value the decoder reads is a state (`pc`), and an action takes it when it has
been read (`need = 0`). `MoreBytes` and `MoreCopies` are the loops that write, with
their test for room; `Behind` says that a copy from behind the output finds any
byte. `LoadFile` is what `sidTune::loadFile` makes of the result. The widths are
constants. `Compressed` is the other direction, written from the format and not
from the decoder: it turns rounds of bytes and copies into words, and `Expanded`
says what they stand for.

## Runs

| Run | Instance | Shows |
|---|---|---|
| `file_commands` | a new tune and an older one whose names differ in case only; MOVE and REPLACE between its lines, DELETE, MKDIR; commands in any order and number; kills between all calls | lookup, removals of REPLACE, nothing lost or overwritten, the tree stays a tree, refinement of `CollectionStore` |
| `update_script` | command mode: scripts of two sections for every keyword, of three for the six that differ in their length, with comments and blank lines, and with an indented comment, keyword or blank line in every place of two blocks; scripts cut off at every line of a block. Header mode: documentation and headers with keys before, at and behind the limit, twice, without a number, with numbers too large, one of which wraps to 0. Scripts that are not `Regular`, for what holds of those too | reader in step with the format, the version check, everything ends |
| `update_run` | three updates of two commands, one of them without a header, every kind of trouble but the trap | archive, exit code, Errors file, consent; unpacked updates are completed |
| `update_session` | 21 scripts of four commands: MKDIR, DELETE or a sidtune command; MOVE or REPLACE of a directory; MOVE, REPLACE or DELETE of something else; the new `HVSC.txt`. Kills at every call, any number of runs | an archived update is complete to the last entry, what it does not name stays, whole runs behave as `UpdateRun` |
| `sid_tune` | ten tunes: each kind, each version, garbage in the reserved fields, more songs than speed bits, at address 0, BASIC below a ROM; lines good and bad for every keyword; three commands; kills and full disks | what is saved loads again, has what was asked for, is otherwise the same, and can be done again |
| `powerpacker` | words of four bits, bytes of two; every file of up to two words of data, whatever they are, and what a compressor makes of up to two rounds | what was compressed is loaded; nothing is written outside the output, and what does not have the bytes it says it has is refused; every file comes to its end |
| `move_error_aborts`, `replace_by_itself`, `second_chip_models`, `directory_without_slash`, `applied_again`, `release_build_traps` | as small as the case needs | each violates what the documentation says, see below |

Why the bounds are enough. The file commands look at one directory level at a
time and treat all names alike, so two levels, two names that share a lower-case
form and one that does not give every combination of a lookup that finds,
misses and is ambiguous; sequences of commands are unbounded. A tune is only ever
compared with another, and no command handles more than one file at a time. The
loop of the reader carries nothing from one block to the next but the mode, so
what goes wrong within one block shows in the next, and two or three sections
suffice; the block lengths of all keywords are the real ones. The limit of ten
lines (`HeaderLines`) is real; `MaxUnsigned` is 65535 instead of 2^32 - 1, which
is more than TLC's integers hold, and versions on both sides of it are read. An update depends on
its predecessor only, so three updates show a gap, a chain and one that is blocked;
of two commands one can fail while the other takes effect, and the last one
changes the version. A sidtune command depends on the file alone, and three of
them (`MaxCommands`) let the first leave a field in any state the second reads
together with what it changes, and the third see the result; the rest of a file
cut short is one length (`Length`). In a session the second command can depend on
the first, the third on the second, and a rerun repeats all of them on what the
killed run has left; each directory holds at most three files. `Entries` of the
instance are the directories and, in each, the names that can come into it. The decoder looks
at a word and a value at a time, so words of four bits have values that end
inside a word, at its end and in the next one; `ByteBits`, `WordBits`,
`ShortOffset` are 2, 4, 1 instead of 8, 32, 7; counts wrap at `LongBits` = 4 bits,
so that the set bits of a short file reach the wrap as well.

Deadlock is checked everywhere but in `update_script` and `powerpacker`, where the
end of the file is the end of the behaviour.

Fairness. `UpdateScript`, `UpdateRun`, `UpdateSession` and `PowerPacker` assume that
the process itself goes on (weak fairness of its steps, `WF(Process)`,
`WF(Work)`, `WF(Decode)`): it is one thread that waits for nothing but the user,
who owes no answer. Neither a kill nor the start of a run is fair.
`UpdatesComplete` states what it needs beyond that as its own hypothesis.
`FileCommands` and `SidTune` have no fairness; their properties are safety.

Every property has a variant of the model, an operator named `Wrong...` next to
the one it replaces, in which it fails; the variants are mistakes one could make
in this code.

## Proofs

TLAPS checks the theorems for all values of the constants. What they rest on is
nothing but what the modules assume of their constants, each a fact about the code
or its input:

- names, lower-casing and directory listings are arbitrary apart from what a listing
  is; a tune is neither a directory nor a fragment; initial collections are finite
  trees;
- collection and unpacked pack are well-formed trees, the pack brings the script and
  no file in place of a directory (`PackAssumption`); what commands of an update name and
  where they put files lies in `Entries` (`EntriesAssumption`); editing a tune twice is
  editing it once (`EditedAssumption`, shown by `RepeatingNeverHarms`);
- scripts and documentation are sequences of lines; there is a documentation file to
  look for; `HeaderLines` and `MaxUnsigned` are any numbers;
- a sidtune to start with is a file the format allows for, longer than what
  FIXLOAD takes of it (`Enough`: two bytes per command, which it takes unasked); a
  line of a script has been read as text, numbers or bits (`CommandAssumption`);
- the widths of the decoder are at least one bit and counts have three or more
  (`WidthAssumption`), because a copy is of at least five bytes; a packed file has two
  words.

What the theorems state of some behaviours only, they say by a hypothesis: `Regular`
scripts, `NonzeroHeader` and `WellFormed` files, for REPLACE `ReplacesStartRight`, for compressed
files `Genuine`, and `Careful`, `Independent` and `Publishes` for the scripts of whole updates. The first
three are in the properties themselves, so TLC checks the same thing; the others are
explained below.

*Lookup.* `getHVSCpath` is a recursive function over the length of a path.
Properties of it are proved by least counterexample (`LeastNatural`, from the
well-foundedness of the naturals), which needs no induction scheme. `LookupSound`
and `LookupComplete` say that in an unambiguous tree the lookup is exactly
case-insensitive search; `LookupSafe` carries that to every reachable tree. The
recursive functions of the other modules (`DocumentedBlocks`, `Values`) are treated
the same way.

*File commands.* All properties of the run are theorems. `TypeOK`,
`TreeStaysWellFormed` and `SourceOutlivesCopy` are proved from one inductive
invariant, `IndInv` (in `FileCommandsProofs`). It is their conjunction with what they
need: which parts of `job` are known to exist in which step. A tree that is well
formed is needed to know that what the lookup returns lies in it; the source is known
to survive because between opening the destination and removing the source no step
removes anything. `MoveSafe`, `OverwritesNothing` and `Refinement` follow step by step
from the same invariant: with the unfinished copy hidden (`VisibleTree`) every step is
a step of `CollectionStore` or changes nothing.

`NothingIsDuplicated` counts places, so it needs finite trees, and `StoreStep`: a step
that is not a kill is one of `CollectionStore`, none of which adds a file. `FoldersAreEmptied`
needs `Emptied`: a file of the directory being moved that is still there is the one
in hand or among those still to come, and nothing arrives in that directory
meanwhile: a file has the same name where it is copied to, so that a copy into the
directory it comes from would be itself.

Two properties of REPLACE hold only for lines written as the documentation wants them.
`ReplacesStartRight` says so: the collection has one spelling of each name, and a slash
ends the destination exactly if what it names is a directory. The lines of the run
`file_commands` are of this kind. `ReplaceRight` is the invariant: while the
command is executed what it will remove is what is where it will write. Without the
hypothesis the properties are false, which is the finding `directory_without_slash`.

*Script.* The state of the loop has a `Shape` (at which place which variables are
what), and `Counted` adds that the count keeps up with the failed blocks. `Tracked` is the
invariant that ties the loop to the format: the blocks dealt with, the block in hand
and those the format finds behind the current line (`Rest`) are together the blocks of
the whole script. Each line read moves something from the third part to the second,
each end of a block from the second to the first, and an error makes the loop skip
exactly what is left of the second. A script that ends inside a block leaves fewer lines
than its keyword wants, and that counts as an error. That loop and format go on with the same
line is `NextInBlock` within a block and `NextAtTop` outside of one. The second needs that
`Regular` speaks of the lines in question: that none of them is a parameter of any
block, neither of one that has been dealt with (`Past`) nor of one that lies ahead
(`BlocksLieBehind`). `ScriptImplementsReader` shows that a
script whose header is read first is read like any other, so all of this holds of
`UpdateScript`.

*Versions.* `HeaderInv` says where the numbers come from: each that is known is that of some
line with its key (`Heard`), and without a warning those that are compared agree
(`Warned`). For `WellFormed` files `Behind` says that no version in the lines read has been
missed, and `Exact` that there are no other reasons to warn.

*Runs.* `Inv` in `UpdateRunProofs` adds to the properties what ties the steps of
a run to the disk: the chosen script is there until it is removed
(`ScriptPresent`), commands before the current one have had their effect if none
was logged (`CommandsInOrder`), the Errors file holds errors exactly when the
count is not zero (`ErrorsFileFilled`), and no warning means that the version
matched and the predecessor was archived, hence complete (`VersionKnown`). It
takes all of them at once: consent relies on the archive, the archive on the
count.

*Sessions.* `UpdateSessionProofs` takes collection, pack and script as they come, and
assumes of names what HVSC keeps to: `Careful` says that no two entries differ in case
only and that no line names a directory as a destination without a slash. Otherwise the
lookup finds another entry than the one named, or REPLACE removes one
(`directory_without_slash`). The proof of each theorem is one invariant:

- `Base` is `IndInv` of `FileCommands`, which holds however commands, main and kills follow
  each other, with the state of main. `Kept` adds that the tree has no other entries and no
  other directories than `Entries` and `Folders` allow (`Contained`) and that a command
  at work is between what its two lines name (`Aimed`). That is what a lookup needs to
  be exact (`ExactLookup`). `SessionSparesBystanders` follows step by step (`Spares`).
- `ArchivedIsExact` has two parts. As long as no earlier run has got to the commands and
  no error was logged, the tree is what the documented commands so far have made of it, or
  the command at work is `Midway` to that: some of its files have moved, the one in hand
  may be in both places, the rest is where it was (`FirstRun`). This holds for every
  careful script. After a run has been killed, the tree is one of many, and no
  equation describes it: `Mixed` says of each path what it can hold, whatever was
  executed how often, and `Done` what it holds when the command it belongs to has
  succeeded in this run; if all have, nothing is left open (`Reruns`). This is what
  `Independent` is for: no path is the concern of two commands, but for an edit of what
  an earlier command has brought. Of the 21 scripts of the run 12 are `Restartable`, and
  9 of these `Independent`.
- `SessionImplementsRun` is the safety part of `ImplementsRun`. `Published` is the invariant:
  script and copy are where main needs them and what a command took for good stays away
  (`Standing`), `HVSC.txt` tells the version found until the last command is at work
  (`Telling`), and a command that works once has one file to take (`Once`). `Touches`
  says of a step of a command which calls it can consist of, and the rest follows from
  that and from what the script names. `Publishes` is what the makers of updates do: the
  last command brings the new `HVSC.txt`, no command names the script or its copy, and what
  is not `Repeatable` deletes, or takes a single file, of which no command brings a second.
  TLC finds that all 21 scripts are of this kind.

A step towards these theorems was that `Restartable` had been too weak: it spoke of
directories only, and the example above shows that it has to speak of single files. The
proof did not go through, and TLC found the script.

*Sidtunes.* All properties of the run are theorems. `Inv` in `SidTuneProofs` says of the
file, of the object being saved and of a file that was saved what a load finds in it:
`TuneShape` that the data are in place and long enough for the commands to come,
`SavingShape` that what is written to the file has been loaded from `before` and changed
by the command, `SavedShape` that a saved file comes from a file the same way. The heart are the
lemmas on one trip: what `Saved` writes, `Load` accepts (`ReadyLoads`), and reads back
field by field but for what the format cannot hold (`Reloaded` in `SidEditProofs`).
From them and one lemma per keyword follow what a command changes, that it takes hold,
and that repeating it is a trip from a file to itself.

*PowerPacker.* `DecoderFits` bounds what is written, and says what a loaded file has asked
for; it says nothing of where a copy reads, which may be behind the output. `Inv` relates what has been written, what the round in progress has still
to write and what all rounds have asked for (`Fits`, `Room`). The bits of the file are any,
so nothing is assumed of them.

`CompressedLoads` is about files that are `Genuine`: what `Compressed` makes of rounds that
are `Writable`. A copy takes what has been written before it, its offset fits the bits
the table gives it, no number of bytes is beyond a udword, and only the last round may be
without a copy. All compressed files of the run are genuine, so none of them is beyond the
theorem; in the theorem rounds, words, bytes and table are any. The invariant
`Decoding` says at which bit of the file the decoder is and what it has written by then. `Words`
ties the current word and those still to come to the stream of bits; `Reads` says that
the bits of a value read so far are its highest and that the others follow in the stream; and for
each place in a round `AtToken` to `AtCopy` say which value that is, where it ends and what the
output is. There is one lemma per step, and below them are three groups: where the
format puts each value (`BytesPlace`, `CopyPlace`), what the output is then and that it has room
(`RoundOutput`), and that a bit read from a word is the next of the stream
(`NextBit`). The recursive functions in them (`Values`, `Expanded`, the joining of
parts) exist and keep to their recursion by the least number that breaks it, which
takes the place of an induction.

Model-checked only, and why:

- all liveness (`ReadingEnds`, `UpdatesComplete`, `DecodingEnds`, and `RunEnds` in
  `ImplementsRun`): TLAPS proves no liveness under fairness;
- `ArchivedMeansUpdated` for an update that was killed or failed before and whose script
  is `Restartable` without being `Independent`, such as one that deletes a file and has a
  later command bring another one of that name.

## Where code and documentation differ

Shown by a run:

- an error that `std::filesystem` reports by throwing is not logged and ends the
  process (`move_error_aborts`);
- REPLACE of a file by itself under another spelling deletes it
  (`replace_by_itself`);
- SIDMODEL and FLAGS erase the models of the second and third chip of a tune
  (`second_chip_models`);
- REPLACE into an existing directory named without a slash removes a file of the
  directory above (`directory_without_slash`);
- an update that is already in `DOCUMENTS` is executed again and ends with an
  exception (`applied_again`);
- `DEBUGGER` traps where `NDEBUG` is defined, so release builds die at the first
  logged error (`release_build_traps`).

Met while modelling, and not given runs of their own: a comment that is indented is not
taken for one (`src/TextFile.cpp` 23, where the comment in line 21 and
`HVSC_Update.txt` 118-119 speak of the first non-space character), and neither is an
indented keyword (`src/Mode.h` 54-60; `HVSC_Update.txt` 125-127), because white space is
removed only at the end of a line (`src/TextFile.cpp` 37-41). Such a line is the first
line of a block to the loop: an error where there is no such path, but under MKDIR what
follows its first slash is a directory that is made, without an error (`PathSplitter`
skips the first name; without a slash it has no name left, and what happens is
undefined). White space in front of a path is part of the path in the same way. The
version lines of a header may be indented for the header reader (`src/TextFile.cpp`
71-73) and are errors for the loop then. `Regular` leaves out scripts with indented
comments and keywords where a block can begin, since loop and format differ there.
`NO_MODE` on a line of its own is a keyword, which ends the one in force
(`src/Mode.h` 54-60); the document does not know it.

A parameter line, behind the first of its block, that starts
with `#` or `;` is skipped (`src/TextFile.cpp` 43; `HVSC_Update.txt` 118-121);
version 3.10 is the number of 3.0, because the minor number keeps one digit, and a
version too large for a number can come out as 0 and is then taken for none, without
a warning (`src/hvscver.h` 4); COPYRIGHT is a keyword without an action (`src/Update.cpp` 640); an old
`hv_sids.txt` overrides `HVSC.txt` (`src/Update.cpp` 265-287;
`HVSC_Update.txt` 143), which is why `WrongCollectionIsConfirmed` says nothing
where that file exists. MOVE onto a name of other case makes a second entry
(`src/MoveReplace.cpp` 127-130; `HVSC_Update.txt` 209), for which
`NamesStayUnambiguous` leaves MOVE out. REPLACE with a slash behind the name of an
existing file deletes that file and then aborts, because it cannot make the directory
(`src/MoveReplace.cpp` 187; the line does not keep to `HVSC_Update.txt` 204-205).
`checkRelocInfo` looks only at the first
and last page of each range, so a range strictly inside the tune, or one that spans
$A000-$BFFF, passes (`src/sidtune.cpp` 519-521). SPEED on a BASIC tune succeeds and
changes nothing. FIXLOAD on a Real C64 tune whose INIT address is its load address
saves a file that does not load again (`HVSC_Update.txt` 74-76), for which
`SavedTunesLoad` leaves FIXLOAD out. FIXLOAD on a tune at address 0 whose INIT address
is 0 as well moves that along. Any CREDITS or FLAGS line that begins with an
asterisk, not only a lone one, leaves its field alone (`HVSC_Update.txt` 496).
Loading a Sidplayer tune makes its clock ANY, so CLOCK has no lasting effect on one.
A BASIC tune saved while the version is unknown becomes a Real C64 tune, and one that
starts below a ROM cannot be loaded any more (`src/fformat/psid_.cpp` 206,
`src/sidtune.cpp` 471-489).

## Not modelled

- Case-insensitive file systems and Windows paths; permissions; links. Of a full
  disk the file commands see an exception or a fragment, as of a kill; sidtunes
  have it modelled.
- Lines without a leading slash, for which `PathSplitter` skips the first name, or has
  none (`src/PathSplitter.cpp` 16-23).
- An entry added to a directory while it is iterated.
- In `SidTune`: the bytes of the texts, data of less than two bytes, and how long it
  takes to refuse an empty file, whose length `loadFile` takes as -1
  (`src/sidtune.cpp` 156).
- In `PowerPacker`: more than 31 unused bits in the last word, which make a shift
  undefined; what a corrupt copy finds behind the output is any byte.
- Parts of the sidtune library the tool never calls (`saveC64dataFile`,
  `placeSidTuneInC64mem`, `getCachedRawData`), the output of `fastperc.h`, the
  string helpers of `fformat_.cpp` and the wait for a key on Windows: none of them
  touches the collection.
- A failure to open the Errors file, which the code does not notice.
- `main` looking up `update`, `DOCUMENTS` and the scripts in an ambiguous tree.
- What no property covers although the code can meet it: see the notes of the hazards
  in `PROJECT.json`.
- What update packs contain, except that the last command brings a new `HVSC.txt`.

## Plan

1. `HvscTree`, `FileCommands`, `CollectionStore` and their proofs - done.
2. `ScriptReader` - done.
3. `UpdateRun` and its proofs - done.
4. `SidTune` - done.
5. `HvscVersion`, `UpdateScript` - done.
6. `UpdateSession`, shown to implement `UpdateRun` - done.
7. `PowerPacker` - done.

8. Proofs of `ScriptReader`, `UpdateScript`, `SidTune`, `PowerPacker`, and of the rest of
   `FileCommands` - done.
9. Proofs of `UpdateSession`: bystanders, archived updates, refinement of `UpdateRun` - done.
10. Proof that decoding undoes compression - done.

What is left:

- `ArchivedMeansUpdated` for all `Restartable` scripts;
- shorter proofs of the one-per-keyword lemmas of `SidTuneProofs`.
