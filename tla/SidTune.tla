------------------------------- MODULE SidTune -------------------------------
(***************************************************************************)
(* The commands of an update script that change the header of a tune:      *)
(* loading (psid_.cpp, sidtune.cpp), changing (mysidtune.cpp) and saving   *)
(* a PSID or RSID file, as main does for TITLE ... FLAGS (Update.cpp).     *)
(*                                                                         *)
(* A command loads the file, changes one object in memory and writes the   *)
(* whole file anew: it is truncated first and filled afterwards.  Loading  *)
(* and changing can be refused; an operator that can refuse yields a set,  *)
(* which is empty when it does.                                            *)
(*                                                                         *)
(* An operator named Wrong... is the definition below it with a mistake a  *)
(* programmer could make: what the properties have to notice.              *)
(***************************************************************************)
EXTENDS Integers, Sequences

CONSTANTS
    Collection,     \* the tunes a first command can find
    Command,        \* the commands scripts are made of
    Starred,        \* the lines of scripts that begin with an asterisk
    Length,         \* what a killed process can leave of the data of a tune
    MaxCommands     \* the number of commands executed

Byte == 0..255
Word == 0..65535
Chip == {"6581", "8580"}
Standard == {"PAL", "NTSC"}
MaxSongs == 256

\* What is left of a file that has been truncated.
Empty == [id |-> "none"]

\* A file: its header, the load address in front of the data (which is there
\* only if the one in the header is 0), and the data as what has been dropped
\* of it and how much there is.  A bit field is the set of its bits.
File ==
    [id : {"PSID", "RSID"}, version : 1..4, load : Word, origin : Word,
     init : Word, play : Word, songs : Word, start : Word,
     speed : SUBSET (0..31), credits : [1..3 -> STRING],
     mus : BOOLEAN, specific : BOOLEAN, clock : SUBSET Standard,
     models : [1..3 -> SUBSET Chip], startPage : Byte, pages : Byte,
     reserved : Word, dropped : Nat, length : Nat \ {0}]

\* The object a file is loaded into (sidTuneInfo), with the songs, from 0, that run
\* by the timer (songSpeed) and where in the file the data begin (fileOffset).
Compatibility == {"C64", "PSID", "R64", "BASIC"}

Info ==
    [compatibility : Compatibility, version : 2..4, load : Word, init : Word,
     play : Word, songs : 0..MaxSongs, start : Word, speed : SUBSET (0..(MaxSongs - 1)),
     credits : [1..3 -> STRING], mus : BOOLEAN, clock : SUBSET Standard,
     models : [1..3 -> SUBSET Chip], startPage : Byte, pages : Byte,
     reserved : Word, dropped : Nat, length : Nat]

\* FIXLOAD does not look whether there are two bytes to take.
Enough(length) == length > 2 * MaxCommands

ASSUME BoundAssumption == MaxCommands \in Nat
ASSUME CollectionAssumption == \A f \in Collection : f \in File /\ Enough(f.length)
ASSUME LengthAssumption == \A n \in Length : n \in Nat /\ Enough(n)

\* What follows a keyword: text, the bits of a number, numbers with commas between
\* them, or lines of text.
ASSUME CommandAssumption ==
    \A c \in Command :
      \/ /\ c.keyword \in {"TITLE", "AUTHOR", "RELEASED", "MUSPLAYER", "PLAYSID", "CLOCK",
                           "SIDMODEL"}
         /\ c.value \in STRING
      \/ c.keyword = "CREDITS" /\ c.value \in [1..3 -> STRING]
      \/ c.keyword = "FLAGS" /\ c.value \in [1..4 -> STRING]
      \/ c.keyword = "SPEED" /\ c.value \in SUBSET (0..31)
      \/ c.keyword \in {"SONGS", "INITPLAY", "FREEPAGES"} /\ c.value \in Seq(Nat)
      \/ c.keyword = "FIXLOAD"

VARIABLES
    tune,      \* the file
    v2ng,      \* hvscvercmp(HVSCversion.found, 3.9) >= 0 in this run
    pc,        \* "idle", "saving" or "killed"
    cmd,       \* the last command
    info,      \* sidTune.info while the file is being saved
    before,    \* the file it was loaded from (sidTune.cachePtr)
    outcome,   \* what became of the last command
    executed,  \* the number of commands so far
    original   \* the tune the first command has found

vars == <<tune, v2ng, pc, cmd, info, before, outcome, executed, original>>

NoCommand == [keyword |-> "none"]
NoInfo == [compatibility |-> "none"]

Init ==
    /\ tune \in Collection
    /\ original = tune
    /\ v2ng \in BOOLEAN
    /\ pc = "idle"
    /\ cmd = NoCommand
    /\ info = NoInfo
    /\ before = Empty
    /\ outcome = "none"
    /\ executed = 0

-----------------------------------------------------------------------------
(* The checks.                                                             *)

\* checkRealC64Info, on the header as it is in the file.
RealC64Info(file, compatibility) ==
    /\ file.load = 0
    /\ file.play = 0
    /\ file.speed = {}
    /\ compatibility = "BASIC" => file.init = 0

\* The ROMs and the I/O area.
Hidden(address) == address \div 4096 \in {10, 11, 13, 14, 15}

\* checkCompatibility: what a real C64 can load and start.
Compatible(i) ==
    /\ i.compatibility = "R64" =>
         /\ ~ Hidden(i.init)
         /\ i.init \in i.load..(i.load + i.length - 1)
    /\ i.compatibility \in {"R64", "BASIC"} =>
         /\ i.load >= 2024
         /\ i.play = 0
    /\ i.compatibility = "BASIC" => i.init = 0

\* The pages of RAM a player can be moved to start and end outside the tune,
\* the ROMs and the first kilobyte.
FreePages(i) ==
    LET start == i.startPage
        end == (start + i.pages - 1) % 256
        first == i.load \div 256
        last == (first + (i.length - 1) \div 256) % 256
    IN  /\ start <= end
        /\ \A page \in {first, last} : page \notin start..end
        /\ start >= 4
        /\ \A page \in {start, end} : page \notin 160..191 /\ page < 208

\* checkRelocInfo: no pages at all are written in one way only.
Relocatable(i) ==
    IF i.startPage = 255 THEN {[i EXCEPT !.pages = 0]}
    ELSE IF i.pages = 0 THEN {[i EXCEPT !.startPage = 0]}
    ELSE IF FreePages(i) THEN {i} ELSE {}

-----------------------------------------------------------------------------
(* Loading.                                                                *)

\* convertOldStyleSpeedToTables: the songs from 0 that run by the CIA timer.
SongSpeeds(bits, songs) == {s \in 0..(songs - 1) : s % 32 \in bits}

\* acceptSidTune: a number of songs, and a song to start with among them.
Accepted(i) ==
    LET songs == IF i.songs = 0 THEN 1 ELSE i.songs
    IN  [i EXCEPT !.songs = songs, !.start = IF @ \in 1..songs THEN @ ELSE 1]

\* safeConstructor: the fields that not every file has.
Defaults ==
    [mus |-> FALSE, clock |-> {}, models |-> [n \in 1..3 |-> {}],
     startPage |-> 0, pages |-> 0, reserved |-> 0]

\* The header as PSID_fileSupport reads it.  A file of version 1 has no flags;
\* the models of a second and third chip came with versions 3 and 4.
Parsed(file) ==
    LET flags == file.version >= 2
        rsid == file.id = "RSID"
        mus == IF flags THEN file.mus ELSE Defaults.mus
        songs == IF file.songs > MaxSongs THEN MaxSongs ELSE file.songs
        load == IF file.load = 0 THEN file.origin ELSE file.load
        compatibility ==
            CASE rsid -> IF file.specific THEN "BASIC" ELSE "R64"
              [] OTHER -> IF flags /\ file.specific THEN "PSID" ELSE "C64"
    IN  [compatibility |-> compatibility,
         version |-> IF flags THEN file.version ELSE 2,
         load |-> load,
         init |-> IF file.init = 0 /\ compatibility # "BASIC" THEN load ELSE file.init,
         play |-> file.play,
         songs |-> songs,
         start |-> file.start,
         speed |-> SongSpeeds(IF rsid THEN 0..31 ELSE file.speed, songs),
         credits |-> file.credits,
         mus |-> mus,
         clock |-> IF mus THEN Standard ELSE IF flags THEN file.clock
                   ELSE Defaults.clock,
         models |-> [n \in 1..3 |->
                       IF flags /\ (n = 1 \/ file.version > n) THEN file.models[n]
                       ELSE Defaults.models[n]],
         startPage |-> IF flags THEN file.startPage ELSE Defaults.startPage,
         pages |-> IF flags THEN file.pages ELSE Defaults.pages,
         reserved |-> IF file.version >= 3 THEN file.reserved ELSE Defaults.reserved,
         dropped |-> file.dropped,
         length |-> file.length]

\* PSID_fileSupport, which refuses a file that is shorter than a header.
FileSupport(file, strict) ==
    IF file = Empty THEN {}
    ELSE LET i == Parsed(file)
         IN  IF \/ file.id = "RSID" /\ file.version < 2
                \/ file.id = "RSID" /\ ~ RealC64Info(file, i.compatibility)
                \/ ~ Compatible(i)
             THEN {}
             ELSE IF strict THEN Relocatable(i) ELSE {i}

\* filesConstructor: there is no other format.
Load(file, strict) == {Accepted(i) : i \in FileSupport(file, strict)}

-----------------------------------------------------------------------------
(* Changing (writeToSidTune).                                              *)

CreditOf == [TITLE |-> 1, AUTHOR |-> 2, RELEASED |-> 3]

WriteCredit(i, n, line) == {[i EXCEPT !.credits[n] = line]}

\* A line of CREDITS or FLAGS with an asterisk in front leaves its field alone.
WriteCredits(i, lines) ==
    {[i EXCEPT !.credits = [n \in 1..3 |-> IF lines[n] \in Starred THEN @[n]
                                           ELSE lines[n]]]}

\* The songs of a Real C64 tune always run by the timer; a BASIC tune takes
\* the command, but its songs do, too, when it is saved.
WriteSpeed(i, bits) ==
    IF i.compatibility = "R64" THEN {}
    ELSE {[i EXCEPT !.speed = (@ \ (0..(i.songs - 1))) \cup SongSpeeds(bits, i.songs)]}

\* A line with a comma has two numbers.  They are cut to a byte.
WrongWriteSongs(i, numbers) ==
    IF Len(numbers) # 2 THEN {}
    ELSE {[i EXCEPT !.songs = numbers[1], !.start = numbers[2]]}

WriteSongs(i, numbers) ==
    IF Len(numbers) # 2 THEN {}
    ELSE {[i EXCEPT !.songs = numbers[1] % 256, !.start = numbers[2] % 256]}

\* The new addresses are not looked at again.
WrongWriteInitPlay(i, numbers) ==
    IF Len(numbers) # 2 THEN {}
    ELSE {[i EXCEPT !.init = numbers[1] % 65536, !.play = numbers[2] % 65536]}

WriteInitPlay(i, numbers) ==
    LET j == [i EXCEPT !.init = numbers[1] % 65536, !.play = numbers[2] % 65536]
    IN  IF Len(numbers) = 2 /\ Compatible(j) THEN {j} ELSE {}

WriteFreePages(i, numbers) ==
    IF Len(numbers) # 2 THEN {}
    ELSE Relocatable([i EXCEPT !.startPage = numbers[1] % 256, !.pages = numbers[2] % 256])

WriteMusPlayer(i, digit) ==
    IF digit \in {"0", "1"} THEN {[i EXCEPT !.mus = digit = "1"]} ELSE {}

WritePlaySid(i, digit) ==
    IF digit \notin {"0", "1"} \/ i.compatibility \in {"R64", "BASIC"} THEN {}
    ELSE {[i EXCEPT !.compatibility = IF digit = "0" THEN "C64" ELSE "PSID"]}

ClockNamed ==
    [UNKNOWN |-> {}, PAL |-> {"PAL"}, NTSC |-> {"NTSC"}, ANY |-> Standard,
     EITHER |-> Standard]

WriteClock(i, name) ==
    IF name \in DOMAIN ClockNamed THEN {[i EXCEPT !.clock = ClockNamed[name]]} ELSE {}

ChipNamed ==
    [name \in Chip \cup {"UNKNOWN", "ANY", "EITHER"} |->
        CASE name = "UNKNOWN" -> {}
          [] name \in Chip -> {name}
          [] OTHER -> Chip]

\* The new model is added to the old one.
WrongWriteSidModel(i, name) ==
    IF name \in DOMAIN ChipNamed
    THEN {[i EXCEPT !.models = [n \in 1..3 |-> IF n = 1 THEN @[1] \cup ChipNamed[name]
                                               ELSE {}]]}
    ELSE {}

\* info.sidModel holds all three models: the other two become unknown.
WriteSidModel(i, name) ==
    IF name \in DOMAIN ChipNamed
    THEN {[i EXCEPT !.models = [n \in 1..3 |-> IF n = 1 THEN ChipNamed[name] ELSE {}]]}
    ELSE {}

\* The four lines of FLAGS, in the order of the commands they stand for: the
\* first one that is refused ends them all.
WriteFlags(i, lines) ==
    LET Line(n, objects, Do(_, _)) ==
            IF lines[n] \in Starred THEN objects
            ELSE UNION {Do(j, lines[n]) : j \in objects}
    IN  Line(4, Line(3, Line(2, Line(1, {i}, WriteMusPlayer), WritePlaySid), WriteClock),
             WriteSidModel)

\* The data move along with the load address.
WrongFixLoad(i) == {[i EXCEPT !.load = (@ + 2) % 65536, !.length = @ - 2]}

\* fixLoadAddress(true): the first two bytes of the data were the load address.
FixLoad(i) ==
    {[i EXCEPT !.load = (i.load + 2) % 65536, !.dropped = i.dropped + 2,
               !.length = i.length - 2]}

Write(i, command) ==
    CASE command.keyword \in DOMAIN CreditOf ->
           WriteCredit(i, CreditOf[command.keyword], command.value)
      [] command.keyword = "CREDITS" -> WriteCredits(i, command.value)
      [] command.keyword = "SPEED" -> WriteSpeed(i, command.value)
      [] command.keyword = "SONGS" -> WriteSongs(i, command.value)
      [] command.keyword = "INITPLAY" -> WriteInitPlay(i, command.value)
      [] command.keyword = "FREEPAGES" -> WriteFreePages(i, command.value)
      [] command.keyword = "MUSPLAYER" -> WriteMusPlayer(i, command.value)
      [] command.keyword = "PLAYSID" -> WritePlaySid(i, command.value)
      [] command.keyword = "CLOCK" -> WriteClock(i, command.value)
      [] command.keyword = "SIDMODEL" -> WriteSidModel(i, command.value)
      [] command.keyword = "FLAGS" -> WriteFlags(i, command.value)
      [] command.keyword = "FIXLOAD" -> FixLoad(i)

-----------------------------------------------------------------------------
(* Saving (PSID_fileSupportSave).                                          *)

\* What lies behind the flags is zeroed, as in a file of version 2.
WrongReserved(i) == 0

Reserved(i) == IF i.version >= 3 THEN i.reserved ELSE 0

\* The data are written from where the file had them, load address and all.
WrongData(i) == [dropped |-> i.dropped, length |-> i.length + 2]

Data(i) == [dropped |-> i.dropped, length |-> i.length]

\* Without strict the fields that came with version 2NG are zeroed.
Saved(i, strict) ==
    LET rsid == i.compatibility \in {"R64", "BASIC"}
    IN  [id |-> IF rsid THEN "RSID" ELSE "PSID",
         version |-> i.version,
         load |-> 0,
         origin |-> i.load,
         init |-> IF i.compatibility = "BASIC" THEN 0 ELSE i.init,
         play |-> IF rsid THEN 0 ELSE i.play,
         songs |-> i.songs,
         start |-> i.start,
         speed |-> IF rsid THEN {} ELSE {s \in i.speed : s < i.songs /\ s < 32},
         credits |-> i.credits,
         mus |-> i.mus,
         specific |-> strict /\ i.compatibility \in {"PSID", "BASIC"},
         clock |-> IF strict THEN i.clock ELSE {},
         models |-> IF strict THEN i.models ELSE [n \in 1..3 |-> {}],
         startPage |-> IF strict THEN i.startPage ELSE 0,
         pages |-> IF strict THEN i.pages ELSE 0,
         reserved |-> Reserved(i),
         dropped |-> Data(i).dropped,
         length |-> Data(i).length]

-----------------------------------------------------------------------------
(* The process.                                                            *)

\* The tune could not be loaded, changed or opened: main logs that.
LogError(command) ==
    /\ outcome' = "error"
    /\ cmd' = command
    /\ UNCHANGED <<tune, pc, info, before>>

Execute(command) ==
    /\ pc = "idle"
    /\ executed < MaxCommands
    /\ executed' = executed + 1
    /\ UNCHANGED <<v2ng, original>>
    /\ LET written == UNION {Write(i, command) : i \in Load(tune, v2ng)}
       IN  \/ written = {} /\ LogError(command)
           \/ \E i \in written :
                \/ LogError(command)
                \/ /\ info' = i
                   /\ before' = tune
                   /\ tune' = Empty
                   /\ pc' = "saving"
                   /\ cmd' = command
                   /\ outcome' = "none"

\* The object of the command is gone.
Discard == info' = NoInfo /\ before' = Empty

Save ==
    /\ pc = "saving"
    /\ tune' = Saved(info, v2ng)
    /\ pc' = "idle"
    /\ outcome' = "saved"
    /\ Discard
    /\ UNCHANGED <<v2ng, cmd, executed, original>>

\* Some of the file, or too little to be one, has got to the disk.
Cut ==
    \/ UNCHANGED tune
    \/ \E n \in Length :
         /\ n < info.length
         /\ tune' = [Saved(info, v2ng) EXCEPT !.length = n]

\* The disk is full.  The stream tells that while it is written to, or only when
\* it is closed, where nobody looks: main takes the tune for saved.
WriteFails ==
    /\ pc = "saving"
    /\ Cut
    /\ pc' = "idle"
    /\ outcome' \in {"error", "unnoticed"}
    /\ Discard
    /\ UNCHANGED <<v2ng, cmd, executed, original>>

\* The process is killed while it saves.
Kill ==
    /\ pc = "saving"
    /\ Cut
    /\ pc' = "killed"
    /\ cmd' = NoCommand
    /\ Discard
    /\ UNCHANGED <<v2ng, outcome, executed, original>>

\* The next run, of an update to another version of the collection.
StartRun ==
    /\ pc # "saving"
    /\ v2ng' \in BOOLEAN
    /\ pc' = "idle"
    /\ cmd' = NoCommand
    /\ outcome' = "none"
    /\ UNCHANGED <<tune, info, before, executed, original>>

Next ==
    \/ \E command \in Command : Execute(command)
    \/ Save
    \/ WriteFails
    \/ Kill
    \/ StartRun

Spec == Init /\ [][Next]_vars
-----------------------------------------------------------------------------
(* Properties.                                                             *)

\* The file is one the format allows for, and what a command left in memory
\* goes with the state the process is in.
TypeOK ==
    /\ tune \in File \cup {Empty}
    /\ v2ng \in BOOLEAN
    /\ pc \in {"idle", "saving", "killed"}
    /\ cmd \in Command \cup {NoCommand}
    /\ pc = "saving" => tune = Empty /\ before \in File /\ cmd # NoCommand
    /\ pc = "saving" <=> info # NoInfo
    /\ pc = "saving" => info \in Info
    /\ outcome \in {"none", "error", "saved", "unnoticed"}
    /\ executed \in 0..MaxCommands
    /\ original \in Collection

\* The fields a command is for.  More goes with some of them: other songs have
\* other speeds, and a Sidplayer tune runs at any clock.
Named(keyword) ==
    CASE keyword \in DOMAIN CreditOf \cup {"CREDITS"} -> {"credits"}
      [] keyword = "SPEED" -> {"speed"}
      [] keyword = "SONGS" -> {"songs", "start", "speed"}
      [] keyword = "INITPLAY" -> {"init", "play"}
      [] keyword = "FREEPAGES" -> {"startPage", "pages"}
      [] keyword = "MUSPLAYER" -> {"mus", "clock"}
      [] keyword = "PLAYSID" -> {"compatibility"}
      [] keyword = "CLOCK" -> {"clock"}
      [] keyword = "SIDMODEL" -> {"models"}
      [] keyword = "FLAGS" -> {"mus", "compatibility", "clock", "models"}
      [] keyword = "FIXLOAD" -> {"load", "dropped", "length"}

\* Below version 3.9 saving zeroes these; a BASIC tune becomes another one.
Zeroed == {"compatibility", "clock", "models", "startPage", "pages", "init"}

Saving == pc = "saving" /\ outcome' = "saved"

\* Whoever loads a tune after a command sees no other field changed than those
\* the command is for.  (A header with 0 songs, which SONGS 256 leaves behind,
\* loads as one song whose speed nobody has set.  And no header says that a tune
\* loaded to an address other than 0 starts at 0, as after FIXLOAD it may.)
OnlyNamedFieldsChange ==
    [][Saving /\ before.songs # 0 =>
         \A i \in Load(before, v2ng), j \in Load(tune', v2ng) :
           (cmd.keyword = "FIXLOAD" => i.load # 0) =>
             \A field \in DOMAIN i :
               i[field] # j[field] =>
                 field \in Named(cmd.keyword) \cup (IF v2ng THEN {} ELSE Zeroed)]_vars

\* What the line or the lines of a command ask for, where they keep to the
\* format and the tune has such a field.
Asked(command, i, j) ==
    LET value == command.value
        Clock(name) == j.mus \/ j.clock = ClockNamed[name]
        Model(name) == j.models[1] = ChipNamed[name]
        Mus(digit) == j.mus = (digit = "1")
        PlaySid(digit) == j.compatibility = IF digit = "1" THEN "PSID" ELSE "C64"
    IN  CASE command.keyword \in DOMAIN CreditOf ->
               j.credits[CreditOf[command.keyword]] = value
          [] command.keyword = "CREDITS" ->
               \A n \in 1..3 : value[n] \in Starred \/ j.credits[n] = value[n]
          [] command.keyword = "SPEED" ->
               j.compatibility = "BASIC" \/ j.speed = SongSpeeds(value, j.songs)
          [] command.keyword = "SONGS" ->
               value[1] \in 1..255 /\ value[2] \in 1..value[1] =>
                 j.songs = value[1] /\ j.start = value[2]
          [] command.keyword = "INITPLAY" ->
               /\ value[1] \in Word =>
                    j.init = IF value[1] = 0 /\ j.compatibility # "BASIC" THEN j.load
                             ELSE value[1]
               /\ value[2] \in Word => j.play = value[2]
          [] command.keyword = "FREEPAGES" ->
               value[1] \in Byte \ {255} /\ value[2] \in Byte \ {0} =>
                 j.startPage = value[1] /\ j.pages = value[2]
          [] command.keyword = "MUSPLAYER" -> Mus(value)
          [] command.keyword = "PLAYSID" -> PlaySid(value)
          [] command.keyword = "CLOCK" -> Clock(value)
          [] command.keyword = "SIDMODEL" -> Model(value)
          [] command.keyword = "FLAGS" ->
               /\ value[1] \in Starred \/ Mus(value[1])
               /\ value[2] \in Starred \/ PlaySid(value[2])
               /\ value[3] \in Starred \/ Clock(value[3])
               /\ value[4] \in Starred \/ Model(value[4])
          [] command.keyword = "FIXLOAD" ->
               j.load = (i.load + 2) % 65536

\* Whoever loads a tune after a command sees what the command asked for.
EditsTakeHold ==
    [][Saving /\ v2ng =>
         \A i \in Load(before, v2ng), j \in Load(tune', v2ng) : Asked(cmd, i, j)]_vars

\* A tune that is started where it is loaded, and cannot be.
StartsHidden(file) == file.id = "RSID" /\ file.init = 0 /\ Hidden(file.origin)

\* A tune that was saved can be loaded again, by this run and by any later one,
\* whatever it was saved from.  (Not so after FIXLOAD, which checks nothing; nor for a
\* BASIC tune below a ROM, which a run below version 3.9 saves as one that is none.)
SavedTunesLoad ==
    outcome = "saved" /\ cmd.keyword # "FIXLOAD" /\ (StartsHidden(tune) => v2ng) =>
      Load(tune, TRUE) # {} /\ Load(tune, FALSE) # {}

\* Executing a command once more, as a run after a failed one does, succeeds
\* and changes nothing.  (FIXLOAD takes another two bytes.)
RepeatingIsHarmless ==
    outcome = "saved" /\ v2ng /\ cmd.keyword # "FIXLOAD" =>
      LET again == UNION {Write(i, cmd) : i \in Load(tune, v2ng)}
      IN  /\ again # {}
          /\ \A i \in again : Load(Saved(i, v2ng), v2ng) = Load(tune, v2ng)

\* Through kills, full disks that nobody notices, and the commands of later runs
\* on what they have left, the data of a tune are a part of the original ones
\* without a gap, and each byte is loaded to where it has always been.
DataStayInPlace ==
    tune # Empty =>
      LET now == Parsed(tune)
          then == Parsed(original)
      IN  /\ (now.load - now.dropped) % 65536 = (then.load - then.dropped) % 65536
          /\ now.dropped >= then.dropped
          /\ now.dropped + now.length <= then.dropped + then.length

-----------------------------------------------------------------------------
(* What the documentation says and the code does not do.                   *)

\* HVSC_Update.txt: SIDMODEL changes the sidModel field, and FLAGS leaves the
\* other bits of 'flags' untouched; so neither changes what the file says of a
\* second or third chip.
OtherChipsAreUntouched ==
    [][Saving /\ v2ng =>
         \A i \in Load(before, v2ng), j \in Load(tune', v2ng) :
           \A n \in {2, 3} : i.models[n] = j.models[n]]_vars
=============================================================================
