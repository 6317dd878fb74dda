---------------------------- MODULE SidTuneProofs ----------------------------
(***************************************************************************)
(* Whatever the tunes and the commands are, loading a tune, changing it    *)
(* and saving it keeps its data where they belong and leaves a tune that   *)
(* can be loaded, changed and saved again.                                 *)
(***************************************************************************)
EXTENDS SidTune, TLAPS, SequenceTheorems

-----------------------------------------------------------------------------
(* Objects in memory.                                                      *)

\* What holds of every object a tune has been loaded into, commands or none: the
\* fields that came with a later version of the format are empty in an earlier one.
Well(i) ==
    /\ i \in Info
    /\ \A n \in {2, 3} : i.version <= n => i.models[n] = {}
    /\ i.version < 3 => i.reserved = 0

\* Numbers are cut to words, and songs fit.
LEMMA Words ==
    /\ \A n \in Word : n \in Nat
    /\ \A n \in Nat : n % 65536 \in Word
    /\ \A n \in 0..MaxSongs : n \in Word
<1>1. \A n \in Word : n \in Nat
  BY DEF Word
<1>2. \A n \in Nat : n % 65536 \in Word
  BY DEF Word
<1>3. \A n \in 0..MaxSongs : n \in Word
  BY DEF Word, MaxSongs
<1> QED
  BY <1>1, <1>2, <1>3

\* The songs with a speed are songs.
LEMMA SpeedsType ==
    ASSUME NEW bits, NEW songs \in 0..MaxSongs
    PROVE  SongSpeeds(bits, songs) \subseteq 0..(MaxSongs - 1)
BY DEF SongSpeeds, MaxSongs

\* A file is not what is left of one.
LEMMA FileIsSome ==
    ASSUME NEW f \in File
    PROVE  f # Empty
BY DEF File, Empty

\* The fields of a file.
LEMMA FileNumbers ==
    ASSUME NEW f \in File
    PROVE  /\ f.version \in 1..4 /\ f.load \in Word /\ f.origin \in Word
           /\ f.init \in Word /\ f.play \in Word
BY DEF File

\* The fields of a file, a few at a time, as many as the provers can handle: songs,
\* ...
LEMMA FileSongs ==
    ASSUME NEW f \in File
    PROVE  f.songs \in Word /\ f.start \in Word /\ f.id \in {"PSID", "RSID"}
BY DEF File

\* ... their speeds, ...
LEMMA FileSpeed ==
    ASSUME NEW f \in File
    PROVE  f.speed \in SUBSET (0..31)
BY DEF File

\* ... flags, ...
LEMMA FileFlags ==
    ASSUME NEW f \in File
    PROVE  /\ f.mus \in BOOLEAN /\ f.specific \in BOOLEAN /\ f.clock \in SUBSET Standard
           /\ f.models \in [1..3 -> SUBSET Chip]
BY DEF File

\* ... data and credits, ...
LEMMA FileRest ==
    ASSUME NEW f \in File
    PROVE  /\ f.dropped \in Nat /\ f.length \in Nat \ {0}
           /\ f.credits \in [1..3 -> STRING]
BY DEF File

\* ... and pages.
LEMMA FilePages ==
    ASSUME NEW f \in File
    PROVE  f.startPage \in Byte /\ f.pages \in Byte /\ f.reserved \in Word
BY DEF File

\* What is read from them.
ParsedSpeed(f) == IF f.id = "RSID" THEN 0..31 ELSE f.speed

\* Parsed field by field: addresses and version, ...
LEMMA ParsedNumbers ==
    ASSUME NEW f
    PROVE  /\ Parsed(f).load = IF f.load = 0 THEN f.origin ELSE f.load
           /\ Parsed(f).init = IF f.init = 0 /\ Parsed(f).compatibility # "BASIC"
                               THEN Parsed(f).load ELSE f.init
           /\ Parsed(f).play = f.play
           /\ Parsed(f).version = IF f.version >= 2 THEN f.version ELSE 2
BY DEF Parsed

\* ... what machine it is for, ...
LEMMA ParsedKind ==
    ASSUME NEW f
    PROVE  Parsed(f).compatibility =
             IF f.id = "RSID" THEN IF f.specific THEN "BASIC" ELSE "R64"
             ELSE IF f.version >= 2 /\ f.specific THEN "PSID" ELSE "C64"
BY DEF Parsed

\* ... songs, ...
LEMMA ParsedSongs ==
    ASSUME NEW f
    PROVE  /\ Parsed(f).songs = IF f.songs > MaxSongs THEN MaxSongs ELSE f.songs
           /\ Parsed(f).start = f.start
           /\ Parsed(f).speed = SongSpeeds(ParsedSpeed(f), Parsed(f).songs)
BY DEF Parsed, ParsedSpeed

\* ... flags, ...
LEMMA ParsedFlags ==
    ASSUME NEW f
    PROVE  /\ Parsed(f).mus = IF f.version >= 2 THEN f.mus ELSE FALSE
           /\ Parsed(f).clock = IF Parsed(f).mus THEN Standard
                                ELSE IF f.version >= 2 THEN f.clock ELSE {}
           /\ Parsed(f).models = [n \in 1..3 |->
                                    IF f.version >= 2 /\ (n = 1 \/ f.version > n)
                                    THEN f.models[n] ELSE {}]
BY DEF Parsed, Defaults

\* ... and what is taken as it is.
LEMMA ParsedRest ==
    ASSUME NEW f
    PROVE  /\ Parsed(f).startPage = IF f.version >= 2 THEN f.startPage ELSE 0
           /\ Parsed(f).pages = IF f.version >= 2 THEN f.pages ELSE 0
           /\ Parsed(f).reserved = IF f.version >= 3 THEN f.reserved ELSE 0
           /\ Parsed(f).credits = f.credits
           /\ Parsed(f).dropped = f.dropped
           /\ Parsed(f).length = f.length
BY DEF Parsed, Defaults

\* A header that is read is an object with an address, a name for each field and
\* no more songs than there is room for.
LEMMA ParsedWell ==
    ASSUME NEW f \in File
    PROVE  Well(Parsed(f))
<1> DEFINE p == Parsed(f)
<1>1. p.version \in 2..4 /\ p.load \in Word /\ p.init \in Word /\ p.play \in Word
  BY FileNumbers, ParsedNumbers
<1>2. p.compatibility \in Compatibility
  BY ParsedKind DEF Compatibility
<1>3. p.songs \in 0..MaxSongs /\ p.start \in Word
  <2>1. f.songs \in Word /\ f.start \in Word
    BY FileSongs
  <2>2. f.songs \in Nat
    BY <2>1, Words
  <2> QED
    BY <2>1, <2>2, ParsedSongs DEF MaxSongs
<1>4. p.speed \in SUBSET (0..(MaxSongs - 1))
  BY <1>3, ParsedSongs, SpeedsType
<1>5. p.mus \in BOOLEAN /\ p.clock \in SUBSET Standard
  BY FileFlags, ParsedFlags
<1>6. /\ p.models \in [1..3 -> SUBSET Chip]
      /\ \A n \in {2, 3} : p.version <= n => p.models[n] = {}
  <2>1. \A n \in {2, 3} : p.version <= n => ~ (f.version >= 2 /\ (n = 1 \/ f.version > n))
    BY FileNumbers, ParsedNumbers
  <2>2. p.models = [n \in 1..3 |-> IF f.version >= 2 /\ (n = 1 \/ f.version > n)
                                   THEN f.models[n] ELSE {}]
    BY ParsedFlags
  <2>3. f.models \in [1..3 -> SUBSET Chip]
    BY FileFlags
  <2> HIDE DEF p
  <2>4. p.models \in [1..3 -> SUBSET Chip]
    BY <2>2, <2>3
  <2>5. ASSUME NEW n \in {2, 3}, p.version <= n PROVE p.models[n] = {}
    BY <2>1, <2>2, <2>5
  <2> QED
    BY <2>4, <2>5
<1>7. p.startPage \in Byte /\ p.pages \in Byte /\ p.reserved \in Word
  <2>1. f.startPage \in Byte /\ f.pages \in Byte /\ f.reserved \in Word
    BY FilePages
  <2>2. 0 \in Byte /\ 0 \in Word
    BY DEF Byte, Word
  <2> QED
    BY <2>1, <2>2, ParsedRest
<1>8. p.dropped \in Nat /\ p.length \in Nat /\ p.credits \in [1..3 -> STRING]
  BY FileRest, ParsedRest
<1>9. p.version < 3 => p.reserved = 0
  BY FileNumbers, ParsedNumbers, ParsedRest
<1>10. p = [compatibility |-> p.compatibility, version |-> p.version, load |-> p.load,
            init |-> p.init, play |-> p.play, songs |-> p.songs, start |-> p.start,
            speed |-> p.speed, credits |-> p.credits, mus |-> p.mus, clock |-> p.clock,
            models |-> p.models, startPage |-> p.startPage, pages |-> p.pages,
            reserved |-> p.reserved, dropped |-> p.dropped, length |-> p.length]
  BY DEF Parsed
<1> HIDE DEF p
<1>11. p \in Info
  BY <1>1, <1>2, <1>3, <1>4, <1>5, <1>6, <1>7, <1>8, <1>10 DEF Info
<1>12. Well(p)
  BY <1>6, <1>9, <1>11 DEF Well
<1> QED
  BY <1>12 DEF p

-----------------------------------------------------------------------------
(* Saving.                                                                 *)

\* The fields of an object: addresses and version, ...
LEMMA InfoNumbers ==
    ASSUME NEW i \in Info
    PROVE  /\ i.compatibility \in Compatibility /\ i.version \in 2..4 /\ i.load \in Word
           /\ i.init \in Word /\ i.play \in Word
BY DEF Info

\* ... songs, ...
LEMMA InfoSongs ==
    ASSUME NEW i \in Info
    PROVE  i.songs \in 0..MaxSongs /\ i.start \in Word
BY DEF Info

\* ... their speeds, ...
LEMMA InfoSpeed ==
    ASSUME NEW i \in Info
    PROVE  i.speed \in SUBSET (0..(MaxSongs - 1))
BY DEF Info

\* ... flags, ...
LEMMA InfoFlags ==
    ASSUME NEW i \in Info
    PROVE  i.mus \in BOOLEAN /\ i.clock \in SUBSET Standard /\ i.models \in [1..3 -> SUBSET Chip]
BY DEF Info

\* ... pages, ...
LEMMA InfoPages ==
    ASSUME NEW i \in Info
    PROVE  i.startPage \in Byte /\ i.pages \in Byte /\ i.reserved \in Word
BY DEF Info

\* ... and the others.
LEMMA InfoRest ==
    ASSUME NEW i \in Info
    PROVE  i.credits \in [1..3 -> STRING] /\ i.dropped \in Nat /\ i.length \in Nat
BY DEF Info

Rsid(i) == i.compatibility \in {"R64", "BASIC"}

SavedSpeed(i) == IF Rsid(i) THEN {} ELSE {s \in i.speed : s < i.songs /\ s < 32}

\* Saved field by field: kind and addresses, ...
LEMMA SavedNumbers ==
    ASSUME NEW i, NEW v
    PROVE  /\ Saved(i, v).id = IF Rsid(i) THEN "RSID" ELSE "PSID"
           /\ Saved(i, v).version = i.version
           /\ Saved(i, v).load = 0
           /\ Saved(i, v).origin = i.load
           /\ Saved(i, v).init = IF i.compatibility = "BASIC" THEN 0 ELSE i.init
           /\ Saved(i, v).play = IF Rsid(i) THEN 0 ELSE i.play
BY DEF Saved, Rsid

\* ... songs, ...
LEMMA SavedSongs ==
    ASSUME NEW i, NEW v
    PROVE  /\ Saved(i, v).songs = i.songs
           /\ Saved(i, v).start = i.start
           /\ Saved(i, v).speed = SavedSpeed(i)
BY DEF Saved, Rsid, SavedSpeed

\* ... flags, which a run below version 3.9 clears, ...
LEMMA SavedFlags ==
    ASSUME NEW i, NEW v
    PROVE  /\ Saved(i, v).mus = i.mus
           /\ Saved(i, v).specific = (v /\ i.compatibility \in {"PSID", "BASIC"})
           /\ Saved(i, v).clock = IF v THEN i.clock ELSE {}
           /\ Saved(i, v).models = IF v THEN i.models ELSE [n \in 1..3 |-> {}]
BY DEF Saved

\* ... pages, which it clears as well, ...
LEMMA SavedPages ==
    ASSUME NEW i, NEW v
    PROVE  /\ Saved(i, v).startPage = IF v THEN i.startPage ELSE 0
           /\ Saved(i, v).pages = IF v THEN i.pages ELSE 0
           /\ Saved(i, v).reserved = IF i.version >= 3 THEN i.reserved ELSE 0
BY DEF Saved, Reserved

\* ... and what is written as it is.
LEMMA SavedRest ==
    ASSUME NEW i, NEW v
    PROVE  /\ Saved(i, v).credits = i.credits
           /\ Saved(i, v).dropped = i.dropped
           /\ Saved(i, v).length = i.length
BY DEF Saved, Data

\* What is saved is a file.
LEMMA SavedType ==
    ASSUME NEW i \in Info, i.length > 0, NEW v \in BOOLEAN
    PROVE  Saved(i, v) \in File
<1> DEFINE f == Saved(i, v)
<1>1. f.version \in 1..4 /\ f.id \in {"PSID", "RSID"}
  BY InfoNumbers, SavedNumbers
<1>2. f.load \in Word /\ f.origin \in Word /\ f.init \in Word /\ f.play \in Word
  <2>1. 0 \in Word
    BY DEF Word
  <2> QED
    BY <2>1, InfoNumbers, SavedNumbers
<1>3. f.songs \in Word /\ f.start \in Word
  <2>1. i.songs \in Word
    BY InfoSongs, Words
  <2> QED
    BY <2>1, InfoSongs, SavedSongs
<1>4. f.speed \in SUBSET (0..31)
  <2>1. \A s \in i.speed : s \in Nat
    BY InfoSpeed
  <2>2. SavedSpeed(i) \subseteq 0..31
    BY <2>1 DEF SavedSpeed
  <2> QED
    BY <2>2, SavedSongs
<1>5. f.mus \in BOOLEAN /\ f.specific \in BOOLEAN /\ f.clock \in SUBSET Standard
  BY InfoFlags, SavedFlags
<1>6. f.models \in [1..3 -> SUBSET Chip]
  BY InfoFlags, SavedFlags
<1>7. f.startPage \in Byte /\ f.pages \in Byte /\ f.reserved \in Word
  <2>1. 0 \in Byte /\ 0 \in Word
    BY DEF Byte, Word
  <2> QED
    BY <2>1, InfoPages, SavedPages
<1>8. f.dropped \in Nat /\ f.length \in Nat \ {0} /\ f.credits \in [1..3 -> STRING]
  BY InfoRest, SavedRest
<1>9. f = [id |-> f.id, version |-> f.version, load |-> f.load, origin |-> f.origin,
           init |-> f.init, play |-> f.play, songs |-> f.songs, start |-> f.start,
           speed |-> f.speed, credits |-> f.credits, mus |-> f.mus,
           specific |-> f.specific, clock |-> f.clock, models |-> f.models,
           startPage |-> f.startPage, pages |-> f.pages, reserved |-> f.reserved,
           dropped |-> f.dropped, length |-> f.length]
  BY DEF Saved
<1> HIDE DEF f
<1>10. f \in File
  BY <1>1, <1>2, <1>3, <1>4, <1>5, <1>6, <1>7, <1>8, <1>9 DEF File
<1> QED
  BY <1>10 DEF f

-----------------------------------------------------------------------------
(* Loading what has been saved.                                            *)

\* What is known of an object that was loaded.
LEMMA WellFields ==
    ASSUME NEW i, Well(i)
    PROVE  /\ i \in Info /\ i.version \in 2..4 /\ i.songs \in 0..MaxSongs
           /\ i.compatibility \in Compatibility
           /\ \A n \in {2, 3} : i.version <= n => i.models[n] = {}
           /\ i.version < 3 => i.reserved = 0
BY InfoNumbers, InfoSongs DEF Well

\* What the file keeps of an object in every run.
LEMMA ReparsedNumbers ==
    ASSUME NEW i, Well(i), NEW v \in BOOLEAN
    PROVE  /\ Parsed(Saved(i, v)).load = i.load
           /\ Parsed(Saved(i, v)).version = i.version
           /\ Parsed(Saved(i, v)).play = IF Rsid(i) THEN 0 ELSE i.play
           /\ Parsed(Saved(i, v)).compatibility =
                CASE Rsid(i) -> IF v THEN i.compatibility ELSE "R64"
                  [] OTHER -> IF v THEN i.compatibility ELSE "C64"
<1> DEFINE f == Saved(i, v)
<1>1. Parsed(f).load = i.load /\ Parsed(f).version = i.version
  BY WellFields, SavedNumbers, ParsedNumbers
<1>2. Parsed(f).play = IF Rsid(i) THEN 0 ELSE i.play
  BY SavedNumbers, ParsedNumbers
<1>3. Parsed(f).compatibility = IF Rsid(i) THEN IF v THEN i.compatibility ELSE "R64"
                                ELSE IF v THEN i.compatibility ELSE "C64"
  <2>1. f.specific = (v /\ i.compatibility \in {"PSID", "BASIC"})
    BY SavedFlags
  <2>2. f.id = (IF Rsid(i) THEN "RSID" ELSE "PSID") /\ f.version >= 2
    BY WellFields, SavedNumbers
  <2>3. i.compatibility \in {"C64", "PSID", "R64", "BASIC"}
    BY WellFields DEF Compatibility
  <2> HIDE DEF f
  <2>4. Parsed(f).compatibility =
             IF f.id = "RSID" THEN IF f.specific THEN "BASIC" ELSE "R64"
             ELSE IF f.version >= 2 /\ f.specific THEN "PSID" ELSE "C64"
    BY ParsedKind
  <2> QED
    BY <2>1, <2>2, <2>3, <2>4 DEF Rsid
<1> QED
  BY <1>1, <1>2, <1>3

\* The INIT address after one trip to the file and back: an address of 0 is the
\* load address.
LEMMA ReparsedInit ==
    ASSUME NEW i, Well(i), NEW v \in BOOLEAN
    PROVE  Parsed(Saved(i, v)).init =
             IF i.compatibility = "BASIC" THEN IF v THEN 0 ELSE i.load
             ELSE IF i.init = 0 THEN i.load ELSE i.init
<1> DEFINE f == Saved(i, v)
<1>1. Parsed(f).init = IF f.init = 0 /\ Parsed(f).compatibility # "BASIC"
                       THEN Parsed(f).load ELSE f.init
  BY ParsedNumbers
<1>2. f.init = IF i.compatibility = "BASIC" THEN 0 ELSE i.init
  BY SavedNumbers
<1>3. Parsed(f).load = i.load
  BY ReparsedNumbers
<1>4. Parsed(f).compatibility = "BASIC" <=> v /\ i.compatibility = "BASIC"
  BY ReparsedNumbers DEF Rsid
<1> HIDE DEF f
<1> QED
  BY <1>1, <1>2, <1>3, <1>4 DEF f

\* The songs after one trip, with the speeds that the file has bits for.
LEMMA ReparsedSongs ==
    ASSUME NEW i, Well(i), NEW v \in BOOLEAN
    PROVE  /\ Parsed(Saved(i, v)).songs = i.songs
           /\ Parsed(Saved(i, v)).start = i.start
           /\ Parsed(Saved(i, v)).speed =
                SongSpeeds(IF Rsid(i) THEN 0..31 ELSE SavedSpeed(i), i.songs)
<1>1. i.songs \in 0..MaxSongs /\ MaxSongs \in Nat
  BY WellFields DEF MaxSongs
<1>2. Parsed(Saved(i, v)).songs = i.songs /\ Parsed(Saved(i, v)).start = i.start
  BY <1>1, SavedSongs, ParsedSongs
<1>3. ParsedSpeed(Saved(i, v)) = IF Rsid(i) THEN 0..31 ELSE SavedSpeed(i)
  BY SavedSongs, SavedNumbers DEF ParsedSpeed
<1> QED
  BY <1>2, <1>3, ParsedSongs

\* What comes back as it was.
LEMMA ReparsedRest ==
    ASSUME NEW i, Well(i), NEW v \in BOOLEAN
    PROVE  /\ Parsed(Saved(i, v)).mus = i.mus
           /\ Parsed(Saved(i, v)).reserved = i.reserved
           /\ Parsed(Saved(i, v)).credits = i.credits
           /\ Parsed(Saved(i, v)).dropped = i.dropped
           /\ Parsed(Saved(i, v)).length = i.length
<1>1. Saved(i, v).version >= 2 /\ (Saved(i, v).version >= 3 <=> i.version >= 3)
  BY WellFields, SavedNumbers
<1>2. i.version < 3 <=> ~ (i.version >= 3)
  BY WellFields
<1>3. Parsed(Saved(i, v)).mus = i.mus /\ Parsed(Saved(i, v)).credits = i.credits
  <2>1. Saved(i, v).mus = i.mus /\ Saved(i, v).credits = i.credits
    BY SavedFlags, SavedRest
  <2> DEFINE f == Saved(i, v)
  <2>2. f.version >= 2 /\ f.mus = i.mus /\ f.credits = i.credits
    BY <1>1, <2>1
  <2>3. /\ Parsed(f).mus = IF f.version >= 2 THEN f.mus ELSE FALSE
        /\ Parsed(f).credits = f.credits
    BY ParsedFlags, ParsedRest
  <2> HIDE DEF f
  <2>4. Parsed(f).mus = i.mus /\ Parsed(f).credits = i.credits
    BY <2>2, <2>3
  <2> QED
    BY <2>4 DEF f
<1>4. Parsed(Saved(i, v)).reserved = i.reserved
  BY <1>1, <1>2, WellFields, SavedPages, ParsedRest
<1> QED
  BY <1>3, <1>4, SavedRest, ParsedRest

\* From version 3.9 on it keeps the flags, too; a Sidplayer tune runs at any clock.
LEMMA ReparsedFlags ==
    ASSUME NEW i, Well(i)
    PROVE  /\ Parsed(Saved(i, TRUE)).clock = IF i.mus THEN Standard ELSE i.clock
           /\ Parsed(Saved(i, TRUE)).models = i.models
           /\ Parsed(Saved(i, TRUE)).startPage = i.startPage
           /\ Parsed(Saved(i, TRUE)).pages = i.pages
<1> DEFINE f == Saved(i, TRUE)
<1>1. f.version = i.version /\ i.version \in 2..4 /\ i.version >= 2
  <2>1. i.version \in 2..4
    BY WellFields
  <2>2. f.version = i.version
    BY SavedNumbers
  <2> HIDE DEF f
  <2> QED
    BY <2>1, <2>2
<1>2. f.startPage = i.startPage /\ f.pages = i.pages
  BY SavedPages
<1>3. f.clock = i.clock /\ f.models = i.models
  BY SavedFlags
<1>4. Parsed(f).startPage = i.startPage /\ Parsed(f).pages = i.pages
  BY <1>1, <1>2, ParsedRest
<1>5. Parsed(f).clock = IF i.mus THEN Standard ELSE i.clock
  BY <1>1, <1>3, ReparsedRest, ParsedFlags
<1>6. Parsed(f).models = i.models
  <2>1. i.models \in [1..3 -> SUBSET Chip]
    BY WellFields, InfoFlags
  <2>2. Parsed(f).models = [n \in 1..3 |-> IF f.version >= 2 /\ (n = 1 \/ f.version > n)
                                           THEN f.models[n] ELSE {}]
    BY ParsedFlags
  <2>3. ASSUME NEW n \in 1..3, ~ (f.version >= 2 /\ (n = 1 \/ f.version > n))
        PROVE  i.models[n] = {}
    <3> HIDE DEF f
    <3>1. n \in {2, 3} /\ i.version <= n
      BY <1>1, <2>3
    <3> QED
      BY <3>1, WellFields
  <2> HIDE DEF f
  <2> QED
    BY <1>3, <2>1, <2>2, <2>3
<1> QED
  BY <1>4, <1>5, <1>6

-----------------------------------------------------------------------------
(* Loading.                                                                *)

Fields ==
    {"compatibility", "version", "load", "init", "play", "songs", "start", "speed",
     "credits", "mus", "clock", "models", "startPage", "pages", "reserved", "dropped",
     "length"}

\* The objects differ in no other field.
Same(i, j, changed) == \A field \in Fields \ changed : j[field] = i[field]

\* All objects have the same fields.
LEMMA InfoDomain ==
    ASSUME NEW i \in Info
    PROVE  DOMAIN i = Fields
BY DEF Info, Fields

\* Objects that agree in all of them are one.
LEMMA InfoEqual ==
    ASSUME NEW i \in Info, NEW j \in Info, Same(i, j, {})
    PROVE  i = j
<1>1. DOMAIN i = Fields /\ DOMAIN j = Fields
  BY InfoDomain
<1>2. \A field \in Fields : i[field] = j[field]
  BY DEF Same
<1>3. i = [field \in Fields |-> i[field]] /\ j = [field \in Fields |-> j[field]]
  <2>1. i = [field \in DOMAIN i |-> i[field]] /\ j = [field \in DOMAIN j |-> j[field]]
    BY DEF Info
  <2> QED
    BY <1>1, <2>1
<1> QED
  BY <1>2, <1>3

\* Where there are no pages, that is written in one of two ways.
Settled(i) ==
    /\ i.startPage = 255 => i.pages = 0
    /\ i.startPage # 255 /\ i.pages = 0 => i.startPage = 0

\* Where there are pages, they are free.
Placed(i) ==
    /\ Settled(i)
    /\ i.startPage # 255 /\ i.pages # 0 => FreePages(i)

\* Whether pages are placed right depends on four fields ...
LEMMA PlacedSame ==
    ASSUME NEW i, NEW j, j.startPage = i.startPage, j.pages = i.pages, j.load = i.load,
           j.length = i.length, Placed(i)
    PROVE  Placed(j)
BY DEF Placed, Settled, FreePages

\* ... whether a tune fits its machine on five ...
LEMMA CompatibleSame ==
    ASSUME NEW i, NEW j, j.compatibility = i.compatibility, j.init = i.init,
           j.play = i.play, j.load = i.load, j.length = i.length, Compatible(i)
    PROVE  Compatible(j)
BY DEF Compatible

\* ... and what a later version has brought on three.
LEMMA WellSame ==
    ASSUME NEW i, Well(i), NEW j \in Info, j.version = i.version, j.models = i.models,
           j.reserved = i.reserved
    PROVE  Well(j)
BY DEF Well

\* A page assigned is the only field that changes.
LEMMA ChangePages ==
    ASSUME NEW i \in Info, NEW n \in Byte, NEW name \in {"startPage", "pages"}
    PROVE  /\ [i EXCEPT ![name] = n] \in Info
           /\ [i EXCEPT ![name] = n][name] = n
           /\ Same(i, [i EXCEPT ![name] = n], {name})
           /\ i[name] = n => [i EXCEPT ![name] = n] = i
<1>1. name = "pages" => [i EXCEPT ![name] = n] \in Info
  BY DEF Info
<1>2. name = "startPage" => [i EXCEPT ![name] = n] \in Info
  BY DEF Info
<1>3. DOMAIN i = Fields /\ name \in Fields
  BY InfoDomain DEF Fields
<1>4. [i EXCEPT ![name] = n][name] = n
  BY <1>3
<1>5. Same(i, [i EXCEPT ![name] = n], {name})
  BY <1>3 DEF Same
<1>6. [i EXCEPT ![name] = n] \in Info
  BY <1>1, <1>2
<1> DEFINE j == [i EXCEPT ![name] = n]
<1>7. i[name] = n => j = i
  <2>1. SUFFICES ASSUME i[name] = n PROVE Same(i, j, {})
    BY <1>6, InfoEqual
  <2>2. j[name] = i[name] /\ Same(i, j, {name}) /\ j = j
    BY <1>4, <1>5, <2>1
  <2> HIDE DEF j
  <2> QED
    BY <2>2 DEF Same
<1> QED
  BY <1>4, <1>5, <1>6, <1>7

\* What checkRelocInfo lets pass it lets pass again as it is.
LEMMA RelocatedPlaced ==
    ASSUME NEW i \in Info, NEW j \in Relocatable(i)
    PROVE  /\ j \in Info
           /\ Same(i, j, {"startPage", "pages"})
           /\ Relocatable(i) = {j}
           /\ Placed(j)
           /\ Settled(i) => j = i
<1>1. 0 \in Byte
  BY DEF Byte
<1>2. CASE i.startPage = 255
  <2>1. Relocatable(i) = {j} /\ j = [i EXCEPT !["pages"] = 0]
    BY <1>2 DEF Relocatable
  <2>2. j \in Info /\ j.pages = 0 /\ Same(i, j, {"pages"})
    BY <1>1, <2>1, ChangePages
  <2>3. j.startPage = 255 /\ Same(i, j, {"startPage", "pages"})
    BY <1>2, <2>2 DEF Same, Fields
  <2>4. Placed(j)
    BY <2>2, <2>3 DEF Placed, Settled
  <2>5. Settled(i) => j = i
    BY <1>1, <1>2, <2>1, ChangePages DEF Settled
  <2> QED
    BY <2>1, <2>2, <2>3, <2>4, <2>5
<1>3. CASE i.startPage # 255 /\ i.pages = 0
  <2>1. Relocatable(i) = {j} /\ j = [i EXCEPT !["startPage"] = 0]
    BY <1>3 DEF Relocatable
  <2>2. j \in Info /\ j.startPage = 0 /\ Same(i, j, {"startPage"})
    BY <1>1, <2>1, ChangePages
  <2>3. j.pages = 0 /\ Same(i, j, {"startPage", "pages"})
    BY <1>3, <2>2 DEF Same, Fields
  <2>4. Placed(j)
    BY <2>2, <2>3 DEF Placed, Settled
  <2>5. Settled(i) => j = i
    BY <1>1, <1>3, <2>1, ChangePages DEF Settled
  <2> QED
    BY <2>1, <2>2, <2>3, <2>4, <2>5
<1>4. CASE i.startPage # 255 /\ i.pages # 0
  <2>1. Relocatable(i) = {j} /\ j = i /\ FreePages(i)
    BY <1>4 DEF Relocatable
  <2>2. Placed(j) /\ Same(i, j, {"startPage", "pages"})
    BY <1>4, <2>1 DEF Placed, Settled, Same
  <2> QED
    BY <2>1, <2>2
<1> QED
  BY <1>2, <1>3, <1>4

\* Pages that are placed right stay where they are.
LEMMA PlacedStays ==
    ASSUME NEW i \in Info, Placed(i)
    PROVE  Relocatable(i) = {i}
<1>1. 0 \in Byte
  BY DEF Byte
<1>2. CASE i.startPage = 255
  <2>1. i["pages"] = 0 /\ Relocatable(i) = {[i EXCEPT !["pages"] = 0]}
    BY <1>2 DEF Placed, Settled, Relocatable
  <2> QED
    BY <1>1, <2>1, ChangePages
<1>3. CASE i.startPage # 255 /\ i.pages = 0
  <2>1. i["startPage"] = 0 /\ Relocatable(i) = {[i EXCEPT !["startPage"] = 0]}
    BY <1>3 DEF Placed, Settled, Relocatable
  <2> QED
    BY <1>1, <2>1, ChangePages
<1>4. CASE i.startPage # 255 /\ i.pages # 0
  BY <1>4 DEF Placed, Settled, Relocatable
<1> QED
  BY <1>2, <1>3, <1>4

AcceptedSongs(i) == IF i.songs = 0 THEN 1 ELSE i.songs

\* acceptSidTune corrects the number of songs and the first one, and nothing else.
LEMMA AcceptedSame ==
    ASSUME NEW i \in Info
    PROVE  /\ Accepted(i) \in Info
           /\ Same(i, Accepted(i), {"songs", "start"})
           /\ Accepted(i).songs = AcceptedSongs(i)
           /\ Accepted(i).start = IF i.start \in 1..AcceptedSongs(i) THEN i.start ELSE 1
<1> DEFINE songs == AcceptedSongs(i)
           start == IF i.start \in 1..songs THEN i.start ELSE 1
           j == [i EXCEPT !.songs = songs]
           k == [j EXCEPT !.start = start]
<1>1. songs \in 0..MaxSongs /\ start \in Word
  <2>1. i.songs \in 0..MaxSongs /\ i.start \in Word
    BY InfoSongs
  <2>2. songs \in 0..MaxSongs
    BY <2>1 DEF AcceptedSongs, MaxSongs
  <2>3. 1 \in Word
    BY DEF Word
  <2> QED
    BY <2>1, <2>2, <2>3
<1>2. DOMAIN i = Fields /\ {"songs", "start"} \subseteq Fields
  BY InfoDomain DEF Fields
<1> HIDE DEF songs, start
<1>3. j \in Info
  BY <1>1 DEF Info
<1>4. Same(i, j, {"songs"}) /\ j.songs = songs
  BY <1>2 DEF Same
<1>5. DOMAIN j = Fields
  BY <1>3, InfoDomain
<1> HIDE DEF j
<1>6. k \in Info
  BY <1>1, <1>3 DEF Info
<1>7. Same(j, k, {"start"}) /\ k.start = start
  BY <1>2, <1>5 DEF Same
<1> HIDE DEF k
<1>8. Same(i, k, {"songs", "start"})
  BY <1>4, <1>7 DEF Same
<1>9. k.songs = songs
  BY <1>2, <1>4, <1>7 DEF Same
<1>10. Accepted(i) = k
  BY DEF Accepted, AcceptedSongs, k, j, songs, start
<1> QED
  BY <1>6, <1>7, <1>8, <1>9, <1>10 DEF songs, start

\* A file is loaded into one object, if any: the one that has been read, with its
\* songs and its pages put in order.
LEMMA Loaded ==
    ASSUME NEW f \in File, NEW strict \in BOOLEAN, NEW k \in Load(f, strict)
    PROVE  /\ Load(f, strict) = {k}
           /\ Well(k) /\ Compatible(k)
           /\ Same(Parsed(f), k, {"songs", "start", "startPage", "pages"})
           /\ k.songs = AcceptedSongs(Parsed(f))
           /\ k.start = IF f.start \in 1..k.songs THEN f.start ELSE 1
           /\ strict => Placed(k)
           /\ ~ strict => k.startPage = Parsed(f).startPage /\ k.pages = Parsed(f).pages
           /\ Settled(Parsed(f)) =>
                k.startPage = Parsed(f).startPage /\ k.pages = Parsed(f).pages
<1> DEFINE p == Parsed(f)
<1>1. Well(p) /\ p \in Info
  BY ParsedWell, WellFields
<1>2. p.start = f.start
  BY ParsedSongs
<1>3. f # Empty
  BY FileIsSome
<1>4. PICK i \in FileSupport(f, strict) : k = Accepted(i)
  BY DEF Load
<1>5. Compatible(p)
  BY <1>3, <1>4 DEF FileSupport
<1>6. FileSupport(f, strict) = IF strict THEN Relocatable(p) ELSE {p}
  BY <1>3, <1>4 DEF FileSupport
<1> HIDE DEF p
<1>7. /\ i \in Info /\ Same(p, i, {"startPage", "pages"})
      /\ FileSupport(f, strict) = {i}
      /\ strict => Placed(i)
      /\ ~ strict => i = p
      /\ Settled(p) => i = p
  <2>1. CASE strict
    <3>1. i \in Relocatable(p) /\ FileSupport(f, strict) = Relocatable(p)
      BY <1>4, <1>6, <2>1
    <3> QED
      BY <1>1, <2>1, <3>1, RelocatedPlaced
  <2>2. CASE ~ strict
    <3>1. i = p /\ FileSupport(f, strict) = {i}
      BY <1>4, <1>6, <2>2
    <3> QED
      BY <1>1, <2>2, <3>1 DEF Same
  <2> QED
    BY <2>1, <2>2
<1>8. /\ k \in Info /\ Same(i, k, {"songs", "start"}) /\ k.songs = AcceptedSongs(i)
      /\ k.start = IF i.start \in 1..k.songs THEN i.start ELSE 1
  BY <1>4, <1>7, AcceptedSame
<1>9. Load(f, strict) = {k}
  BY <1>4, <1>7 DEF Load
<1>10. /\ i.songs = p.songs /\ i.start = p.start
       /\ k.startPage = i.startPage /\ k.pages = i.pages
       /\ k.load = i.load /\ k.length = i.length
  BY <1>7, <1>8 DEF Same, Fields
<1>11. /\ k.version = p.version /\ k.models = p.models /\ k.reserved = p.reserved
       /\ k.compatibility = p.compatibility /\ k.init = p.init /\ k.play = p.play
       /\ k.load = p.load /\ k.length = p.length
  BY <1>7, <1>8 DEF Same, Fields
<1>12. Well(k)
  BY <1>1, <1>8, <1>11, WellSame
<1>13. Compatible(k)
  BY <1>5, <1>11, CompatibleSame
<1>14. Same(p, k, {"songs", "start", "startPage", "pages"})
  BY <1>7, <1>8 DEF Same
<1>15. k.songs = AcceptedSongs(p)
  BY <1>8, <1>10 DEF AcceptedSongs
<1>16. k.start = IF f.start \in 1..k.songs THEN f.start ELSE 1
  BY <1>2, <1>8, <1>10
<1>17. strict => Placed(k)
  BY <1>7, <1>10, PlacedSame
<1>18. ~ strict \/ Settled(p) =>
         k.startPage = p.startPage /\ k.pages = p.pages
  BY <1>7, <1>10
<1> QED
  BY <1>9, <1>12, <1>13, <1>14, <1>15, <1>16, <1>17, <1>18 DEF p

\* A file without a header is refused.
LEMMA NothingLoaded ==
    ASSUME NEW strict
    PROVE  Load(Empty, strict) = {}
BY DEF Load, FileSupport

\* What it takes for a file to be loaded.
LEMMA Loads ==
    ASSUME NEW f \in File, NEW strict \in BOOLEAN, Compatible(Parsed(f)),
           f.id = "RSID" => f.version >= 2 /\ RealC64Info(f, Parsed(f).compatibility),
           strict => Placed(Parsed(f))
    PROVE  Load(f, strict) # {}
<1> DEFINE p == Parsed(f)
<1>1. f # Empty
  BY FileIsSome
<1>2. p \in Info
  BY ParsedWell, WellFields
<1>3. f.id = "RSID" => ~ (f.version < 2)
  BY FileNumbers
<1>4. FileSupport(f, strict) = IF strict THEN Relocatable(p) ELSE {p}
  BY <1>1, <1>3 DEF FileSupport
<1>5. strict => Relocatable(p) = {p}
  BY <1>2, PlacedStays
<1>6. p \in FileSupport(f, strict)
  BY <1>4, <1>5
<1> QED
  BY <1>6 DEF Load

-----------------------------------------------------------------------------
(* Changing.                                                               *)

\* A command has changed fields, among them none that others go with.
Changed(i, w, names) == Well(w) /\ Same(i, w, names)

\* An assignment changes its field only ...
LEMMA ChangeField ==
    ASSUME NEW i \in Info, NEW name \in Fields, NEW value
    PROVE  /\ Same(i, [i EXCEPT ![name] = value], {name})
           /\ [i EXCEPT ![name] = value][name] = value
BY InfoDomain DEF Same

\* ... and leaves an object that can be saved.
LEMMA ChangedField ==
    ASSUME NEW i, Well(i), NEW name \in Fields \ {"version", "models", "reserved"}, NEW value,
           [i EXCEPT ![name] = value] \in Info
    PROVE  Changed(i, [i EXCEPT ![name] = value], {name})
<1> DEFINE w == [i EXCEPT ![name] = value]
<1>1. Same(i, w, {name})
  BY WellFields, ChangeField
<1> HIDE DEF w
<1>2. w.version = i.version /\ w.models = i.models /\ w.reserved = i.reserved
  BY <1>1 DEF Same, Fields
<1>3. w \in Info
  BY DEF w
<1>4. Well(w)
  BY <1>2, <1>3, WellSame
<1> QED
  BY <1>1, <1>4 DEF Changed, w

\* TITLE, AUTHOR and RELEASED change one line of the credits.
LEMMA CreditWritten ==
    ASSUME NEW i, Well(i), NEW n \in 1..3, NEW line \in STRING, NEW w \in WriteCredit(i, n, line)
    PROVE  Changed(i, w, {"credits"}) /\ w.credits = [i.credits EXCEPT ![n] = line]
<1> DEFINE value == [i.credits EXCEPT ![n] = line]
<1>1. i \in Info /\ i.credits \in [1..3 -> STRING]
  BY WellFields, InfoRest
<1>2. value \in [1..3 -> STRING]
  BY <1>1
<1>3. w = [i EXCEPT !["credits"] = value]
  BY DEF WriteCredit
<1> HIDE DEF value
<1>4. w \in Info
  BY <1>1, <1>2, <1>3 DEF Info
<1>5. Changed(i, w, {"credits"})
  BY <1>3, <1>4, ChangedField DEF Fields
<1>6. w.credits = value
  BY <1>1, <1>3, ChangeField DEF Fields
<1> QED
  BY <1>5, <1>6 DEF value

\* CREDITS changes those that are not starred.
LEMMA CreditsWritten ==
    ASSUME NEW i, Well(i), NEW lines \in [1..3 -> STRING], NEW w \in WriteCredits(i, lines)
    PROVE  /\ Changed(i, w, {"credits"})
           /\ w.credits = [n \in 1..3 |-> IF lines[n] \in Starred THEN i.credits[n] ELSE lines[n]]
<1> DEFINE value == [n \in 1..3 |-> IF lines[n] \in Starred THEN i.credits[n] ELSE lines[n]]
<1>1. i \in Info /\ i.credits \in [1..3 -> STRING]
  BY WellFields, InfoRest
<1>2. value \in [1..3 -> STRING]
  BY <1>1
<1>3. w = [i EXCEPT !["credits"] = value]
  <2>1. DOMAIN i = Fields
    BY <1>1, InfoDomain
  <2> QED
    BY <2>1 DEF WriteCredits, Fields
<1> HIDE DEF value
<1>4. w \in Info
  BY <1>1, <1>2, <1>3 DEF Info
<1>5. Changed(i, w, {"credits"})
  BY <1>3, <1>4, ChangedField DEF Fields
<1>6. w.credits = value
  BY <1>1, <1>3, ChangeField DEF Fields
<1> QED
  BY <1>5, <1>6 DEF value

\* SPEED changes the speeds of the songs there are; Real C64 tunes have none.
LEMMA SpeedWritten ==
    ASSUME NEW i, Well(i), NEW set, NEW w \in WriteSpeed(i, set)
    PROVE  /\ Changed(i, w, {"speed"}) /\ i.compatibility # "R64"
           /\ w.speed = (i.speed \ (0..(i.songs - 1))) \cup SongSpeeds(set, i.songs)
<1> DEFINE value == (i.speed \ (0..(i.songs - 1))) \cup SongSpeeds(set, i.songs)
<1>1. i \in Info /\ i.speed \in SUBSET (0..(MaxSongs - 1)) /\ i.songs \in 0..MaxSongs
  BY WellFields, InfoSpeed
<1>2. value \in SUBSET (0..(MaxSongs - 1))
  BY <1>1, SpeedsType
<1>3. w = [i EXCEPT !["speed"] = value] /\ i.compatibility # "R64"
  <2>1. DOMAIN i = Fields
    BY <1>1, InfoDomain
  <2> QED
    BY <2>1 DEF WriteSpeed, Fields
<1> HIDE DEF value
<1>4. w \in Info
  BY <1>1, <1>2, <1>3 DEF Info
<1>5. Changed(i, w, {"speed"})
  BY <1>3, <1>4, ChangedField DEF Fields
<1>6. w.speed = value
  BY <1>1, <1>3, ChangeField DEF Fields
<1> QED
  BY <1>3, <1>5, <1>6 DEF value

\* The numbers of a command are cut to a byte or a word.
LEMMA Pair ==
    ASSUME NEW numbers \in Seq(Nat), Len(numbers) = 2
    PROVE  /\ numbers[1] \in Nat /\ numbers[2] \in Nat
           /\ numbers[1] % 256 \in 0..255 /\ numbers[2] % 256 \in 0..255
           /\ numbers[1] % 65536 \in Word /\ numbers[2] % 65536 \in Word
<1>a. 1 \in 1..Len(numbers) /\ 2 \in 1..Len(numbers)
  OBVIOUS
<1>1. numbers[1] \in Nat /\ numbers[2] \in Nat
  BY <1>a, ElementOfSeq, Zenon
<1>2. \A n \in Nat : n % 256 \in 0..255
  OBVIOUS
<1>3. numbers[1] % 256 \in 0..255 /\ numbers[2] % 256 \in 0..255
  BY <1>1, <1>2
<1>4. numbers[1] % 65536 \in Word /\ numbers[2] % 65536 \in Word
  BY <1>1, Words
<1> QED
  BY <1>1, <1>3, <1>4

\* Changes of fields that every version has leave an object that can be saved.
LEMMA ChangedBy ==
    ASSUME NEW i, Well(i), NEW w \in Info, NEW names, Same(i, w, names),
           {"version", "models", "reserved"} \cap names = {}
    PROVE  Changed(i, w, names)
<1>1. w.version = i.version /\ w.models = i.models /\ w.reserved = i.reserved
  BY DEF Same, Fields
<1> QED
  BY <1>1, WellSame DEF Changed

\* SONGS cuts both numbers to a byte.
LEMMA SongsWritten ==
    ASSUME NEW i, Well(i), NEW numbers \in Seq(Nat), NEW w \in WriteSongs(i, numbers)
    PROVE  /\ Changed(i, w, {"songs", "start"}) /\ Len(numbers) = 2
           /\ w.songs = numbers[1] % 256 /\ w.start = numbers[2] % 256
<1> DEFINE a == numbers[1] % 256
           b == numbers[2] % 256
<1>1. Len(numbers) = 2 /\ w = [i EXCEPT !["songs"] = a, !["start"] = b]
  BY DEF WriteSongs
<1>2. a \in 0..255 /\ b \in 0..255
  BY <1>1, Pair
<1> HIDE DEF a, b
<1>3. a \in 0..MaxSongs /\ b \in 0..MaxSongs
  BY <1>2 DEF MaxSongs
<1>4. b \in Word
  BY <1>3, Words
<1>5. i \in Info
  BY WellFields
<1>6. DOMAIN i = Fields /\ {"songs", "start"} \subseteq Fields
  BY <1>5, InfoDomain DEF Fields
<1>7. Same(i, w, {"songs", "start"}) /\ w.songs = a /\ w.start = b
  BY <1>1, <1>6 DEF Same
<1>8. [i EXCEPT !["songs"] = a] \in Info /\ w = [[i EXCEPT !["songs"] = a] EXCEPT !["start"] = b]
  BY <1>1, <1>3, <1>5 DEF Info
<1>9. w \in Info
  BY <1>4, <1>8 DEF Info
<1>10. Changed(i, w, {"songs", "start"})
  BY <1>7, <1>9, ChangedBy
<1> QED
  BY <1>1, <1>7, <1>10 DEF a, b

\* INITPLAY cuts both to a word, and refuses what does not fit the machine.
LEMMA InitPlayWritten ==
    ASSUME NEW i, Well(i), NEW numbers \in Seq(Nat), NEW w \in WriteInitPlay(i, numbers)
    PROVE  /\ Changed(i, w, {"init", "play"}) /\ Len(numbers) = 2 /\ Compatible(w)
           /\ w.init = numbers[1] % 65536 /\ w.play = numbers[2] % 65536
<1> DEFINE a == numbers[1] % 65536
           b == numbers[2] % 65536
<1>1. Len(numbers) = 2 /\ Compatible(w) /\ w = [i EXCEPT !.init = a, !.play = b]
  <2> DEFINE j == [i EXCEPT !.init = numbers[1] % 65536, !.play = numbers[2] % 65536]
  <2>1. WriteInitPlay(i, numbers) = IF Len(numbers) = 2 /\ Compatible(j) THEN {j} ELSE {}
    BY DEF WriteInitPlay
  <2> HIDE DEF j
  <2>2. Len(numbers) = 2 /\ Compatible(w) /\ w = j
    BY <2>1
  <2> QED
    BY <2>2 DEF j
<1>2. a \in Word /\ b \in Word
  BY <1>1, Pair
<1> HIDE DEF a, b
<1>3. i \in Info
  BY WellFields
<1>4. DOMAIN i = Fields /\ {"init", "play"} \subseteq Fields
  BY <1>3, InfoDomain DEF Fields
<1>5. Same(i, w, {"init", "play"}) /\ w.init = a /\ w.play = b
  BY <1>1, <1>4 DEF Same
<1>6. [i EXCEPT !["init"] = a] \in Info /\ w = [[i EXCEPT !["init"] = a] EXCEPT !["play"] = b]
  BY <1>1, <1>2, <1>3 DEF Info
<1>7. w \in Info
  BY <1>2, <1>6 DEF Info
<1>8. Changed(i, w, {"init", "play"})
  BY <1>5, <1>7, ChangedBy
<1> QED
  BY <1>1, <1>5, <1>8 DEF a, b

\* FREEPAGES cuts both to a byte, and makes none of a range that is none.
LEMMA FreePagesWritten ==
    ASSUME NEW i, Well(i), NEW numbers \in Seq(Nat), NEW w \in WriteFreePages(i, numbers)
    PROVE  /\ Changed(i, w, {"startPage", "pages"}) /\ Len(numbers) = 2 /\ Placed(w)
           /\ w.startPage = IF numbers[1] % 256 # 255 /\ numbers[2] % 256 = 0 THEN 0
                            ELSE numbers[1] % 256
           /\ w.pages = IF numbers[1] % 256 = 255 THEN 0 ELSE numbers[2] % 256
<1> DEFINE a == numbers[1] % 256
           b == numbers[2] % 256
           j == [i EXCEPT !["startPage"] = a, !["pages"] = b]
<1>1. Len(numbers) = 2 /\ w \in Relocatable(j)
  BY DEF WriteFreePages
<1>2. a \in Byte /\ b \in Byte
  <2>1. a \in 0..255 /\ b \in 0..255
    BY <1>1, Pair
  <2> QED
    BY <2>1 DEF Byte
<1> HIDE DEF a, b
<1>3. i \in Info
  BY WellFields
<1>4. DOMAIN i = Fields /\ {"startPage", "pages"} \subseteq Fields
  BY <1>3, InfoDomain DEF Fields
<1>5. Same(i, j, {"startPage", "pages"}) /\ j.startPage = a /\ j.pages = b
  BY <1>4 DEF Same
<1>6. /\ [i EXCEPT !["startPage"] = a] \in Info
      /\ j = [[i EXCEPT !["startPage"] = a] EXCEPT !["pages"] = b]
  BY <1>2, <1>3 DEF Info
<1>7. j \in Info
  BY <1>2, <1>6, ChangePages
<1> HIDE DEF j
<1>8. w \in Info /\ Same(j, w, {"startPage", "pages"}) /\ Placed(w)
  BY <1>1, <1>7, RelocatedPlaced
<1>9. Same(i, w, {"startPage", "pages"})
  BY <1>5, <1>8 DEF Same
<1>10. Changed(i, w, {"startPage", "pages"})
  BY <1>8, <1>9, ChangedBy
<1>11. /\ w.startPage = IF a # 255 /\ b = 0 THEN 0 ELSE a
       /\ w.pages = IF a = 255 THEN 0 ELSE b
  <2>1. DOMAIN j = Fields /\ {"startPage", "pages"} \subseteq Fields
    BY <1>4, <1>7, InfoDomain
  <2>2. CASE a = 255
    BY <1>1, <1>5, <2>1, <2>2 DEF Relocatable
  <2>3. CASE a # 255 /\ b = 0
    BY <1>1, <1>5, <2>1, <2>3 DEF Relocatable
  <2>4. CASE a # 255 /\ b # 0
    BY <1>1, <1>5, <2>1, <2>4 DEF Relocatable
  <2> QED
    BY <2>2, <2>3, <2>4
<1> QED
  BY <1>1, <1>8, <1>10, <1>11 DEF a, b

\* MUSPLAYER takes a digit.
LEMMA MusPlayerWritten ==
    ASSUME NEW i, Well(i), NEW digit, NEW w \in WriteMusPlayer(i, digit)
    PROVE  Changed(i, w, {"mus"}) /\ digit \in {"0", "1"} /\ w.mus = (digit = "1")
<1> DEFINE value == (digit = "1")
<1>1. w = [i EXCEPT !["mus"] = value] /\ digit \in {"0", "1"}
  BY DEF WriteMusPlayer
<1>2. value \in BOOLEAN
  OBVIOUS
<1> HIDE DEF value
<1>3. i \in Info
  BY WellFields
<1>4. DOMAIN i = Fields /\ "mus" \in Fields
  BY <1>3, InfoDomain DEF Fields
<1>5. Same(i, w, {"mus"}) /\ w.mus = value
  BY <1>1, <1>4 DEF Same
<1>6. w \in Info
  BY <1>1, <1>2, <1>3 DEF Info
<1>7. Changed(i, w, {"mus"})
  BY <1>5, <1>6, ChangedBy
<1> QED
  BY <1>1, <1>5, <1>7 DEF value

\* PLAYSID takes a digit, and refuses Real C64 tunes.
LEMMA PlaySidWritten ==
    ASSUME NEW i, Well(i), NEW digit, NEW w \in WritePlaySid(i, digit)
    PROVE  /\ Changed(i, w, {"compatibility"}) /\ digit \in {"0", "1"}
           /\ ~ Rsid(i) /\ ~ Rsid(w)
           /\ w.compatibility = IF digit = "1" THEN "PSID" ELSE "C64"
<1> DEFINE value == IF digit = "0" THEN "C64" ELSE "PSID"
<1>1. w = [i EXCEPT !["compatibility"] = value] /\ digit \in {"0", "1"} /\ ~ Rsid(i)
  BY DEF WritePlaySid, Rsid
<1>2. value \in Compatibility
  BY DEF Compatibility
<1>3. value = (IF digit = "1" THEN "PSID" ELSE "C64") /\ value \notin {"R64", "BASIC"}
  BY <1>1
<1> HIDE DEF value
<1>4. i \in Info
  BY WellFields
<1>5. DOMAIN i = Fields /\ "compatibility" \in Fields
  BY <1>4, InfoDomain DEF Fields
<1>6. Same(i, w, {"compatibility"}) /\ w.compatibility = value
  BY <1>1, <1>5 DEF Same
<1>7. w \in Info
  BY <1>1, <1>2, <1>4 DEF Info
<1>8. Changed(i, w, {"compatibility"})
  BY <1>6, <1>7, ChangedBy
<1> QED
  BY <1>1, <1>3, <1>6, <1>8 DEF Rsid

\* CLOCK takes a name.
LEMMA ClockWritten ==
    ASSUME NEW i, Well(i), NEW name, NEW w \in WriteClock(i, name)
    PROVE  Changed(i, w, {"clock"}) /\ name \in DOMAIN ClockNamed /\ w.clock = ClockNamed[name]
<1> DEFINE value == ClockNamed[name]
<1>1. w = [i EXCEPT !["clock"] = value] /\ name \in DOMAIN ClockNamed
  BY DEF WriteClock
<1>2. value \in SUBSET Standard
  BY <1>1 DEF ClockNamed, Standard
<1> HIDE DEF value
<1>3. i \in Info
  BY WellFields
<1>4. DOMAIN i = Fields /\ "clock" \in Fields
  BY <1>3, InfoDomain DEF Fields
<1>5. Same(i, w, {"clock"}) /\ w.clock = value
  BY <1>1, <1>4 DEF Same
<1>6. w \in Info
  BY <1>1, <1>2, <1>3 DEF Info
<1>7. Changed(i, w, {"clock"})
  BY <1>5, <1>6, ChangedBy
<1> QED
  BY <1>1, <1>5, <1>7 DEF value

\* SIDMODEL takes a name, and clears the second and third chip.
LEMMA SidModelWritten ==
    ASSUME NEW i, Well(i), NEW name, NEW w \in WriteSidModel(i, name)
    PROVE  /\ Changed(i, w, {"models"}) /\ name \in DOMAIN ChipNamed
           /\ w.models = [n \in 1..3 |-> IF n = 1 THEN ChipNamed[name] ELSE {}]
<1> DEFINE value == [n \in 1..3 |-> IF n = 1 THEN ChipNamed[name] ELSE {}]
<1>1. w = [i EXCEPT !["models"] = value] /\ name \in DOMAIN ChipNamed
  BY DEF WriteSidModel
<1>2. ChipNamed[name] \in SUBSET Chip
  BY <1>1 DEF ChipNamed, Chip
<1>3. value \in [1..3 -> SUBSET Chip] /\ \A n \in {2, 3} : value[n] = {}
  BY <1>2
<1> HIDE DEF value
<1>4. i \in Info
  BY WellFields
<1>5. DOMAIN i = Fields /\ "models" \in Fields
  BY <1>4, InfoDomain DEF Fields
<1>6. Same(i, w, {"models"}) /\ w.models = value
  BY <1>1, <1>5 DEF Same
<1>7. w \in Info
  BY <1>1, <1>3, <1>4 DEF Info
<1>8. w.version = i.version /\ w.reserved = i.reserved
  BY <1>6 DEF Same, Fields
<1>9. Well(w)
  BY <1>3, <1>6, <1>7, <1>8 DEF Well
<1> QED
  BY <1>1, <1>6, <1>9 DEF value, Changed

FlagFields == {"mus", "compatibility", "clock", "models"}

\* FLAGS does what these four do, for each line that is not starred.
LEMMA FlagsWritten ==
    ASSUME NEW i, Well(i), NEW lines, NEW w \in WriteFlags(i, lines)
    PROVE  /\ Changed(i, w, FlagFields)
           /\ IF lines[1] \in Starred THEN w.mus = i.mus
              ELSE lines[1] \in {"0", "1"} /\ w.mus = (lines[1] = "1")
           /\ IF lines[2] \in Starred THEN w.compatibility = i.compatibility
              ELSE /\ lines[2] \in {"0", "1"} /\ ~ Rsid(i)
                   /\ w.compatibility = IF lines[2] = "1" THEN "PSID" ELSE "C64"
           /\ IF lines[3] \in Starred THEN w.clock = i.clock
              ELSE lines[3] \in DOMAIN ClockNamed /\ w.clock = ClockNamed[lines[3]]
           /\ IF lines[4] \in Starred THEN w.models = i.models
              ELSE /\ lines[4] \in DOMAIN ChipNamed
                   /\ w.models = [n \in 1..3 |-> IF n = 1 THEN ChipNamed[lines[4]] ELSE {}]
<1> DEFINE One == IF lines[1] \in Starred THEN {i} ELSE UNION {WriteMusPlayer(j, lines[1]) : j \in {i}}
           Two == IF lines[2] \in Starred THEN One ELSE UNION {WritePlaySid(j, lines[2]) : j \in One}
           Three == IF lines[3] \in Starred THEN Two ELSE UNION {WriteClock(j, lines[3]) : j \in Two}
           Four == IF lines[4] \in Starred THEN Three
                   ELSE UNION {WriteSidModel(j, lines[4]) : j \in Three}
<1>1. w \in Four
  BY DEF WriteFlags
<1>2. PICK c \in Three : IF lines[4] \in Starred THEN w = c ELSE w \in WriteSidModel(c, lines[4])
  BY <1>1
<1> HIDE DEF Four
<1>3. PICK b \in Two : IF lines[3] \in Starred THEN c = b ELSE c \in WriteClock(b, lines[3])
  BY <1>2
<1> HIDE DEF Three
<1>4. PICK a \in One : IF lines[2] \in Starred THEN b = a ELSE b \in WritePlaySid(a, lines[2])
  BY <1>3
<1> HIDE DEF Two
<1>5. IF lines[1] \in Starred THEN a = i ELSE a \in WriteMusPlayer(i, lines[1])
  BY <1>4
<1> HIDE DEF One
<1>6. /\ Changed(i, a, {"mus"})
      /\ IF lines[1] \in Starred THEN a.mus = i.mus
         ELSE lines[1] \in {"0", "1"} /\ a.mus = (lines[1] = "1")
  BY <1>5, MusPlayerWritten DEF Changed, Same
<1>7. /\ Changed(a, b, {"compatibility"})
      /\ IF lines[2] \in Starred THEN b.compatibility = a.compatibility
         ELSE /\ lines[2] \in {"0", "1"} /\ ~ Rsid(a)
              /\ b.compatibility = IF lines[2] = "1" THEN "PSID" ELSE "C64"
  <2>1. Well(a)
    BY <1>6 DEF Changed
  <2> QED
    BY <1>4, <2>1, PlaySidWritten DEF Changed, Same
<1>8. /\ Changed(b, c, {"clock"})
      /\ IF lines[3] \in Starred THEN c.clock = b.clock
         ELSE lines[3] \in DOMAIN ClockNamed /\ c.clock = ClockNamed[lines[3]]
  <2>1. Well(b)
    BY <1>7 DEF Changed
  <2> QED
    BY <1>3, <2>1, ClockWritten DEF Changed, Same
<1>9. /\ Changed(c, w, {"models"})
      /\ IF lines[4] \in Starred THEN w.models = c.models
         ELSE /\ lines[4] \in DOMAIN ChipNamed
              /\ w.models = [n \in 1..3 |-> IF n = 1 THEN ChipNamed[lines[4]] ELSE {}]
  <2>1. Well(c)
    BY <1>8 DEF Changed
  <2> QED
    BY <1>2, <2>1, SidModelWritten DEF Changed, Same
<1>10. Changed(i, w, FlagFields)
  BY <1>6, <1>7, <1>8, <1>9 DEF Changed, Same, FlagFields
<1>11. /\ w.mus = a.mus /\ a.compatibility = i.compatibility /\ w.compatibility = b.compatibility
       /\ w.clock = c.clock /\ b.clock = i.clock /\ c.models = i.models
  BY <1>6, <1>7, <1>8, <1>9 DEF Changed, Same, Fields
<1>12. Rsid(a) <=> Rsid(i)
  BY <1>11 DEF Rsid
<1> QED
  BY <1>6, <1>7, <1>8, <1>9, <1>10, <1>11, <1>12

\* FIXLOAD drops two bytes and loads the rest where they were.
LEMMA FixLoadWritten ==
    ASSUME NEW i, Well(i), i.length >= 2, NEW w \in FixLoad(i)
    PROVE  /\ Changed(i, w, {"load", "dropped", "length"})
           /\ w.load = (i.load + 2) % 65536 /\ w.dropped = i.dropped + 2
           /\ w.length = i.length - 2
<1> DEFINE a == (i.load + 2) % 65536
           b == i.dropped + 2
           c == i.length - 2
<1>1. w = [i EXCEPT !.load = a, !.dropped = b, !.length = c]
  BY DEF FixLoad
<1>2. i \in Info
  BY WellFields
<1>3. a \in Word /\ b \in Nat /\ c \in Nat
  <2>1. i.load \in Nat
    BY <1>2, InfoNumbers, Words
  <2>2. a \in Word
    BY <2>1, Words
  <2>3. i.dropped \in Nat /\ i.length \in Nat
    BY <1>2, InfoRest
  <2> QED
    BY <2>2, <2>3
<1> HIDE DEF a, b, c
<1>4. DOMAIN i = Fields /\ {"load", "dropped", "length"} \subseteq Fields
  BY <1>2, InfoDomain DEF Fields
<1>5. Same(i, w, {"load", "dropped", "length"}) /\ w.load = a /\ w.dropped = b /\ w.length = c
  BY <1>1, <1>4 DEF Same
<1> DEFINE j == [i EXCEPT !["load"] = a]
           k == [j EXCEPT !["dropped"] = b]
<1>6. j \in Info
  BY <1>2, <1>3 DEF Info
<1>7. w = [k EXCEPT !["length"] = c]
  BY <1>1, <1>4
<1> HIDE DEF j
<1>8. k \in Info
  BY <1>3, <1>6 DEF Info
<1> HIDE DEF k
<1>9. w \in Info
  BY <1>3, <1>7, <1>8 DEF Info
<1>10. Changed(i, w, {"load", "dropped", "length"})
  BY <1>5, <1>9, ChangedBy
<1> QED
  BY <1>5, <1>10 DEF a, b, c

Texts == {"TITLE", "AUTHOR", "RELEASED"}

\* What follows each keyword.
LEMMA CommandKinds ==
    ASSUME NEW c \in Command
    PROVE  \/ c.keyword \in Texts /\ c.value \in STRING
           \/ c.keyword = "CREDITS" /\ c.value \in [1..3 -> STRING]
           \/ c.keyword = "SPEED" /\ c.value \in SUBSET (0..31)
           \/ c.keyword = "SONGS" /\ c.value \in Seq(Nat)
           \/ c.keyword = "INITPLAY" /\ c.value \in Seq(Nat)
           \/ c.keyword = "FREEPAGES" /\ c.value \in Seq(Nat)
           \/ c.keyword = "MUSPLAYER"
           \/ c.keyword = "PLAYSID"
           \/ c.keyword = "CLOCK"
           \/ c.keyword = "SIDMODEL"
           \/ c.keyword = "FLAGS"
           \/ c.keyword = "FIXLOAD"
BY CommandAssumption DEF Texts

\* writeToSidTune, keyword by keyword.
LEMMA WriteIs ==
    ASSUME NEW i, NEW c
    PROVE  /\ c.keyword \in Texts => Write(i, c) = WriteCredit(i, CreditOf[c.keyword], c.value)
           /\ c.keyword = "CREDITS" => Write(i, c) = WriteCredits(i, c.value)
           /\ c.keyword = "SPEED" => Write(i, c) = WriteSpeed(i, c.value)
           /\ c.keyword = "SONGS" => Write(i, c) = WriteSongs(i, c.value)
           /\ c.keyword = "INITPLAY" => Write(i, c) = WriteInitPlay(i, c.value)
           /\ c.keyword = "FREEPAGES" => Write(i, c) = WriteFreePages(i, c.value)
           /\ c.keyword = "MUSPLAYER" => Write(i, c) = WriteMusPlayer(i, c.value)
           /\ c.keyword = "PLAYSID" => Write(i, c) = WritePlaySid(i, c.value)
           /\ c.keyword = "CLOCK" => Write(i, c) = WriteClock(i, c.value)
           /\ c.keyword = "SIDMODEL" => Write(i, c) = WriteSidModel(i, c.value)
           /\ c.keyword = "FLAGS" => Write(i, c) = WriteFlags(i, c.value)
           /\ c.keyword = "FIXLOAD" => Write(i, c) = FixLoad(i)
<1>1. DOMAIN CreditOf = Texts
  BY DEF CreditOf, Texts
<1>2. c.keyword \in Texts => Write(i, c) = WriteCredit(i, CreditOf[c.keyword], c.value)
  BY <1>1 DEF Write, Texts
<1>3. /\ c.keyword = "CREDITS" => Write(i, c) = WriteCredits(i, c.value)
      /\ c.keyword = "SPEED" => Write(i, c) = WriteSpeed(i, c.value)
      /\ c.keyword = "SONGS" => Write(i, c) = WriteSongs(i, c.value)
  BY <1>1 DEF Write, Texts
<1>4. /\ c.keyword = "INITPLAY" => Write(i, c) = WriteInitPlay(i, c.value)
      /\ c.keyword = "FREEPAGES" => Write(i, c) = WriteFreePages(i, c.value)
      /\ c.keyword = "MUSPLAYER" => Write(i, c) = WriteMusPlayer(i, c.value)
  BY <1>1 DEF Write, Texts
<1>5. /\ c.keyword = "PLAYSID" => Write(i, c) = WritePlaySid(i, c.value)
      /\ c.keyword = "CLOCK" => Write(i, c) = WriteClock(i, c.value)
      /\ c.keyword = "SIDMODEL" => Write(i, c) = WriteSidModel(i, c.value)
  BY <1>1 DEF Write, Texts
<1>6. /\ c.keyword = "FLAGS" => Write(i, c) = WriteFlags(i, c.value)
      /\ c.keyword = "FIXLOAD" => Write(i, c) = FixLoad(i)
  BY <1>1 DEF Write, Texts
<1> QED
  BY <1>2, <1>3, <1>4, <1>5, <1>6

\* The fields that writeToSidTune assigns to.
Touched(keyword) ==
    CASE keyword \in Texts \cup {"CREDITS"} -> {"credits"}
      [] keyword = "SPEED" -> {"speed"}
      [] keyword = "SONGS" -> {"songs", "start"}
      [] keyword = "INITPLAY" -> {"init", "play"}
      [] keyword = "FREEPAGES" -> {"startPage", "pages"}
      [] keyword = "MUSPLAYER" -> {"mus"}
      [] keyword = "PLAYSID" -> {"compatibility"}
      [] keyword = "CLOCK" -> {"clock"}
      [] keyword = "SIDMODEL" -> {"models"}
      [] keyword = "FLAGS" -> FlagFields
      [] keyword = "FIXLOAD" -> {"load", "dropped", "length"}

\* A tune fits its machine as long as five fields are as they were ...
LEMMA CompatibleKept ==
    ASSUME NEW i, NEW w, Compatible(i), NEW names, Same(i, w, names),
           names \cap {"compatibility", "init", "play", "load", "length"} = {}
    PROVE  Compatible(w)
<1>1. /\ w.compatibility = i.compatibility /\ w.init = i.init /\ w.play = i.play
      /\ w.load = i.load /\ w.length = i.length
  BY DEF Same, Fields
<1> QED
  BY <1>1, CompatibleSame

\* ... and its pages as long as four are.
LEMMA PlacedKept ==
    ASSUME NEW i, NEW w, NEW names, Same(i, w, names),
           names \cap {"startPage", "pages", "load", "length"} = {}
    PROVE  Placed(i) => Placed(w)
<1>1. w.startPage = i.startPage /\ w.pages = i.pages /\ w.load = i.load /\ w.length = i.length
  BY DEF Same, Fields
<1> QED
  BY <1>1, PlacedSame

\* Only Real C64 tunes have to fit anything.
LEMMA NoRsid ==
    ASSUME NEW i, ~ Rsid(i)
    PROVE  Compatible(i)
BY DEF Rsid, Compatible

\* Whatever the command is: it changes its fields and no others, and what it leaves
\* can be loaded and moved where the tune could.
LEMMA Written ==
    ASSUME NEW i, Well(i), Compatible(i), NEW c \in Command, NEW w \in Write(i, c),
           c.keyword = "FIXLOAD" => i.length >= 2
    PROVE  /\ Changed(i, w, Touched(c.keyword))
           /\ c.keyword # "FIXLOAD" => Compatible(w) /\ (Placed(i) => Placed(w))
<1> USE DEF Touched, Texts
<1>1. CASE c.keyword \in Texts /\ c.value \in STRING
  <2>1. w \in WriteCredit(i, CreditOf[c.keyword], c.value) /\ CreditOf[c.keyword] \in 1..3
    BY <1>1, WriteIs DEF CreditOf
  <2>2. Changed(i, w, {"credits"})
    BY <1>1, <2>1, CreditWritten
  <2> QED
    BY <1>1, <2>2, CompatibleKept, PlacedKept DEF Changed
<1>2. CASE c.keyword = "CREDITS" /\ c.value \in [1..3 -> STRING]
  <2>1. w \in WriteCredits(i, c.value)
    BY <1>2, WriteIs
  <2>2. Changed(i, w, {"credits"})
    BY <1>2, <2>1, CreditsWritten
  <2> QED
    BY <1>2, <2>2, CompatibleKept, PlacedKept DEF Changed
<1>3. CASE c.keyword = "SPEED"
  <2>1. Changed(i, w, {"speed"})
    BY <1>3, WriteIs, SpeedWritten
  <2> QED
    BY <1>3, <2>1, CompatibleKept, PlacedKept DEF Changed
<1>4. CASE c.keyword = "SONGS" /\ c.value \in Seq(Nat)
  <2>1. Changed(i, w, {"songs", "start"})
    BY <1>4, WriteIs, SongsWritten
  <2> QED
    BY <1>4, <2>1, CompatibleKept, PlacedKept DEF Changed
<1>5. CASE c.keyword = "INITPLAY" /\ c.value \in Seq(Nat)
  <2>1. Changed(i, w, {"init", "play"}) /\ Compatible(w)
    BY <1>5, WriteIs, InitPlayWritten
  <2> QED
    BY <1>5, <2>1, PlacedKept DEF Changed
<1>6. CASE c.keyword = "FREEPAGES" /\ c.value \in Seq(Nat)
  <2>1. Changed(i, w, {"startPage", "pages"}) /\ Placed(w)
    BY <1>6, WriteIs, FreePagesWritten
  <2> QED
    BY <1>6, <2>1, CompatibleKept DEF Changed
<1>7. CASE c.keyword = "MUSPLAYER"
  <2>1. Changed(i, w, {"mus"})
    BY <1>7, WriteIs, MusPlayerWritten
  <2> QED
    BY <1>7, <2>1, CompatibleKept, PlacedKept DEF Changed
<1>8. CASE c.keyword = "PLAYSID"
  <2>1. Changed(i, w, {"compatibility"}) /\ ~ Rsid(w)
    BY <1>8, WriteIs, PlaySidWritten
  <2> QED
    BY <1>8, <2>1, NoRsid, PlacedKept DEF Changed
<1>9. CASE c.keyword = "CLOCK"
  <2>1. Changed(i, w, {"clock"})
    BY <1>9, WriteIs, ClockWritten
  <2> QED
    BY <1>9, <2>1, CompatibleKept, PlacedKept DEF Changed
<1>10. CASE c.keyword = "SIDMODEL"
  <2>1. w \in WriteSidModel(i, c.value)
    BY <1>10, WriteIs
  <2>2. Changed(i, w, {"models"})
    BY <2>1, SidModelWritten
  <2> QED
    BY <1>10, <2>2, CompatibleKept, PlacedKept DEF Changed
<1>11. CASE c.keyword = "FLAGS"
  <2>1. Changed(i, w, FlagFields) /\ (w.compatibility = i.compatibility \/ ~ Rsid(w))
    <3>1. w \in WriteFlags(i, c.value)
      BY <1>11, WriteIs
    <3>2. Changed(i, w, FlagFields)
      BY <3>1, FlagsWritten
    <3>3. w.compatibility = i.compatibility \/ w.compatibility \in {"PSID", "C64"}
      <4> DEFINE line == c.value[2]
      <4>1. IF line \in Starred THEN w.compatibility = i.compatibility
            ELSE /\ line \in {"0", "1"} /\ ~ Rsid(i)
                 /\ w.compatibility = IF line = "1" THEN "PSID" ELSE "C64"
        BY <3>1, FlagsWritten
      <4> HIDE DEF line
      <4> QED
        BY <4>1
    <3> QED
      BY <3>2, <3>3 DEF Rsid
  <2>2. /\ w.init = i.init /\ w.play = i.play /\ w.load = i.load /\ w.length = i.length
        /\ w.startPage = i.startPage /\ w.pages = i.pages
    BY <2>1 DEF Changed, Same, FlagFields, Fields
  <2>3. Compatible(w)
    BY <2>1, <2>2, NoRsid, CompatibleSame
  <2>4. Placed(i) => Placed(w)
    BY <2>2, PlacedSame
  <2> QED
    BY <1>11, <2>1, <2>3, <2>4
<1>12. CASE c.keyword = "FIXLOAD"
  <2>1. Changed(i, w, {"load", "dropped", "length"})
    BY <1>12, WriteIs, FixLoadWritten
  <2> QED
    BY <1>12, <2>1
<1> QED
  BY <1>1, <1>2, <1>3, <1>4, <1>5, <1>6, <1>7, <1>8, <1>9, <1>10, <1>11, <1>12, CommandKinds

-----------------------------------------------------------------------------
(* The process.                                                            *)

\* Where the data of an object are, compared with the original tune.
InPlace(i) ==
    LET then == Parsed(original)
    IN  /\ (i.load - i.dropped) % 65536 = (then.load - then.dropped) % 65536
        /\ i.dropped >= then.dropped
        /\ i.dropped + i.length <= then.dropped + then.length

\* The bytes the commands that are left can take.
Remaining == 2 * (MaxCommands - executed)

\* While a tune is being saved, the object is what the command made of the file
\* it was loaded from.
SavingShape ==
    pc = "saving" =>
      /\ tune = Empty /\ before \in File /\ cmd \in Command /\ outcome = "none"
      /\ info \in Info /\ info.length > Remaining /\ InPlace(info)
      /\ \E i \in Load(before, v2ng) : i.length > 2 /\ info \in Write(i, cmd)

\* A tune that has been saved is what a command has made of a file.
SavedShape ==
    outcome = "saved" =>
      /\ cmd \in Command
      /\ \E f \in File : \E i \in Load(f, v2ng) : \E w \in Write(i, cmd) :
           i.length > 2 /\ tune = Saved(w, v2ng)

TuneShape ==
    /\ tune \in File \cup {Empty}
    /\ tune # Empty => tune.length > Remaining /\ InPlace(Parsed(tune))

Inv ==
    /\ v2ng \in BOOLEAN
    /\ pc \in {"idle", "saving", "killed"}
    /\ cmd \in Command \cup {NoCommand}
    /\ pc # "saving" => info = NoInfo
    /\ outcome \in {"none", "error", "saved", "unnoticed"}
    /\ executed \in 0..MaxCommands
    /\ original \in Collection
    /\ TuneShape
    /\ SavingShape
    /\ SavedShape

\* The invariant has the types in it.
LEMMA InvTypes ==
    ASSUME Inv
    PROVE  TypeOK
<1>1. \A c \in Command : c # NoCommand
  BY CommandAssumption DEF NoCommand
<1>2. \A i \in Info : i # NoInfo
  <2>1. ASSUME NEW i \in Info PROVE i # NoInfo
    <3>1. i.compatibility \in {"C64", "PSID", "R64", "BASIC"}
      BY InfoNumbers DEF Compatibility
    <3> QED
      BY <3>1 DEF NoInfo
  <2> QED
    BY <2>1
<1>3. pc = "saving" => /\ tune = Empty /\ before \in File /\ cmd # NoCommand
                       /\ info \in Info /\ info # NoInfo
  BY <1>1, <1>2 DEF Inv, SavingShape
<1>4. tune \in File \cup {Empty}
  BY DEF Inv, TuneShape
<1> QED
  BY <1>3, <1>4 DEF Inv, TypeOK

\* A tune of the collection has its data where they belong.
LEMMA InvInit ==
    ASSUME Init
    PROVE  Inv
<1>1. tune \in File /\ Enough(tune.length) /\ original = tune /\ original \in Collection
  BY CollectionAssumption DEF Init
<1>2. tune.length > Remaining
  <2>1. executed = 0 /\ tune.length > 2 * MaxCommands
    BY <1>1 DEF Init, Enough
  <2> QED
    BY <2>1, BoundAssumption DEF Remaining
<1>3. InPlace(Parsed(tune))
  <2>1. Parsed(tune) \in Info
    BY <1>1, ParsedWell, WellFields
  <2>2. Parsed(tune).dropped \in Nat /\ Parsed(tune).length \in Nat
    BY <2>1, InfoRest
  <2> QED
    BY <1>1, <2>2 DEF InPlace
<1>4. executed \in 0..MaxCommands
  BY BoundAssumption DEF Init
<1>5. TuneShape
  BY <1>1, <1>2, <1>3 DEF TuneShape
<1>6. SavingShape /\ SavedShape
  BY DEF Init, SavingShape, SavedShape
<1> QED
  BY <1>1, <1>4, <1>5, <1>6 DEF Init, Inv

\* What a command does to where the data are.
LEMMA WrittenInPlace ==
    ASSUME Inv, NEW i, Well(i), Compatible(i), InPlace(i), i.length > Remaining, i.length > 2,
           executed < MaxCommands,
           NEW c \in Command, NEW w \in Write(i, c)
    PROVE  InPlace(w) /\ w.length > Remaining - 2 /\ w.length > 0
<1>1. i \in Info
  BY WellFields
<1>2. i.load \in Nat /\ i.dropped \in Nat /\ i.length \in Nat
  BY <1>1, InfoNumbers, InfoRest, Words
<1>3. Parsed(original) \in Info
  BY ParsedWell, WellFields, CollectionAssumption DEF Inv
<1>4. /\ Parsed(original).load \in Nat /\ Parsed(original).dropped \in Nat
      /\ Parsed(original).length \in Nat
  BY <1>3, InfoNumbers, InfoRest, Words
<1>5. Remaining \in Int
  BY BoundAssumption DEF Inv, Remaining
<1>6. CASE c.keyword = "FIXLOAD"
  <2>1. /\ w.load = (i.load + 2) % 65536 /\ w.dropped = i.dropped + 2
        /\ w.length = i.length - 2
    BY <1>2, <1>6, WriteIs, FixLoadWritten
  <2>2. (w.load - w.dropped) % 65536 = (i.load - i.dropped) % 65536
    BY <1>2, <2>1
  <2>3. w.dropped >= i.dropped /\ w.dropped + w.length = i.dropped + i.length
    BY <1>2, <2>1
  <2>4. w.length > Remaining - 2 /\ w.length > 0
    BY <1>2, <1>5, <2>1
  <2>5. w.dropped \in Nat /\ w.length \in Nat
    BY <1>2, <2>1
  <2> QED
    BY <1>2, <1>4, <2>2, <2>3, <2>4, <2>5 DEF InPlace
<1>7. CASE c.keyword # "FIXLOAD"
  <2>1. Changed(i, w, Touched(c.keyword))
    BY <1>7, Written
  <2>2. {"load", "dropped", "length"} \cap Touched(c.keyword) = {}
    BY <1>7, CommandKinds DEF Touched, FlagFields
  <2>3. w.load = i.load /\ w.dropped = i.dropped /\ w.length = i.length
    BY <2>1, <2>2 DEF Changed, Same, Fields
  <2> QED
    BY <1>2, <1>5, <2>3 DEF InPlace
<1> QED
  BY <1>6, <1>7

\* A tune that can be found is loaded to where it is.
LEMMA LoadedInPlace ==
    ASSUME Inv, tune # Empty, executed < MaxCommands, NEW i \in Load(tune, v2ng)
    PROVE  /\ tune \in File /\ Well(i) /\ Compatible(i) /\ InPlace(i)
           /\ i.length > Remaining /\ i.length > 2
<1>1. tune \in File /\ tune.length > Remaining /\ InPlace(Parsed(tune)) /\ v2ng \in BOOLEAN
  BY DEF Inv, TuneShape
<1>2. /\ Well(i) /\ Compatible(i)
      /\ Same(Parsed(tune), i, {"songs", "start", "startPage", "pages"})
  BY <1>1, Loaded
<1>3. /\ i.load = Parsed(tune).load /\ i.dropped = Parsed(tune).dropped
      /\ i.length = Parsed(tune).length
  BY <1>2 DEF Same, Fields
<1>4. i.length = tune.length /\ i.length \in Nat
  BY <1>1, <1>3, ParsedRest, FileRest
<1>5. InPlace(i)
  BY <1>1, <1>3 DEF InPlace
<1>6. Remaining >= 2
  BY BoundAssumption DEF Inv, Remaining
<1>7. Remaining \in Int
  BY BoundAssumption DEF Inv, Remaining
<1> QED
  BY <1>1, <1>2, <1>4, <1>5, <1>6, <1>7

\* A command that is executed leaves the file as it was, or an object for it.
LEMMA ExecuteStep ==
    ASSUME Inv, NEW command \in Command, Execute(command)
    PROVE  Inv'
<1>1. /\ pc = "idle" /\ executed < MaxCommands /\ executed' = executed + 1
      /\ UNCHANGED <<v2ng, original>>
  BY DEF Execute
<1>2. executed' \in 0..MaxCommands /\ Remaining' = Remaining - 2
      /\ Remaining \in Int
  BY <1>1, BoundAssumption DEF Inv, Remaining
<1>3. CASE LogError(command)
  <2>1. /\ outcome' = "error" /\ cmd' = command /\ UNCHANGED <<tune, pc, info, before>>
    BY <1>3 DEF LogError
  <2>2. TuneShape'
    <3>1. tune' \in File \cup {Empty}
      BY <2>1 DEF Inv, TuneShape
    <3>2. ASSUME tune' # Empty PROVE tune'.length > Remaining' /\ InPlace(Parsed(tune))'
      <4>1. tune \in File /\ tune.length > Remaining /\ InPlace(Parsed(tune))
        BY <2>1, <3>2 DEF Inv, TuneShape
      <4>2. tune.length \in Nat
        BY <4>1, FileRest
      <4>3. tune'.length > Remaining'
        BY <1>2, <2>1, <4>1, <4>2
      <4>4. InPlace(Parsed(tune))'
        BY <1>1, <2>1, <4>1 DEF InPlace
      <4> QED
        BY <4>3, <4>4
    <3> QED
      BY <3>1, <3>2 DEF TuneShape
  <2>3. SavingShape' /\ SavedShape'
    BY <1>1, <2>1 DEF SavingShape, SavedShape
  <2> QED
    BY <1>1, <1>2, <2>1, <2>2, <2>3 DEF Inv
<1>4. CASE ~ LogError(command)
  <2>1. PICK i \in UNION {Write(j, command) : j \in Load(tune, v2ng)} :
          /\ info' = i /\ before' = tune /\ tune' = Empty /\ pc' = "saving"
          /\ cmd' = command /\ outcome' = "none"
    BY <1>4 DEF Execute
  <2>2. PICK j \in Load(tune, v2ng) : i \in Write(j, command)
    BY <2>1
  <2>3. tune # Empty
    BY <2>2, NothingLoaded
  <2>4. /\ tune \in File /\ Well(j) /\ Compatible(j) /\ InPlace(j)
        /\ j.length > Remaining /\ j.length > 2
    BY <1>1, <2>2, <2>3, LoadedInPlace
  <2>5. InPlace(i) /\ i.length > Remaining - 2
    BY <1>1, <2>2, <2>4, WrittenInPlace
  <2>6. Well(i)
    <3>1. j.length >= 2
      <4>1. j.length \in Nat
        BY <2>4, WellFields, InfoRest
      <4> QED
        BY <2>4, <4>1
    <3>2. Changed(j, i, Touched(command.keyword))
      BY <2>2, <2>4, <3>1, Written
    <3> QED
      BY <3>2 DEF Changed
  <2>7. i \in Info
    BY <2>6, WellFields
  <2>8. InPlace(info)'
    BY <1>1, <2>1, <2>5 DEF InPlace
  <2>9. SavingShape'
    <3>1. tune' = Empty /\ before' \in File /\ cmd' \in Command /\ outcome' = "none"
      BY <2>1, <2>4
    <3>2. info' \in Info /\ info'.length > Remaining' /\ InPlace(info)'
      BY <1>2, <2>1, <2>5, <2>7, <2>8
    <3>3. \E k \in Load(before', v2ng') : k.length > 2 /\ info' \in Write(k, cmd')
      BY <1>1, <2>1, <2>2, <2>4
    <3> QED
      BY <3>1, <3>2, <3>3 DEF SavingShape
  <2>10. TuneShape' /\ SavedShape'
    BY <2>1 DEF TuneShape, SavedShape
  <2> QED
    BY <1>1, <1>2, <2>1, <2>9, <2>10 DEF Inv
<1> QED
  BY <1>3, <1>4

\* The object that is being saved.
LEMMA SavedObject ==
    ASSUME Inv, pc = "saving"
    PROVE  /\ Well(info) /\ InPlace(info) /\ info.length > Remaining /\ info.length \in Nat \ {0}
           /\ Remaining \in Nat
<1>1. Remaining \in Nat
  BY BoundAssumption DEF Inv, Remaining
<1>2. /\ before \in File /\ cmd \in Command /\ v2ng \in BOOLEAN
      /\ info \in Info /\ info.length > Remaining /\ InPlace(info)
  BY DEF Inv, SavingShape
<1>3. PICK i \in Load(before, v2ng) : i.length > 2 /\ info \in Write(i, cmd)
  BY DEF Inv, SavingShape
<1>4. Well(i) /\ Compatible(i)
  BY <1>2, Loaded
<1>5. i.length >= 2
  <2>1. i.length \in Nat
    BY <1>4, WellFields, InfoRest
  <2> QED
    BY <1>3, <2>1
<1>6. Well(info)
  <2>1. Changed(i, info, Touched(cmd.keyword))
    BY <1>2, <1>3, <1>4, <1>5, Written
  <2> QED
    BY <2>1 DEF Changed
<1>7. info.length \in Nat \ {0}
  <2>1. info.length \in Nat
    BY <1>2, InfoRest
  <2> QED
    BY <1>1, <1>2, <2>1
<1> QED
  BY <1>1, <1>2, <1>6, <1>7

\* The file that is written is in place, and so is as much of it as gets to the disk.
LEMMA FileInPlace ==
    ASSUME Inv, pc = "saving"
    PROVE  /\ Saved(info, v2ng) \in File /\ InPlace(Parsed(Saved(info, v2ng)))
           /\ Saved(info, v2ng).length = info.length
<1>1. v2ng \in BOOLEAN /\ Well(info) /\ InPlace(info) /\ info.length \in Nat \ {0}
  BY SavedObject DEF Inv
<1>2. info \in Info
  BY <1>1, WellFields
<1>3. Saved(info, v2ng) \in File
  <2>1. info.length > 0
    BY <1>1
  <2> QED
    BY <1>1, <1>2, <2>1, SavedType
<1>4. InPlace(Parsed(Saved(info, v2ng)))
  BY <1>1, ReparsedNumbers, ReparsedRest DEF InPlace
<1> QED
  BY <1>3, <1>4, SavedRest

\* A file with less data is a file, and loads to where it did.
LEMMA CutType ==
    ASSUME NEW f \in File, NEW n \in Nat \ {0}
    PROVE  /\ [f EXCEPT !.length = n] \in File
           /\ Parsed([f EXCEPT !.length = n]).load = Parsed(f).load
           /\ Parsed([f EXCEPT !.length = n]).dropped = Parsed(f).dropped
           /\ Parsed([f EXCEPT !.length = n]).length = n
           /\ [f EXCEPT !.length = n].length = n
<1> DEFINE g == [f EXCEPT !.length = n]
<1>1. g \in File
  BY DEF File
<1>2. g.load = f.load /\ g.origin = f.origin /\ g.dropped = f.dropped /\ g.length = n
  BY DEF File
<1> HIDE DEF g
<1>3. Parsed(g).load = Parsed(f).load
  BY <1>2, ParsedNumbers
<1>4. Parsed(g).dropped = Parsed(f).dropped /\ Parsed(g).length = n
  BY <1>2, ParsedRest
<1> QED
  BY <1>1, <1>2, <1>3, <1>4 DEF g

\* So what a kill leaves is in place.
LEMMA CutInPlace ==
    ASSUME Inv, pc = "saving", Cut, UNCHANGED <<original, executed>>
    PROVE  TuneShape'
<1>1. /\ Saved(info, v2ng) \in File /\ InPlace(Parsed(Saved(info, v2ng)))
      /\ Saved(info, v2ng).length = info.length
  BY FileInPlace
<1>2. Remaining' = Remaining
  BY DEF Remaining
<1>3. CASE UNCHANGED tune
  <2>1. tune' = Empty
    BY <1>3 DEF Inv, SavingShape
  <2> QED
    BY <2>1 DEF TuneShape
<1>4. ASSUME NEW n \in Length, n < info.length,
             tune' = [Saved(info, v2ng) EXCEPT !.length = n]
      PROVE  TuneShape'
  <2> DEFINE f == Saved(info, v2ng)
             g == [f EXCEPT !.length = n]
  <2>1. n \in Nat \ {0} /\ n > Remaining
    <3>1. n \in Nat /\ n > 2 * MaxCommands
      BY LengthAssumption DEF Enough
    <3>2. executed \in 0..MaxCommands
      BY DEF Inv
    <3> QED
      BY <3>1, <3>2, BoundAssumption DEF Remaining
  <2>2. /\ g \in File /\ g.length = n /\ Parsed(g).load = Parsed(f).load
        /\ Parsed(g).dropped = Parsed(f).dropped /\ Parsed(g).length = n
    BY <1>1, <2>1, CutType
  <2>3. InPlace(Parsed(g))
    <3>1. Parsed(f).length = info.length /\ info.length \in Nat
      BY <1>1, ParsedRest, SavedObject
    <3>2. Parsed(f).dropped \in Nat
      BY <1>1, ParsedWell, WellFields, InfoRest
    <3>3. Parsed(original).dropped \in Nat /\ Parsed(original).length \in Nat
      BY ParsedWell, WellFields, InfoRest, CollectionAssumption DEF Inv
    <3> HIDE DEF f, g
    <3>4. Parsed(g).dropped + Parsed(g).length <= Parsed(original).dropped + Parsed(original).length
      <4>1. Parsed(f).dropped + Parsed(f).length
              <= Parsed(original).dropped + Parsed(original).length
        BY <1>1 DEF InPlace, f
      <4> QED
        BY <1>4, <2>1, <2>2, <3>1, <3>2, <3>3, <4>1
    <3> QED
      BY <1>1, <2>2, <3>4 DEF InPlace, f
  <2>4. tune' = g
    BY <1>4
  <2> HIDE DEF f, g
  <2>5. InPlace(Parsed(tune))'
    BY <2>3, <2>4 DEF InPlace
  <2> QED
    BY <1>2, <2>1, <2>2, <2>4, <2>5 DEF TuneShape
<1> QED
  BY <1>3, <1>4 DEF Cut

\* Commands, saves, failed writes, kills and new runs keep the invariant.
LEMMA InvStep == Inv /\ [Next]_vars => Inv'
<1> SUFFICES ASSUME Inv, [Next]_vars PROVE Inv'
  OBVIOUS
<1>1. ASSUME NEW command \in Command, Execute(command) PROVE Inv'
  BY <1>1, ExecuteStep
<1>2. CASE Save
  <2>1. /\ pc = "saving" /\ tune' = Saved(info, v2ng) /\ pc' = "idle" /\ outcome' = "saved"
        /\ info' = NoInfo /\ UNCHANGED <<v2ng, cmd, executed, original>>
    BY <1>2 DEF Save, Discard
  <2>2. /\ Saved(info, v2ng) \in File /\ InPlace(Parsed(Saved(info, v2ng)))
        /\ Saved(info, v2ng).length > Remaining
    BY <2>1, FileInPlace, SavedObject
  <2>3. TuneShape'
    <3>1. Remaining' = Remaining
      BY <2>1 DEF Remaining
    <3>2. InPlace(Parsed(tune))'
      BY <2>1, <2>2 DEF InPlace
    <3> QED
      BY <2>1, <2>2, <3>1, <3>2 DEF TuneShape
  <2>4. SavingShape'
    BY <2>1 DEF SavingShape
  <2>5. SavedShape'
    <3>1. /\ before \in File /\ cmd \in Command
          /\ \E i \in Load(before, v2ng) : i.length > 2 /\ info \in Write(i, cmd)
      BY <2>1 DEF Inv, SavingShape
    <3> QED
      BY <2>1, <3>1 DEF SavedShape
  <2> QED
    BY <2>1, <2>3, <2>4, <2>5 DEF Inv
<1>3. CASE WriteFails
  <2>1. /\ pc = "saving" /\ Cut /\ pc' = "idle" /\ outcome' \in {"error", "unnoticed"}
        /\ info' = NoInfo /\ UNCHANGED <<v2ng, cmd, executed, original>>
    BY <1>3 DEF WriteFails, Discard
  <2>2. TuneShape'
    BY <2>1, CutInPlace
  <2>3. SavingShape' /\ SavedShape'
    BY <2>1 DEF SavingShape, SavedShape
  <2> QED
    BY <2>1, <2>2, <2>3 DEF Inv
<1>4. CASE Kill
  <2>1. /\ pc = "saving" /\ Cut /\ pc' = "killed" /\ cmd' = NoCommand
        /\ info' = NoInfo /\ UNCHANGED <<v2ng, outcome, executed, original>>
    BY <1>4 DEF Kill, Discard
  <2>2. TuneShape'
    BY <2>1, CutInPlace
  <2>3. outcome = "none"
    BY <2>1 DEF Inv, SavingShape
  <2>4. SavingShape' /\ SavedShape'
    BY <2>1, <2>3 DEF SavingShape, SavedShape
  <2> QED
    BY <2>1, <2>2, <2>4 DEF Inv
<1>5. CASE StartRun
  <2>1. /\ pc # "saving" /\ v2ng' \in BOOLEAN /\ pc' = "idle" /\ cmd' = NoCommand
        /\ outcome' = "none" /\ UNCHANGED <<tune, info, before, executed, original>>
    BY <1>5 DEF StartRun
  <2>2. TuneShape'
    BY <2>1 DEF Inv, TuneShape, InPlace, Remaining
  <2>3. SavingShape' /\ SavedShape'
    BY <2>1 DEF SavingShape, SavedShape
  <2> QED
    BY <2>1, <2>2, <2>3 DEF Inv
<1>6. CASE UNCHANGED vars
  <2>1. UNCHANGED <<tune, v2ng, pc, cmd, info, before, outcome, executed, original>>
    BY <1>6 DEF vars
  <2>2. TuneShape'
    BY <2>1 DEF Inv, TuneShape, InPlace, Remaining
  <2>3. SavingShape'
    BY <2>1 DEF Inv, SavingShape, InPlace, Remaining
  <2>4. SavedShape'
    BY <2>1 DEF Inv, SavedShape
  <2> QED
    BY <2>1, <2>2, <2>3, <2>4 DEF Inv
<1> QED
  BY <1>1, <1>2, <1>3, <1>4, <1>5, <1>6 DEF Next

\* So it holds in every state of every sequence of runs.
LEMMA InvHolds == Spec => []Inv
<1>1. Init => Inv
  BY InvInit
<1> QED
  BY <1>1, InvStep, PTL DEF Spec

\* Whatever commands are executed, and however they end: the file is one the format
\* allows for, and what is in memory goes with the state the process is in.
THEOREM TuneTypes == Spec => []TypeOK
<1>1. Inv => TypeOK
  BY InvTypes
<1> QED
  BY <1>1, InvHolds, PTL

\* No command, kill or full disk moves the data of a tune in memory or tears a
\* hole into them.
THEOREM DataNeverMove == Spec => []DataStayInPlace
<1>1. ASSUME Inv PROVE DataStayInPlace
  <2>1. tune # Empty => InPlace(Parsed(tune))
    BY <1>1 DEF Inv, TuneShape
  <2> QED
    BY <2>1 DEF InPlace, DataStayInPlace
<1> QED
  BY <1>1, InvHolds, PTL

-----------------------------------------------------------------------------
(* Tunes that have been saved.                                             *)

\* What there is to know of an object that is saved.
Ready(w, v) ==
    /\ Well(w) /\ Compatible(w) /\ w.length \in Nat \ {0}
    /\ v => Placed(w)

\* What a command that succeeds has made of a tune can be saved.
LEMMA WrittenReady ==
    ASSUME NEW f \in File, NEW v \in BOOLEAN, NEW i \in Load(f, v), i.length > 2,
           NEW c \in Command, c.keyword # "FIXLOAD", NEW w \in Write(i, c)
    PROVE  Ready(w, v) /\ Changed(i, w, Touched(c.keyword))
<1>1. Well(i) /\ Compatible(i) /\ (v => Placed(i))
  BY Loaded
<1>2. Changed(i, w, Touched(c.keyword)) /\ Compatible(w) /\ (Placed(i) => Placed(w))
  BY <1>1, Written
<1>3. "length" \notin Touched(c.keyword)
  BY CommandKinds DEF Touched, Texts, FlagFields
<1>4. w.length = i.length
  BY <1>2, <1>3 DEF Changed, Same, Fields
<1>5. w.length \in Nat \ {0}
  <2>1. i.length \in Nat
    BY <1>1, WellFields, InfoRest
  <2> QED
    BY <1>4, <2>1
<1> QED
  BY <1>1, <1>2, <1>5 DEF Ready, Changed

\* It is written as a file.
LEMMA ReadyType ==
    ASSUME NEW v \in BOOLEAN, NEW w, Ready(w, v)
    PROVE  Saved(w, v) \in File /\ w \in Info
<1>1. w \in Info /\ w.length > 0
  BY WellFields DEF Ready
<1> QED
  BY <1>1, SavedType

\* A real C64 starts what is saved where it has started the tune.
LEMMA SavedCompatible ==
    ASSUME NEW v \in BOOLEAN, NEW w, Ready(w, v), StartsHidden(Saved(w, v)) => v
    PROVE  Compatible(Parsed(Saved(w, v)))
<1> DEFINE f == Saved(w, v)
           p == Parsed(f)
<1>1. Well(w) /\ Compatible(w) /\ w \in Info
  BY WellFields DEF Ready
<1>2. /\ w.load \in Nat /\ w.length \in Nat \ {0} /\ w.init \in Nat
      /\ w.compatibility \in {"C64", "PSID", "R64", "BASIC"}
  BY <1>1, InfoNumbers, Words DEF Ready, Compatibility
<1>3. /\ p.load = w.load /\ p.length = w.length
      /\ p.play = IF Rsid(w) THEN 0 ELSE w.play
      /\ p.compatibility = IF Rsid(w) THEN IF v THEN w.compatibility ELSE "R64"
                           ELSE IF v THEN w.compatibility ELSE "C64"
  BY <1>1, ReparsedNumbers, ReparsedRest
<1>4. p.init = IF w.compatibility = "BASIC" THEN IF v THEN 0 ELSE w.load
               ELSE IF w.init = 0 THEN w.load ELSE w.init
  BY <1>1, ReparsedInit
<1>5. CASE ~ Rsid(w)
  <2>1. p.compatibility \in {"C64", "PSID"}
    BY <1>2, <1>3, <1>5 DEF Rsid
  <2> QED
    BY <2>1, NoRsid DEF Rsid
<1>6. CASE w.compatibility = "R64"
  <2>1. w.init \in w.load..(w.load + w.length - 1) /\ w.load >= 2024 /\ w.play = 0
    BY <1>1, <1>6 DEF Compatible
  <2>2. w.init # 0
    BY <1>2, <2>1
  <2>3. p.init = w.init /\ p.play = w.play /\ p.compatibility = w.compatibility
    BY <1>3, <1>4, <1>6, <2>1, <2>2 DEF Rsid
  <2> HIDE DEF p
  <2> QED
    BY <1>1, <1>3, <2>3, CompatibleSame DEF p
<1>7. CASE w.compatibility = "BASIC"
  <2>1. w.load >= 2024 /\ w.play = 0 /\ w.init = 0
    BY <1>1, <1>7 DEF Compatible
  <2>2. CASE v
    <3>1. p.init = w.init /\ p.play = w.play /\ p.compatibility = w.compatibility
      BY <1>3, <1>4, <1>7, <2>1, <2>2 DEF Rsid
    <3> HIDE DEF p
    <3> QED
      BY <1>1, <1>3, <3>1, CompatibleSame DEF p
  <2>3. CASE ~ v
    <3>1. f.id = "RSID" /\ f.init = 0 /\ f.origin = w.load
      BY <1>7, SavedNumbers DEF Rsid
    <3>2. ~ Hidden(w.load)
      BY <2>3, <3>1 DEF StartsHidden
    <3>3. p.init = w.load /\ p.play = 0 /\ p.compatibility = "R64"
      BY <1>3, <1>4, <1>7, <2>3 DEF Rsid
    <3>4. w.load \in w.load..(w.load + w.length - 1)
      BY <1>2
    <3> HIDE DEF p
    <3>5. Compatible(p)
      BY <1>3, <2>1, <3>2, <3>3, <3>4 DEF Compatible
    <3> QED
      BY <3>5 DEF p
  <2> QED
    BY <2>2, <2>3
<1> QED
  BY <1>2, <1>5, <1>6, <1>7 DEF Rsid

\* The pages of that file are placed right.
LEMMA SavedPlaced ==
    ASSUME NEW v \in BOOLEAN, NEW w, Ready(w, v)
    PROVE  Placed(Parsed(Saved(w, v)))
<1>1. Well(w)
  BY DEF Ready
<1>2. CASE v
  <2>1. v = TRUE /\ Placed(w)
    BY <1>2 DEF Ready
  <2>2. /\ Parsed(Saved(w, v)).startPage = w.startPage /\ Parsed(Saved(w, v)).pages = w.pages
        /\ Parsed(Saved(w, v)).load = w.load /\ Parsed(Saved(w, v)).length = w.length
    BY <1>1, <2>1, ReparsedFlags, ReparsedNumbers, ReparsedRest
  <2> QED
    BY <2>1, <2>2, PlacedSame
<1>3. CASE ~ v
  <2>1. Saved(w, v).startPage = 0 /\ Saved(w, v).pages = 0
    BY <1>3, SavedPages
  <2>2. Parsed(Saved(w, v)).startPage = 0 /\ Parsed(Saved(w, v)).pages = 0
    BY <2>1, ParsedRest
  <2> QED
    BY <2>2 DEF Placed, Settled
<1> QED
  BY <1>2, <1>3

\* And if it is for a Real C64 it meets what PSID_fileSupport wants of one.
LEMMA SavedReal ==
    ASSUME NEW v \in BOOLEAN, NEW w, Ready(w, v), Saved(w, v).id = "RSID"
    PROVE  /\ Saved(w, v).version >= 2
           /\ RealC64Info(Saved(w, v), Parsed(Saved(w, v)).compatibility)
<1> DEFINE f == Saved(w, v)
<1>1. Well(w)
  BY DEF Ready
<1>2. Rsid(w) /\ f.load = 0 /\ f.play = 0
  BY SavedNumbers
<1>3. f.version >= 2
  BY <1>1, WellFields, SavedNumbers
<1>4. f.speed = {}
  BY <1>2, SavedSongs DEF SavedSpeed
<1>5. Parsed(f).compatibility = "BASIC" => f.init = 0
  <2>1. Parsed(f).compatibility = IF v THEN w.compatibility ELSE "R64"
    BY <1>1, <1>2, ReparsedNumbers
  <2>2. w.compatibility = "BASIC" => f.init = 0
    BY SavedNumbers
  <2> HIDE DEF f
  <2> QED
    BY <2>1, <2>2
<1> HIDE DEF f
<1>6. RealC64Info(f, Parsed(f).compatibility)
  BY <1>2, <1>4, <1>5 DEF RealC64Info
<1> QED
  BY <1>3, <1>6 DEF f

\* So it can be loaded by runs of both kinds, unless it is a BASIC tune below a ROM
\* saved by a run that knew no version of 3.9 or later.
LEMMA ReadyLoads ==
    ASSUME NEW v \in BOOLEAN, NEW w, Ready(w, v), StartsHidden(Saved(w, v)) => v,
           NEW strict \in BOOLEAN
    PROVE  Load(Saved(w, v), strict) # {}
<1>1. Saved(w, v) \in File
  BY ReadyType
<1>2. Compatible(Parsed(Saved(w, v))) /\ Placed(Parsed(Saved(w, v)))
  BY SavedCompatible, SavedPlaced
<1>3. Saved(w, v).id = "RSID" =>
        /\ Saved(w, v).version >= 2
        /\ RealC64Info(Saved(w, v), Parsed(Saved(w, v)).compatibility)
  BY SavedReal
<1> QED
  BY <1>1, <1>2, <1>3, Loads

\* Every tune a command has saved can be loaded again by every run, whatever the tune and
\* the command are; but for FIXLOAD and a BASIC tune below a ROM.
THEOREM SavedTunesAlwaysLoad == Spec => []SavedTunesLoad
<1>1. ASSUME Inv PROVE SavedTunesLoad
  <2>1. SUFFICES ASSUME outcome = "saved", cmd.keyword # "FIXLOAD", StartsHidden(tune) => v2ng
                 PROVE  Load(tune, TRUE) # {} /\ Load(tune, FALSE) # {}
    BY DEF SavedTunesLoad
  <2>2. cmd \in Command /\ v2ng \in BOOLEAN
    BY <1>1, <2>1 DEF Inv, SavedShape
  <2>3. PICK f \in File : \E i \in Load(f, v2ng) : \E w \in Write(i, cmd) :
               i.length > 2 /\ tune = Saved(w, v2ng)
    BY <1>1, <2>1 DEF Inv, SavedShape
  <2>4. PICK i \in Load(f, v2ng) : \E w \in Write(i, cmd) :
               i.length > 2 /\ tune = Saved(w, v2ng)
    BY <2>3
  <2>5. PICK w \in Write(i, cmd) : i.length > 2 /\ tune = Saved(w, v2ng)
    BY <2>4
  <2>6. Ready(w, v2ng)
    BY <2>1, <2>2, <2>5, WrittenReady
  <2> QED
    BY <2>1, <2>2, <2>5, <2>6, ReadyLoads
<1> QED
  BY <1>1, InvHolds, PTL
=============================================================================
