---------------------------- MODULE SidEditProofs ----------------------------
(***************************************************************************)
(* What a command of an update script makes of a tune, seen by whoever     *)
(* loads the tune before and after it: what the command asks for, nothing  *)
(* else, and the same once more when it is repeated.                       *)
(***************************************************************************)
EXTENDS SidTuneProofs

-----------------------------------------------------------------------------
(* What of an object comes back from its file.                             *)

\* The bits of the file tell the speeds of its songs, however many songs share one.
LEMMA SpeedsAgain ==
    ASSUME NEW set, NEW songs \in 0..MaxSongs
    PROVE  SongSpeeds({s \in SongSpeeds(set, songs) : s < songs /\ s < 32}, songs)
             = SongSpeeds(set, songs)
<1>1. songs \in Nat
  BY DEF MaxSongs
<1>2. ASSUME NEW s \in 0..(songs - 1)
      PROVE  s % 32 \in 0..(songs - 1) /\ s % 32 < 32 /\ (s % 32) % 32 = s % 32
  BY <1>1
<1> DEFINE saved == {s \in SongSpeeds(set, songs) : s < songs /\ s < 32}
<1>3. ASSUME NEW s \in 0..(songs - 1)
      PROVE  s % 32 \in saved <=> s % 32 \in set
  <2>1. s % 32 \in 0..(songs - 1) /\ s % 32 < 32 /\ (s % 32) % 32 = s % 32
    BY <1>2
  <2>2. s % 32 < songs
    BY <1>1, <2>1
  <2>3. s % 32 \in SongSpeeds(set, songs) <=> s % 32 \in set
    BY <2>1 DEF SongSpeeds
  <2> QED
    BY <2>1, <2>2, <2>3
<1> HIDE DEF saved
<1>4. SongSpeeds(saved, songs) = SongSpeeds(set, songs)
  BY <1>3 DEF SongSpeeds
<1> QED
  BY <1>4 DEF saved

\* The speeds an object is loaded with when it has been saved.
SpeedOf(w) == SongSpeeds(IF Rsid(w) THEN 0..31 ELSE SavedSpeed(w), w.songs)

\* What every run finds in the file again.
LEMMA Reloaded ==
    ASSUME NEW v \in BOOLEAN, NEW w, Well(w), w.length \in Nat \ {0}, NEW j \in Load(Saved(w, v), v)
    PROVE  /\ Well(j)
           /\ \A field \in {"version", "load", "credits", "mus", "reserved", "dropped", "length"} :
                j[field] = w[field]
           /\ j.play = IF Rsid(w) THEN 0 ELSE w.play
           /\ j.songs = AcceptedSongs(w)
           /\ j.start = IF w.start \in 1..j.songs THEN w.start ELSE 1
           /\ j.speed = SpeedOf(w)
<1> DEFINE f == Saved(w, v)
           p == Parsed(f)
<1>1. f \in File
  <2>1. w.length > 0 /\ w \in Info
    BY WellFields
  <2> QED
    BY <2>1, SavedType
<1>2. /\ Well(j) /\ Same(p, j, {"songs", "start", "startPage", "pages"})
      /\ j.songs = AcceptedSongs(p)
      /\ j.start = IF f.start \in 1..j.songs THEN f.start ELSE 1
  BY <1>1, Loaded
<1>3. p.load = w.load /\ p.version = w.version /\ p.play = IF Rsid(w) THEN 0 ELSE w.play
  BY ReparsedNumbers
<1>4. /\ p.mus = w.mus /\ p.reserved = w.reserved /\ p.credits = w.credits
      /\ p.dropped = w.dropped /\ p.length = w.length
  BY ReparsedRest
<1>5. p.songs = w.songs /\ f.start = w.start /\ p.speed = SpeedOf(w)
  BY ReparsedSongs, SavedSongs DEF SpeedOf
<1> HIDE DEF p
<1>6. j.songs = AcceptedSongs(w) /\ j.start = IF w.start \in 1..j.songs THEN w.start ELSE 1
  BY <1>2, <1>5 DEF AcceptedSongs
<1>7. j.speed = p.speed /\ j.play = p.play
  BY <1>2 DEF Same, Fields
<1>8. ASSUME NEW field \in {"version", "load", "credits", "mus", "reserved", "dropped", "length"}
      PROVE  j[field] = w[field]
  <2>1. j[field] = p[field]
    BY <1>2 DEF Same, Fields
  <2>2. p[field] = w[field]
    BY <1>3, <1>4
  <2> QED
    BY <2>1, <2>2
<1> QED
  BY <1>2, <1>3, <1>5, <1>6, <1>7, <1>8

\* And what only a run for version 3.9 or later finds there.
LEMMA ReloadedFlags ==
    ASSUME NEW w, Well(w), w.length \in Nat \ {0}, NEW j \in Load(Saved(w, TRUE), TRUE)
    PROVE  /\ j.compatibility = w.compatibility
           /\ j.models = w.models
           /\ j.clock = IF w.mus THEN Standard ELSE w.clock
           /\ j.init = IF w.compatibility = "BASIC" THEN 0
                       ELSE IF w.init = 0 THEN w.load ELSE w.init
           /\ Settled(w) => j.startPage = w.startPage /\ j.pages = w.pages
<1> DEFINE f == Saved(w, TRUE)
           p == Parsed(f)
<1>1. f \in File
  <2>1. w.length > 0 /\ w \in Info
    BY WellFields
  <2> QED
    BY <2>1, SavedType
<1>2. /\ Same(p, j, {"songs", "start", "startPage", "pages"})
      /\ Settled(p) => j.startPage = p.startPage /\ j.pages = p.pages
  BY <1>1, Loaded
<1>3. p.compatibility = w.compatibility
  BY ReparsedNumbers
<1>4. p.init = IF w.compatibility = "BASIC" THEN 0 ELSE IF w.init = 0 THEN w.load ELSE w.init
  BY ReparsedInit
<1>5. /\ p.clock = IF w.mus THEN Standard ELSE w.clock
      /\ p.models = w.models /\ p.startPage = w.startPage /\ p.pages = w.pages
  BY ReparsedFlags
<1> HIDE DEF p
<1>6. Settled(w) => j.startPage = w.startPage /\ j.pages = w.pages
  BY <1>2, <1>5 DEF Settled
<1>7. /\ j.compatibility = p.compatibility /\ j.models = p.models /\ j.clock = p.clock
      /\ j.init = p.init
  BY <1>2 DEF Same, Fields
<1> QED
  BY <1>3, <1>4, <1>5, <1>6, <1>7

-----------------------------------------------------------------------------
(* What holds of an object that has been loaded.                           *)

\* What a tune has been checked and corrected to be when it was loaded.
LEMMA LoadedFacts ==
    ASSUME NEW f \in File, NEW v \in BOOLEAN, NEW i \in Load(f, v)
    PROVE  /\ i.songs \in 1..MaxSongs /\ i.start \in 1..i.songs
           /\ i.mus => i.clock = Standard
           /\ Rsid(i) => i.play = 0
           /\ i.compatibility = "BASIC" => i.init = 0
           /\ i.compatibility # "BASIC" /\ i.init = 0 => i.load = 0
           /\ v => Settled(i)
<1> DEFINE p == Parsed(f)
<1>1. /\ Well(i) /\ Compatible(i) /\ (v => Placed(i))
      /\ Same(p, i, {"songs", "start", "startPage", "pages"})
      /\ i.songs = AcceptedSongs(p)
      /\ i.start = IF f.start \in 1..i.songs THEN f.start ELSE 1
  BY Loaded
<1>2. i.songs \in 1..MaxSongs
  <2>1. p.songs \in 0..MaxSongs
    BY ParsedWell, WellFields
  <2> HIDE DEF p
  <2> QED
    BY <1>1, <2>1 DEF AcceptedSongs, MaxSongs
<1>3. i.start \in 1..i.songs
  BY <1>1, <1>2 DEF MaxSongs
<1>4. i.mus => i.clock = Standard
  <2>1. p.mus => p.clock = Standard
    BY ParsedFlags
  <2>2. i.mus = p.mus /\ i.clock = p.clock
    BY <1>1 DEF Same, Fields
  <2> QED
    BY <2>1, <2>2
<1>5. (Rsid(i) => i.play = 0) /\ (i.compatibility = "BASIC" => i.init = 0)
  BY <1>1 DEF Compatible, Rsid
<1>6. i.compatibility # "BASIC" /\ i.init = 0 => i.load = 0
  <2>1. p.init = IF f.init = 0 /\ p.compatibility # "BASIC" THEN p.load ELSE f.init
    BY ParsedNumbers
  <2>2. i.compatibility = p.compatibility /\ i.init = p.init /\ i.load = p.load
    BY <1>1 DEF Same, Fields
  <2> HIDE DEF p
  <2> QED
    BY <2>1, <2>2
<1>7. v => Settled(i)
  BY <1>1 DEF Placed
<1> QED
  BY <1>2, <1>3, <1>4, <1>5, <1>6, <1>7

\* The speeds it has are those its file would have.
LEMMA LoadedSpeed ==
    ASSUME NEW f \in File, f.songs # 0, NEW v \in BOOLEAN, NEW i \in Load(f, v)
    PROVE  i.speed = SpeedOf(i)
<1> DEFINE p == Parsed(f)
<1>1. Same(p, i, {"songs", "start", "startPage", "pages"}) /\ i.songs = AcceptedSongs(p)
  BY Loaded
<1>2. i.speed = p.speed /\ i.compatibility = p.compatibility
  BY <1>1 DEF Same, Fields
<1>3. p.songs \in 0..MaxSongs /\ p.songs # 0
  <2>1. p.songs \in 0..MaxSongs
    BY ParsedWell, WellFields
  <2>2. p.songs = IF f.songs > MaxSongs THEN MaxSongs ELSE f.songs
    BY ParsedSongs
  <2> HIDE DEF p
  <2> QED
    BY <2>1, <2>2 DEF MaxSongs
<1>4. i.songs = p.songs
  BY <1>1, <1>3 DEF AcceptedSongs
<1>5. i.speed = SongSpeeds(ParsedSpeed(f), i.songs)
  BY <1>2, <1>4, ParsedSongs
<1>6. Rsid(i) <=> f.id = "RSID"
  <2>1. p.compatibility = IF f.id = "RSID" THEN IF f.specific THEN "BASIC" ELSE "R64"
                          ELSE IF f.version >= 2 /\ f.specific THEN "PSID" ELSE "C64"
    BY ParsedKind
  <2> HIDE DEF p
  <2> QED
    BY <1>2, <2>1 DEF Rsid
<1>7. CASE Rsid(i)
  BY <1>5, <1>6, <1>7 DEF ParsedSpeed, SpeedOf
<1>8. CASE ~ Rsid(i)
  <2>1. SavedSpeed(i) = {s \in SongSpeeds(f.speed, i.songs) : s < i.songs /\ s < 32}
    BY <1>5, <1>6, <1>8 DEF ParsedSpeed, SavedSpeed
  <2>2. SongSpeeds(SavedSpeed(i), i.songs) = SongSpeeds(f.speed, i.songs)
    <3> HIDE DEF p
    <3> QED
      BY <1>3, <1>4, <2>1, SpeedsAgain
  <2> QED
    BY <1>5, <1>6, <1>8, <2>2 DEF ParsedSpeed, SpeedOf
<1> QED
  BY <1>7, <1>8

-----------------------------------------------------------------------------
(* What a command leaves alone.                                            *)

\* A command and what it has made of a tune of this run.
Edit(f, v, c, i, w) ==
    /\ f \in File /\ v \in BOOLEAN /\ i \in Load(f, v) /\ i.length > 2
    /\ c \in Command /\ w \in Write(i, c)

\* What is known of the object before and after a command.
LEMMA Edited ==
    ASSUME NEW f, NEW v, NEW c, NEW i, NEW w, Edit(f, v, c, i, w)
    PROVE  /\ Well(i) /\ Compatible(i)
           /\ Changed(i, w, Touched(c.keyword)) /\ Well(w)
           /\ c.keyword # "FIXLOAD" => Compatible(w)
           /\ w.length \in Nat \ {0}
<1>1. Well(i) /\ Compatible(i)
  BY Loaded DEF Edit
<1>2. i.length \in Nat /\ i.length > 2
  BY <1>1, WellFields, InfoRest DEF Edit
<1>3. /\ Changed(i, w, Touched(c.keyword))
      /\ c.keyword # "FIXLOAD" => Compatible(w)
  <2>1. i.length >= 2
    BY <1>2
  <2> QED
    BY <1>1, <2>1, Written DEF Edit
<1>4. CASE c.keyword = "FIXLOAD"
  <2>1. w \in FixLoad(i) /\ i.length >= 2
    BY <1>2, <1>4, WriteIs DEF Edit
  <2>2. w.length = i.length - 2
    BY <1>1, <2>1, FixLoadWritten
  <2> QED
    BY <1>1, <1>2, <1>3, <2>2 DEF Changed
<1>5. CASE c.keyword # "FIXLOAD"
  <2>1. "length" \notin Touched(c.keyword)
    BY <1>5, CommandKinds DEF Edit, Touched, Texts, FlagFields
  <2>2. w.length = i.length
    BY <1>3, <2>1 DEF Changed, Same, Fields
  <2> QED
    BY <1>1, <1>2, <1>3, <2>2 DEF Changed
<1> QED
  BY <1>4, <1>5

\* A field that a command does not assign to.
LEMMA Kept ==
    ASSUME NEW f, NEW v, NEW c, NEW i, NEW w, Edit(f, v, c, i, w),
           NEW field \in Fields, field \notin Touched(c.keyword)
    PROVE  w[field] = i[field]
BY Edited DEF Changed, Same

\* Which fields no other keyword than theirs may touch.
LEMMA NamedKinds ==
    ASSUME NEW c \in Command
    PROVE  /\ Touched(c.keyword) \subseteq Named(c.keyword)
           /\ "speed" \notin Named(c.keyword) =>
                "speed" \notin Touched(c.keyword) /\ "songs" \notin Touched(c.keyword)
           /\ "clock" \notin Named(c.keyword) =>
                "clock" \notin Touched(c.keyword) /\ "mus" \notin Touched(c.keyword)
           /\ "start" \notin Named(c.keyword) =>
                "start" \notin Touched(c.keyword) /\ "songs" \notin Touched(c.keyword)
           /\ c.keyword # "FIXLOAD" => "load" \notin Touched(c.keyword)
           /\ c.keyword # "FREEPAGES" =>
                "startPage" \notin Touched(c.keyword) /\ "pages" \notin Touched(c.keyword)
           /\ c.keyword \notin {"PLAYSID", "FLAGS"} => "compatibility" \notin Touched(c.keyword)
<1>1. DOMAIN CreditOf = Texts
  BY DEF CreditOf, Texts
<1> QED
  BY <1>1, CommandKinds DEF Touched, Named, Texts, FlagFields

\* No command makes a real C64 tune of another one, or the other way round.
LEMMA KindKept ==
    ASSUME NEW f, NEW v, NEW c, NEW i, NEW w, Edit(f, v, c, i, w)
    PROVE  (Rsid(w) <=> Rsid(i)) /\ (Rsid(i) => w.compatibility = i.compatibility)
<1>1. Well(i) /\ c \in Command /\ w \in Write(i, c)
  BY Edited DEF Edit
<1>2. CASE c.keyword = "PLAYSID"
  BY <1>1, <1>2, WriteIs, PlaySidWritten
<1>3. CASE c.keyword = "FLAGS"
  <2> DEFINE line == c.value[2]
  <2>1. w \in WriteFlags(i, c.value)
    BY <1>1, <1>3, WriteIs
  <2>2. IF line \in Starred THEN w.compatibility = i.compatibility
        ELSE /\ line \in {"0", "1"} /\ ~ Rsid(i)
             /\ w.compatibility = IF line = "1" THEN "PSID" ELSE "C64"
    BY <1>1, <2>1, FlagsWritten
  <2> HIDE DEF line
  <2> QED
    BY <2>2 DEF Rsid
<1>4. CASE c.keyword \notin {"PLAYSID", "FLAGS"}
  <2>1. "compatibility" \in Fields /\ "compatibility" \notin Touched(c.keyword)
    BY <1>1, <1>4, NamedKinds DEF Fields
  <2>2. w["compatibility"] = i["compatibility"]
    BY <2>1, Kept
  <2> QED
    BY <2>2 DEF Rsid
<1> QED
  BY <1>2, <1>3, <1>4

\* No command unsettles pages that were settled.
LEMMA SettledKept ==
    ASSUME NEW f, NEW v, NEW c, NEW i, NEW w, Edit(f, v, c, i, w), Settled(i)
    PROVE  Settled(w)
<1>1. Well(i) /\ c \in Command /\ w \in Write(i, c)
  BY Edited DEF Edit
<1>2. CASE c.keyword = "FREEPAGES"
  <2>1. c.value \in Seq(Nat) /\ w \in WriteFreePages(i, c.value)
    BY <1>1, <1>2, WriteIs, CommandKinds DEF Texts
  <2> QED
    BY <1>1, <2>1, FreePagesWritten DEF Placed
<1>3. CASE c.keyword # "FREEPAGES"
  <2>1. /\ "startPage" \notin Touched(c.keyword) /\ "pages" \notin Touched(c.keyword)
        /\ "startPage" \in Fields /\ "pages" \in Fields
    BY <1>1, <1>3, NamedKinds DEF Fields
  <2>2. w["startPage"] = i["startPage"]
    BY <2>1, Kept
  <2>3. w["pages"] = i["pages"]
    BY <2>1, Kept
  <2> QED
    BY <1>1, <2>2, <2>3 DEF Settled
<1> QED
  BY <1>2, <1>3

\* Whoever loads the tune finds no other field changed.
LEMMA Untouched ==
    ASSUME NEW f, NEW v, NEW c, NEW i, NEW w, Edit(f, v, c, i, w), f.songs # 0,
           c.keyword = "FIXLOAD" => i.load # 0, NEW j \in Load(Saved(w, v), v),
           NEW field \in Fields, field \notin Named(c.keyword), v \/ field \notin Zeroed
    PROVE  j[field] = i[field]
<1>1. c \in Command /\ f \in File /\ v \in BOOLEAN /\ i \in Load(f, v)
  BY DEF Edit
<1>2. Well(i) /\ Well(w) /\ w.length \in Nat \ {0}
  BY Edited
<1>3. field \notin Touched(c.keyword)
  BY <1>1, NamedKinds
<1>4. w[field] = i[field]
  BY <1>3, Kept
<1>5. CASE field \in {"version", "load", "credits", "mus", "reserved", "dropped", "length"}
  BY <1>1, <1>2, <1>4, <1>5, Reloaded
<1>6. CASE field = "play"
  <2>1. j.play = IF Rsid(w) THEN 0 ELSE w.play
    BY <1>1, <1>2, Reloaded
  <2>2. Rsid(i) => i.play = 0
    BY <1>1, LoadedFacts
  <2> QED
    BY <1>4, <1>6, <2>1, <2>2, KindKept
<1>7. i.songs \in Nat \ {0} /\ i.start \in 1..i.songs
  BY <1>1, LoadedFacts DEF MaxSongs
<1>8. CASE field = "songs"
  <2>1. j.songs = AcceptedSongs(w)
    BY <1>1, <1>2, Reloaded
  <2> QED
    BY <1>4, <1>7, <1>8, <2>1 DEF AcceptedSongs
<1>9. CASE field = "start"
  <2>1. w["songs"] = i["songs"]
    BY <1>1, <1>9, NamedKinds, Kept DEF Fields
  <2>2. j.songs = AcceptedSongs(w) /\ j.start = IF w.start \in 1..j.songs THEN w.start ELSE 1
    BY <1>1, <1>2, Reloaded
  <2>3. j.songs = i.songs
    BY <1>7, <2>1, <2>2 DEF AcceptedSongs
  <2> QED
    BY <1>4, <1>7, <1>9, <2>2, <2>3
<1>10. CASE field = "speed"
  <2>1. w["songs"] = i["songs"]
    BY <1>1, <1>10, NamedKinds, Kept DEF Fields
  <2>2. SpeedOf(w) = SpeedOf(i)
    BY <1>4, <1>10, <2>1, KindKept DEF SpeedOf, SavedSpeed
  <2>3. i.speed = SpeedOf(i)
    BY <1>1, LoadedSpeed
  <2>4. j.speed = SpeedOf(w)
    BY <1>1, <1>2, Reloaded
  <2> QED
    BY <1>10, <2>2, <2>3, <2>4
<1>11. CASE v /\ field \in {"compatibility", "models"}
  <2>1. v = TRUE
    BY <1>1, <1>11
  <2> QED
    BY <1>2, <1>4, <1>11, <2>1, ReloadedFlags
<1>12. CASE v /\ field = "clock"
  <2>1. v = TRUE
    BY <1>1, <1>12
  <2>2. j.clock = IF w.mus THEN Standard ELSE w.clock
    BY <1>2, <2>1, ReloadedFlags
  <2>3. w["mus"] = i["mus"]
    <3>1. "mus" \notin Touched(c.keyword) /\ "mus" \in Fields
      BY <1>1, <1>12, NamedKinds DEF Fields
    <3> QED
      BY <3>1, Kept
  <2>4. i.mus => i.clock = Standard
    BY <1>1, LoadedFacts
  <2> QED
    BY <1>4, <1>12, <2>2, <2>3, <2>4
<1>13. CASE v /\ field = "init"
  <2>1. v = TRUE
    BY <1>1, <1>13
  <2>2. j.init = IF w.compatibility = "BASIC" THEN 0 ELSE IF w.init = 0 THEN w.load ELSE w.init
    BY <1>2, <2>1, ReloadedFlags
  <2>3. /\ i.compatibility = "BASIC" => i.init = 0
        /\ i.compatibility # "BASIC" /\ i.init = 0 => i.load = 0
    BY <1>1, LoadedFacts
  <2>4. w.compatibility = "BASIC" <=> i.compatibility = "BASIC"
    BY KindKept DEF Rsid
  <2>5. c.keyword # "FIXLOAD" => w["load"] = i["load"]
    BY <1>1, NamedKinds, Kept DEF Fields
  <2> QED
    BY <1>4, <1>13, <2>2, <2>3, <2>4, <2>5
<1>14. CASE v /\ field \in {"startPage", "pages"}
  <2>1. v = TRUE
    BY <1>1, <1>14
  <2>2. Settled(w)
    BY <1>1, <2>1, LoadedFacts, SettledKept
  <2> QED
    BY <1>2, <1>4, <1>14, <2>1, <2>2, ReloadedFlags
<1> QED
  BY <1>5, <1>6, <1>8, <1>9, <1>10, <1>11, <1>12, <1>13, <1>14 DEF Fields, Zeroed

-----------------------------------------------------------------------------
(* The steps of the process.                                               *)

\* Only saving saves: what is saved is what a command has made of the file that was
\* loaded, and there is one way to load either.
LEMMA SavingStep ==
    ASSUME Inv, [Next]_vars, Saving
    PROVE  /\ tune' = Saved(info, v2ng) /\ before \in File /\ v2ng \in BOOLEAN
           /\ \A i \in Load(before, v2ng) : Edit(before, v2ng, cmd, i, info)
<1>1. pc = "saving" /\ outcome' = "saved" /\ outcome = "none"
  BY DEF Saving, Inv, SavingShape
<1>2. Save
  <2>1. ASSUME NEW command \in Command PROVE ~ Execute(command)
    BY <1>1 DEF Execute
  <2>2. ~ WriteFails /\ ~ Kill /\ ~ StartRun /\ ~ UNCHANGED vars
    BY <1>1 DEF WriteFails, Kill, StartRun, vars
  <2> QED
    BY <2>1, <2>2 DEF Next
<1>3. before \in File /\ cmd \in Command /\ v2ng \in BOOLEAN
  BY <1>1 DEF Inv, SavingShape
<1>4. PICK k \in Load(before, v2ng) : k.length > 2 /\ info \in Write(k, cmd)
  BY <1>1 DEF Inv, SavingShape
<1>5. Load(before, v2ng) = {k}
  BY <1>3, Loaded
<1> QED
  BY <1>2, <1>3, <1>4, <1>5 DEF Save, Edit

\* The step of OnlyNamedFieldsChange.
NamedOnly ==
    Saving /\ before.songs # 0 =>
      \A i \in Load(before, v2ng), j \in Load(tune', v2ng) :
        (cmd.keyword = "FIXLOAD" => i.load # 0) =>
          \A field \in DOMAIN i :
            i[field] # j[field] =>
              field \in Named(cmd.keyword) \cup (IF v2ng THEN {} ELSE Zeroed)

\* A command changes the fields it is for and no others, whatever the tune, the command
\* and the run are, and as anyone sees who loads the tune.
THEOREM OnlyNamedChange == Spec => OnlyNamedFieldsChange
<1>1. ASSUME Inv, [Next]_vars PROVE NamedOnly
  <2>1. SUFFICES ASSUME Saving, before.songs # 0,
                        NEW i \in Load(before, v2ng), NEW j \in Load(tune', v2ng),
                        cmd.keyword = "FIXLOAD" => i.load # 0,
                        NEW field \in DOMAIN i, i[field] # j[field],
                        field \notin Named(cmd.keyword), ~ (~ v2ng /\ field \in Zeroed)
                 PROVE  FALSE
    BY DEF NamedOnly
  <2>2. Edit(before, v2ng, cmd, i, info) /\ j \in Load(Saved(info, v2ng), v2ng)
    BY <1>1, <2>1, SavingStep
  <2>3. field \in Fields
    BY <2>1, <2>2, Edited, WellFields, InfoDomain
  <2>4. v2ng \/ field \notin Zeroed
    BY <2>1
  <2>5. j[field] = i[field]
    BY <2>1, <2>2, <2>3, <2>4, Untouched
  <2> QED
    BY <2>1, <2>5
<1> QED
  BY <1>1, InvHolds, PTL DEF Spec, OnlyNamedFieldsChange, NamedOnly

-----------------------------------------------------------------------------
(* What a command asks for.                                                *)

\* Asked, keyword by keyword: a line of the credits, ...
LEMMA AskedCredit ==
    ASSUME NEW c, NEW i, NEW j, c.keyword \in Texts, j.credits[CreditOf[c.keyword]] = c.value
    PROVE  Asked(c, i, j)
<1>1. DOMAIN CreditOf = Texts
  BY DEF CreditOf, Texts
<1> DEFINE said == j.credits[CreditOf[c.keyword]] = c.value
<1>2. said
  OBVIOUS
<1> HIDE DEF said
<1>3. c.keyword = "TITLE" => Asked(c, i, j)
  BY <1>1, <1>2 DEF Asked, Texts, said
<1>4. c.keyword = "AUTHOR" => Asked(c, i, j)
  BY <1>1, <1>2 DEF Asked, Texts, said
<1>5. c.keyword = "RELEASED" => Asked(c, i, j)
  BY <1>1, <1>2 DEF Asked, Texts, said
<1> QED
  BY <1>3, <1>4, <1>5 DEF Texts

\* ... the speeds, ...
LEMMA AskedSpeed ==
    ASSUME NEW c, NEW i, NEW j, c.keyword = "SPEED",
           j.compatibility = "BASIC" \/ j.speed = SongSpeeds(c.value, j.songs)
    PROVE  Asked(c, i, j)
<1>1. DOMAIN CreditOf = Texts
  BY DEF CreditOf, Texts
<1>2. CASE j.compatibility = "BASIC"
  BY <1>1, <1>2 DEF Asked, Texts
<1>3. CASE j.speed = SongSpeeds(c.value, j.songs)
  BY <1>1, <1>3 DEF Asked, Texts
<1> QED
  BY <1>2, <1>3

\* ... numbers, ...
LEMMA AskedNumbers ==
    ASSUME NEW c, NEW i, NEW j
    PROVE  /\ /\ c.keyword = "SONGS"
              /\ c.value[1] \in 1..255 /\ c.value[2] \in 1..c.value[1] =>
                   j.songs = c.value[1] /\ j.start = c.value[2]
              => Asked(c, i, j)
           /\ /\ c.keyword = "INITPLAY"
              /\ c.value[1] \in Word =>
                   j.init = IF c.value[1] = 0 /\ j.compatibility # "BASIC" THEN j.load
                            ELSE c.value[1]
              /\ c.value[2] \in Word => j.play = c.value[2]
              => Asked(c, i, j)
           /\ /\ c.keyword = "FREEPAGES"
              /\ c.value[1] \in Byte \ {255} /\ c.value[2] \in Byte \ {0} =>
                   j.startPage = c.value[1] /\ j.pages = c.value[2]
              => Asked(c, i, j)
<1>1. DOMAIN CreditOf = Texts
  BY DEF CreditOf, Texts
<1>2. /\ c.keyword = "SONGS"
      /\ c.value[1] \in 1..255 /\ c.value[2] \in 1..c.value[1] =>
           j.songs = c.value[1] /\ j.start = c.value[2]
      => Asked(c, i, j)
  BY <1>1 DEF Asked, Texts
<1>3. /\ c.keyword = "INITPLAY"
      /\ c.value[1] \in Word =>
           j.init = IF c.value[1] = 0 /\ j.compatibility # "BASIC" THEN j.load
                    ELSE c.value[1]
      /\ c.value[2] \in Word => j.play = c.value[2]
      => Asked(c, i, j)
  BY <1>1 DEF Asked, Texts
<1>4. /\ c.keyword = "FREEPAGES"
      /\ c.value[1] \in Byte \ {255} /\ c.value[2] \in Byte \ {0} =>
           j.startPage = c.value[1] /\ j.pages = c.value[2]
      => Asked(c, i, j)
  BY <1>1 DEF Asked, Texts
<1> QED
  BY <1>2, <1>3, <1>4

\* ... flags one by one, ...
LEMMA AskedFlag ==
    ASSUME NEW c, NEW i, NEW j
    PROVE  /\ c.keyword = "MUSPLAYER" /\ j.mus = (c.value = "1") => Asked(c, i, j)
           /\ /\ c.keyword = "PLAYSID"
              /\ j.compatibility = IF c.value = "1" THEN "PSID" ELSE "C64"
              => Asked(c, i, j)
           /\ c.keyword = "CLOCK" /\ (j.mus \/ j.clock = ClockNamed[c.value]) => Asked(c, i, j)
           /\ c.keyword = "SIDMODEL" /\ j.models[1] = ChipNamed[c.value] => Asked(c, i, j)
           /\ c.keyword = "FIXLOAD" /\ j.load = (i.load + 2) % 65536 => Asked(c, i, j)
<1>1. DOMAIN CreditOf = Texts
  BY DEF CreditOf, Texts
<1>2. c.keyword = "MUSPLAYER" /\ j.mus = (c.value = "1") => Asked(c, i, j)
  BY <1>1 DEF Asked, Texts
<1>3. /\ c.keyword = "PLAYSID"
      /\ j.compatibility = IF c.value = "1" THEN "PSID" ELSE "C64"
      => Asked(c, i, j)
  BY <1>1 DEF Asked, Texts
<1>4. c.keyword = "CLOCK" /\ (j.mus \/ j.clock = ClockNamed[c.value]) => Asked(c, i, j)
  BY <1>1 DEF Asked, Texts
<1>5. c.keyword = "SIDMODEL" /\ j.models[1] = ChipNamed[c.value] => Asked(c, i, j)
  BY <1>1 DEF Asked, Texts
<1>6. c.keyword = "FIXLOAD" /\ j.load = (i.load + 2) % 65536 => Asked(c, i, j)
  BY <1>1 DEF Asked, Texts
<1> QED
  BY <1>2, <1>3, <1>4, <1>5, <1>6

\* ... and several lines at once.
LEMMA AskedLines ==
    ASSUME NEW c, NEW i, NEW j
    PROVE  /\ /\ c.keyword = "CREDITS"
              /\ \A n \in 1..3 : c.value[n] \in Starred \/ j.credits[n] = c.value[n]
              => Asked(c, i, j)
           /\ /\ c.keyword = "FLAGS"
              /\ c.value[1] \in Starred \/ j.mus = (c.value[1] = "1")
              /\ \/ c.value[2] \in Starred
                 \/ j.compatibility = IF c.value[2] = "1" THEN "PSID" ELSE "C64"
              /\ c.value[3] \in Starred \/ j.mus \/ j.clock = ClockNamed[c.value[3]]
              /\ c.value[4] \in Starred \/ j.models[1] = ChipNamed[c.value[4]]
              => Asked(c, i, j)
<1>1. DOMAIN CreditOf = Texts
  BY DEF CreditOf, Texts
<1>2. /\ c.keyword = "CREDITS"
      /\ \A n \in 1..3 : c.value[n] \in Starred \/ j.credits[n] = c.value[n]
      => Asked(c, i, j)
  BY <1>1 DEF Asked, Texts
<1>3. /\ c.keyword = "FLAGS"
      /\ c.value[1] \in Starred \/ j.mus = (c.value[1] = "1")
      /\ \/ c.value[2] \in Starred
         \/ j.compatibility = IF c.value[2] = "1" THEN "PSID" ELSE "C64"
      /\ c.value[3] \in Starred \/ j.mus \/ j.clock = ClockNamed[c.value[3]]
      /\ c.value[4] \in Starred \/ j.models[1] = ChipNamed[c.value[4]]
      => Asked(c, i, j)
  BY <1>1 DEF Asked, Texts
<1> QED
  BY <1>2, <1>3

\* The numbers that keep to the format are not cut.
LEMMA Uncut ==
    /\ \A n \in Word : n % 65536 = n
    /\ \A n \in Byte : n % 256 = n
    /\ \A n \in 1..255 : n % 256 = n
<1>1. ASSUME NEW n \in Word PROVE n % 65536 = n
  <2>1. n \in Nat /\ n < 65536
    BY DEF Word
  <2>2. \A m \in Nat : m < 65536 => m % 65536 = m
    OBVIOUS
  <2> QED
    BY <2>1, <2>2
<1>2. \A n \in Byte : n % 256 = n
  BY DEF Byte
<1>3. \A n \in 1..255 : n % 256 = n
  OBVIOUS
<1> QED
  BY <1>1, <1>2, <1>3

\* The speeds a SPEED line asks for are those that are saved.
LEMMA SpeedTaken ==
    ASSUME NEW f, NEW v, NEW c, NEW i, NEW w, Edit(f, v, c, i, w), c.keyword = "SPEED",
           w.compatibility # "BASIC"
    PROVE  /\ SpeedOf(w) = SongSpeeds(c.value, w.songs)
           /\ SavedSpeed(w) = {s \in SongSpeeds(c.value, w.songs) : s < w.songs /\ s < 32}
           /\ w.songs \in 1..MaxSongs
<1>1. w \in WriteSpeed(i, c.value) /\ Well(i)
  BY Edited, WriteIs DEF Edit
<1>2. /\ i.compatibility # "R64"
      /\ w.speed = (i.speed \ (0..(i.songs - 1))) \cup SongSpeeds(c.value, i.songs)
  BY <1>1, SpeedWritten
<1>3. w["songs"] = i["songs"] /\ w["compatibility"] = i["compatibility"]
  <2>1. /\ "songs" \notin Touched(c.keyword) /\ "songs" \in Fields
        /\ "compatibility" \notin Touched(c.keyword) /\ "compatibility" \in Fields
    BY DEF Touched, Fields, Texts
  <2>2. w["songs"] = i["songs"]
    BY <2>1, Kept
  <2>3. w["compatibility"] = i["compatibility"]
    BY <2>1, Kept
  <2> QED
    BY <2>2, <2>3
<1>4. ~ Rsid(w)
  BY <1>2, <1>3 DEF Rsid
<1>5. w.songs \in 1..MaxSongs
  BY <1>3, LoadedFacts DEF Edit
<1>6. i.speed \subseteq Nat
  BY <1>1, WellFields, InfoSpeed DEF MaxSongs
<1>7. SavedSpeed(w) = {s \in SongSpeeds(c.value, w.songs) : s < w.songs /\ s < 32}
  <2>1. SavedSpeed(w) = {s \in w.speed : s < w.songs /\ s < 32}
    BY <1>4 DEF SavedSpeed
  <2>2. ASSUME NEW s, s < w.songs PROVE s \in w.speed <=> s \in SongSpeeds(c.value, w.songs)
    <3>1. w.songs \in Nat /\ w.songs = i.songs
      BY <1>3, <1>5 DEF MaxSongs
    <3>2. ASSUME s \in w.speed PROVE s \in SongSpeeds(c.value, w.songs)
      BY <1>2, <1>6, <2>2, <3>1, <3>2
    <3> QED
      BY <1>2, <3>1, <3>2
  <2> QED
    BY <2>1, <2>2
<1>8. SpeedOf(w) = SongSpeeds(SavedSpeed(w), w.songs)
  BY <1>4 DEF SpeedOf
<1>9. w.songs \in 0..MaxSongs
  BY <1>5 DEF MaxSongs
<1> QED
  BY <1>5, <1>7, <1>8, <1>9, SpeedsAgain

\* What a command has written is what whoever loads the tune sees.
LEMMA Taken ==
    ASSUME NEW f, NEW v, NEW c, NEW i, NEW w, Edit(f, v, c, i, w), NEW j \in Load(Saved(w, v), v)
    PROVE  v => Asked(c, i, j)
<1>0. c.keyword = "SPEED" /\ w.compatibility # "BASIC" =>
        SpeedOf(w) = SongSpeeds(c.value, w.songs) /\ w.songs \in 1..MaxSongs
  BY SpeedTaken
<1> SUFFICES ASSUME v PROVE Asked(c, i, j)
  OBVIOUS
<1>1. c \in Command /\ w \in Write(i, c) /\ v \in BOOLEAN /\ v = TRUE
  BY DEF Edit
<1>2. Well(i) /\ Well(w) /\ w.length \in Nat \ {0} /\ (c.keyword # "FIXLOAD" => Compatible(w))
  BY Edited
<1>3. j.load = w.load /\ j.credits = w.credits /\ j.mus = w.mus
  BY <1>1, <1>2, Reloaded
<1>4. /\ j.songs = AcceptedSongs(w)
      /\ j.start = IF w.start \in 1..j.songs THEN w.start ELSE 1
      /\ j.play = IF Rsid(w) THEN 0 ELSE w.play
      /\ j.speed = SpeedOf(w)
  BY <1>1, <1>2, Reloaded
<1>5. /\ j.compatibility = w.compatibility /\ j.models = w.models
      /\ j.clock = IF w.mus THEN Standard ELSE w.clock
      /\ j.init = IF w.compatibility = "BASIC" THEN 0
                  ELSE IF w.init = 0 THEN w.load ELSE w.init
  BY <1>1, <1>2, ReloadedFlags
<1>6. Settled(w) => j.startPage = w.startPage /\ j.pages = w.pages
  BY <1>1, <1>2, ReloadedFlags
<1>7. CASE c.keyword \in Texts /\ c.value \in STRING
  <2> DEFINE n == CreditOf[c.keyword]
             line == c.value
  <2>1. w \in WriteCredit(i, n, line) /\ n \in 1..3 /\ line \in STRING
    BY <1>1, <1>7, WriteIs DEF CreditOf, Texts
  <2>2. i.credits \in [1..3 -> STRING]
    BY <1>2, WellFields, InfoRest
  <2> HIDE DEF n, line
  <2>3. w.credits = [i.credits EXCEPT ![n] = line]
    BY <1>2, <2>1, CreditWritten
  <2>4. j.credits[n] = line
    BY <1>3, <2>1, <2>2, <2>3
  <2> QED
    BY <1>7, <2>4, AskedCredit DEF n, line
<1>8. CASE c.keyword = "CREDITS" /\ c.value \in [1..3 -> STRING]
  <2>1. w \in WriteCredits(i, c.value)
    BY <1>1, <1>8, WriteIs
  <2>2. w.credits = [n \in 1..3 |-> IF c.value[n] \in Starred THEN i.credits[n] ELSE c.value[n]]
    BY <1>2, <1>8, <2>1, CreditsWritten
  <2>3. \A n \in 1..3 : c.value[n] \in Starred \/ j.credits[n] = c.value[n]
    BY <1>3, <2>2
  <2> QED
    BY <1>8, <2>3, AskedLines
<1>9. CASE c.keyword = "SPEED"
  <2>1. CASE w.compatibility = "BASIC"
    BY <1>5, <1>9, <2>1, AskedSpeed
  <2>2. CASE w.compatibility # "BASIC"
    <3>1. SpeedOf(w) = SongSpeeds(c.value, w.songs) /\ w.songs \in 1..MaxSongs
      BY <1>0, <1>9, <2>2
    <3>2. j.songs = w.songs
      BY <1>4, <3>1 DEF AcceptedSongs, MaxSongs
    <3> QED
      BY <1>4, <1>9, <3>1, <3>2, AskedSpeed
  <2> QED
    BY <2>1, <2>2
<1>10. CASE c.keyword = "SONGS" /\ c.value \in Seq(Nat)
  <2>1. w \in WriteSongs(i, c.value)
    BY <1>1, <1>10, WriteIs
  <2>2. w.songs = c.value[1] % 256 /\ w.start = c.value[2] % 256
    BY <1>2, <1>10, <2>1, SongsWritten
  <2>3. ASSUME c.value[1] \in 1..255, c.value[2] \in 1..c.value[1]
        PROVE  j.songs = c.value[1] /\ j.start = c.value[2]
    <3>1. c.value[2] \in 1..255
      BY <2>3
    <3>2. w.songs = c.value[1] /\ w.start = c.value[2]
      BY <2>2, <2>3, <3>1, Uncut
    <3>3. j.songs = c.value[1]
      BY <1>4, <2>3, <3>2 DEF AcceptedSongs
    <3> QED
      BY <1>4, <2>3, <3>2, <3>3
  <2> QED
    BY <1>10, <2>3, AskedNumbers
<1>11. CASE c.keyword = "INITPLAY" /\ c.value \in Seq(Nat)
  <2>1. w \in WriteInitPlay(i, c.value) /\ Compatible(w)
    BY <1>1, <1>2, <1>11, WriteIs
  <2>2. w.init = c.value[1] % 65536 /\ w.play = c.value[2] % 65536
    BY <1>2, <1>11, <2>1, InitPlayWritten
  <2>3. /\ w.compatibility = "BASIC" => w.init = 0
        /\ Rsid(w) => w.play = 0
    BY <2>1 DEF Compatible, Rsid
  <2>4. ASSUME c.value[1] \in Word
        PROVE  j.init = IF c.value[1] = 0 /\ j.compatibility # "BASIC" THEN j.load
                        ELSE c.value[1]
    <3>1. w.init = c.value[1]
      BY <2>2, <2>4, Uncut
    <3> QED
      BY <1>3, <1>5, <2>3, <3>1
  <2>5. ASSUME c.value[2] \in Word PROVE j.play = c.value[2]
    <3>1. w.play = c.value[2]
      BY <2>2, <2>5, Uncut
    <3> QED
      BY <1>4, <2>3, <3>1
  <2> QED
    BY <1>11, <2>4, <2>5, AskedNumbers
<1>12. CASE c.keyword = "FREEPAGES" /\ c.value \in Seq(Nat)
  <2>1. w \in WriteFreePages(i, c.value)
    BY <1>1, <1>12, WriteIs
  <2>2. /\ Placed(w)
        /\ w.startPage = IF c.value[1] % 256 # 255 /\ c.value[2] % 256 = 0 THEN 0
                         ELSE c.value[1] % 256
        /\ w.pages = IF c.value[1] % 256 = 255 THEN 0 ELSE c.value[2] % 256
    BY <1>2, <1>12, <2>1, FreePagesWritten
  <2>3. ASSUME c.value[1] \in Byte \ {255}, c.value[2] \in Byte \ {0}
        PROVE  j.startPage = c.value[1] /\ j.pages = c.value[2]
    <3>1. c.value[1] % 256 = c.value[1] /\ c.value[2] % 256 = c.value[2]
      BY <2>3, Uncut
    <3>2. w.startPage = c.value[1] /\ w.pages = c.value[2]
      BY <2>2, <2>3, <3>1
    <3> QED
      BY <1>6, <2>2, <3>2 DEF Placed
  <2> QED
    BY <1>12, <2>3, AskedNumbers
<1>13. CASE c.keyword = "MUSPLAYER"
  <2>1. w \in WriteMusPlayer(i, c.value)
    BY <1>1, <1>13, WriteIs
  <2>2. w.mus = (c.value = "1")
    BY <1>2, <2>1, MusPlayerWritten
  <2> QED
    BY <1>3, <1>13, <2>2, AskedFlag
<1>14. CASE c.keyword = "PLAYSID"
  <2>1. w \in WritePlaySid(i, c.value)
    BY <1>1, <1>14, WriteIs
  <2>2. w.compatibility = IF c.value = "1" THEN "PSID" ELSE "C64"
    BY <1>2, <2>1, PlaySidWritten
  <2> QED
    BY <1>5, <1>14, <2>2, AskedFlag
<1>15. CASE c.keyword = "CLOCK"
  <2>1. w \in WriteClock(i, c.value)
    BY <1>1, <1>15, WriteIs
  <2>2. w.clock = ClockNamed[c.value]
    BY <1>2, <2>1, ClockWritten
  <2>3. j.mus \/ j.clock = ClockNamed[c.value]
    BY <1>3, <1>5, <2>2
  <2> QED
    BY <1>15, <2>3, AskedFlag
<1>16. CASE c.keyword = "SIDMODEL"
  <2>1. w \in WriteSidModel(i, c.value)
    BY <1>1, <1>16, WriteIs
  <2>2. w.models = [n \in 1..3 |-> IF n = 1 THEN ChipNamed[c.value] ELSE {}]
    BY <1>2, <2>1, SidModelWritten
  <2>3. j.models[1] = ChipNamed[c.value]
    BY <1>5, <2>2
  <2> QED
    BY <1>16, <2>3, AskedFlag
<1>17. CASE c.keyword = "FLAGS"
  <2> DEFINE lines == c.value
  <2>1. w \in WriteFlags(i, lines)
    BY <1>1, <1>17, WriteIs
  <2> HIDE DEF lines
  <2>2. lines[1] \in Starred \/ j.mus = (lines[1] = "1")
    BY <1>2, <1>3, <2>1, FlagsWritten
  <2>3. lines[2] \in Starred \/ j.compatibility = IF lines[2] = "1" THEN "PSID" ELSE "C64"
    <3>1. \/ lines[2] \in Starred
          \/ w.compatibility = IF lines[2] = "1" THEN "PSID" ELSE "C64"
      BY <1>2, <2>1, FlagsWritten
    <3> QED
      BY <1>5, <3>1
  <2>4. lines[3] \in Starred \/ j.mus \/ j.clock = ClockNamed[lines[3]]
    <3> DEFINE name == lines[3]
    <3>0. IF name \in Starred THEN w.clock = i.clock
          ELSE name \in DOMAIN ClockNamed /\ w.clock = ClockNamed[name]
      BY <1>2, <2>1, FlagsWritten
    <3> HIDE DEF name
    <3>1. name \in Starred \/ w.clock = ClockNamed[name]
      BY <3>0
    <3> USE DEF name
    <3> QED
      BY <1>3, <1>5, <3>1
  <2>5. lines[4] \in Starred \/ j.models[1] = ChipNamed[lines[4]]
    <3>1. \/ lines[4] \in Starred
          \/ w.models = [n \in 1..3 |-> IF n = 1 THEN ChipNamed[lines[4]] ELSE {}]
      BY <1>2, <2>1, FlagsWritten
    <3> QED
      BY <1>5, <3>1
  <2> QED
    BY <1>17, <2>2, <2>3, <2>4, <2>5, AskedLines DEF lines
<1>18. CASE c.keyword = "FIXLOAD"
  <2>1. w \in FixLoad(i) /\ i.length >= 2
    <3>1. i.length \in Nat /\ i.length > 2
      BY <1>2, WellFields, InfoRest DEF Edit
    <3> QED
      BY <1>1, <1>18, <3>1, WriteIs
  <2>2. w.load = (i.load + 2) % 65536
    BY <1>2, <2>1, FixLoadWritten
  <2> QED
    BY <1>3, <1>18, <2>2, AskedFlag
<1> QED
  BY <1>1, <1>7, <1>8, <1>9, <1>10, <1>11, <1>12, <1>13, <1>14, <1>15, <1>16, <1>17, <1>18,
     CommandKinds

\* The step of EditsTakeHold.
Holds ==
    Saving /\ v2ng =>
      \A i \in Load(before, v2ng), j \in Load(tune', v2ng) : Asked(cmd, i, j)

\* Every command that is saved by a run for version 3.9 or later leaves a tune that
\* loads with what the command asks for.
THEOREM CommandsTakeHold == Spec => EditsTakeHold
<1>1. ASSUME Inv, [Next]_vars PROVE Holds
  <2>1. SUFFICES ASSUME Saving, v2ng, NEW i \in Load(before, v2ng), NEW j \in Load(tune', v2ng)
                 PROVE  Asked(cmd, i, j)
    BY DEF Holds
  <2>2. Edit(before, v2ng, cmd, i, info) /\ j \in Load(Saved(info, v2ng), v2ng)
    BY <1>1, <2>1, SavingStep
  <2> QED
    BY <2>1, <2>2, Taken
<1> QED
  BY <1>1, InvHolds, PTL DEF Spec, EditsTakeHold, Holds

-----------------------------------------------------------------------------
(* A command that is repeated.                                             *)

\* One command on two objects: each field is what the second one had, or what the
\* first one was given.
LEMMA Given ==
    ASSUME NEW f, NEW g, NEW v, NEW c, NEW i, NEW w, NEW k, NEW x,
           Edit(f, v, c, i, w), Edit(g, v, c, k, x), c.keyword # "FIXLOAD",
           k.credits = w.credits, NEW field \in Fields \ {"speed"}
    PROVE  x[field] = k[field] \/ x[field] = w[field]
<1>1. Well(i) /\ Well(k) /\ c \in Command /\ w \in Write(i, c) /\ x \in Write(k, c)
  BY Edited DEF Edit
<1>2. CASE field \notin Touched(c.keyword)
  BY <1>2, Kept
<1> SUFFICES ASSUME field \in Touched(c.keyword) PROVE x[field] = k[field] \/ x[field] = w[field]
  BY <1>2
<1>3. CASE c.keyword \in Texts /\ c.value \in STRING
  <2> DEFINE n == CreditOf[c.keyword]
             line == c.value
  <2>1. /\ w \in WriteCredit(i, n, line) /\ x \in WriteCredit(k, n, line)
        /\ n \in 1..3 /\ line \in STRING
    BY <1>1, <1>3, WriteIs DEF CreditOf, Texts
  <2>2. i.credits \in [1..3 -> STRING] /\ k.credits \in [1..3 -> STRING]
    BY <1>1, WellFields, InfoRest
  <2>3. field = "credits"
    BY <1>3 DEF Touched, Texts
  <2> HIDE DEF n, line
  <2>4. w.credits = [i.credits EXCEPT ![n] = line]
    BY <1>1, <2>1, CreditWritten
  <2>5. x.credits = [k.credits EXCEPT ![n] = line]
    BY <1>1, <2>1, CreditWritten
  <2>6. x.credits = k.credits
    BY <2>1, <2>2, <2>4, <2>5
  <2> QED
    BY <2>3, <2>6
<1>4. CASE c.keyword = "CREDITS" /\ c.value \in [1..3 -> STRING]
  <2> DEFINE lines == c.value
  <2>1. w \in WriteCredits(i, lines) /\ x \in WriteCredits(k, lines) /\ lines \in [1..3 -> STRING]
    BY <1>1, <1>4, WriteIs
  <2>2. field = "credits"
    BY <1>4 DEF Touched, Texts
  <2> HIDE DEF lines
  <2>3. w.credits = [n \in 1..3 |-> IF lines[n] \in Starred THEN i.credits[n] ELSE lines[n]]
    BY <1>1, <2>1, CreditsWritten
  <2>4. x.credits = [n \in 1..3 |-> IF lines[n] \in Starred THEN k.credits[n] ELSE lines[n]]
    BY <1>1, <2>1, CreditsWritten
  <2>5. x.credits = w.credits
    BY <2>3, <2>4
  <2> QED
    BY <2>2, <2>5
<1>5. CASE c.keyword = "SPEED"
  BY <1>5 DEF Touched, Texts
<1>6. CASE c.keyword = "SONGS" /\ c.value \in Seq(Nat)
  <2>1. w \in WriteSongs(i, c.value) /\ x \in WriteSongs(k, c.value)
    BY <1>1, <1>6, WriteIs
  <2>2. w.songs = c.value[1] % 256 /\ w.start = c.value[2] % 256
    BY <1>1, <1>6, <2>1, SongsWritten
  <2>3. x.songs = c.value[1] % 256 /\ x.start = c.value[2] % 256
    BY <1>1, <1>6, <2>1, SongsWritten
  <2>4. field \in {"songs", "start"}
    BY <1>6 DEF Touched, Texts
  <2> QED
    BY <2>2, <2>3, <2>4
<1>7. CASE c.keyword = "INITPLAY" /\ c.value \in Seq(Nat)
  <2>1. w \in WriteInitPlay(i, c.value) /\ x \in WriteInitPlay(k, c.value)
    BY <1>1, <1>7, WriteIs
  <2>2. w.init = c.value[1] % 65536 /\ w.play = c.value[2] % 65536
    BY <1>1, <1>7, <2>1, InitPlayWritten
  <2>3. x.init = c.value[1] % 65536 /\ x.play = c.value[2] % 65536
    BY <1>1, <1>7, <2>1, InitPlayWritten
  <2>4. field \in {"init", "play"}
    BY <1>7 DEF Touched, Texts
  <2> QED
    BY <2>2, <2>3, <2>4
<1>8. CASE c.keyword = "FREEPAGES" /\ c.value \in Seq(Nat)
  <2> DEFINE start == IF c.value[1] % 256 # 255 /\ c.value[2] % 256 = 0 THEN 0
                      ELSE c.value[1] % 256
             pages == IF c.value[1] % 256 = 255 THEN 0 ELSE c.value[2] % 256
  <2>1. w \in WriteFreePages(i, c.value) /\ x \in WriteFreePages(k, c.value)
    BY <1>1, <1>8, WriteIs
  <2>2. w.startPage = start /\ w.pages = pages
    BY <1>1, <1>8, <2>1, FreePagesWritten
  <2>3. x.startPage = start /\ x.pages = pages
    BY <1>1, <1>8, <2>1, FreePagesWritten
  <2>4. field \in {"startPage", "pages"}
    BY <1>8 DEF Touched, Texts
  <2> HIDE DEF start, pages
  <2> QED
    BY <2>2, <2>3, <2>4
<1>9. CASE c.keyword = "MUSPLAYER"
  <2>1. w.mus = (c.value = "1") /\ x.mus = (c.value = "1")
    BY <1>1, <1>9, WriteIs, MusPlayerWritten
  <2>2. field = "mus"
    BY <1>9 DEF Touched, Texts
  <2> QED
    BY <2>1, <2>2
<1>10. CASE c.keyword = "PLAYSID"
  <2>1. w \in WritePlaySid(i, c.value) /\ x \in WritePlaySid(k, c.value)
    BY <1>1, <1>10, WriteIs
  <2>2. w.compatibility = IF c.value = "1" THEN "PSID" ELSE "C64"
    BY <1>1, <2>1, PlaySidWritten
  <2>3. x.compatibility = IF c.value = "1" THEN "PSID" ELSE "C64"
    BY <1>1, <2>1, PlaySidWritten
  <2>4. field = "compatibility"
    BY <1>10 DEF Touched, Texts
  <2> QED
    BY <2>2, <2>3, <2>4
<1>11. CASE c.keyword = "CLOCK"
  <2>1. w \in WriteClock(i, c.value) /\ x \in WriteClock(k, c.value)
    BY <1>1, <1>11, WriteIs
  <2>2. w.clock = ClockNamed[c.value] /\ x.clock = ClockNamed[c.value]
    BY <1>1, <2>1, ClockWritten
  <2>3. field = "clock"
    BY <1>11 DEF Touched, Texts
  <2> QED
    BY <2>2, <2>3
<1>12. CASE c.keyword = "SIDMODEL"
  <2> DEFINE models == [n \in 1..3 |-> IF n = 1 THEN ChipNamed[c.value] ELSE {}]
  <2>1. w \in WriteSidModel(i, c.value) /\ x \in WriteSidModel(k, c.value)
    BY <1>1, <1>12, WriteIs
  <2>2. w.models = models /\ x.models = models
    BY <1>1, <2>1, SidModelWritten
  <2>3. field = "models"
    BY <1>12 DEF Touched, Texts
  <2> HIDE DEF models
  <2> QED
    BY <2>2, <2>3
<1>13. CASE c.keyword = "FLAGS"
  <2> DEFINE lines == c.value
  <2>1. w \in WriteFlags(i, lines) /\ x \in WriteFlags(k, lines)
    BY <1>1, <1>13, WriteIs
  <2>2. field \in FlagFields
    BY <1>13 DEF Touched, Texts
  <2> HIDE DEF lines
  <2>3. x.mus = k.mus \/ x.mus = w.mus
    <3>1. lines[1] \in Starred => x.mus = k.mus
      BY <1>1, <2>1, FlagsWritten
    <3>2. lines[1] \notin Starred => w.mus = (lines[1] = "1")
      BY <1>1, <2>1, FlagsWritten
    <3>3. lines[1] \notin Starred => x.mus = (lines[1] = "1")
      BY <1>1, <2>1, FlagsWritten
    <3> QED
      BY <3>1, <3>2, <3>3
  <2>4. x.compatibility = k.compatibility \/ x.compatibility = w.compatibility
    <3> DEFINE line == lines[2]
    <3>1. IF line \in Starred THEN w.compatibility = i.compatibility
          ELSE /\ line \in {"0", "1"} /\ ~ Rsid(i)
               /\ w.compatibility = IF line = "1" THEN "PSID" ELSE "C64"
      BY <1>1, <2>1, FlagsWritten
    <3>2. IF line \in Starred THEN x.compatibility = k.compatibility
          ELSE /\ line \in {"0", "1"} /\ ~ Rsid(k)
               /\ x.compatibility = IF line = "1" THEN "PSID" ELSE "C64"
      BY <1>1, <2>1, FlagsWritten
    <3> HIDE DEF line
    <3> QED
      BY <3>1, <3>2
  <2>5. x.clock = k.clock \/ x.clock = w.clock
    <3> DEFINE name == lines[3]
    <3>1. IF name \in Starred THEN w.clock = i.clock
          ELSE name \in DOMAIN ClockNamed /\ w.clock = ClockNamed[name]
      BY <1>1, <2>1, FlagsWritten
    <3>2. IF name \in Starred THEN x.clock = k.clock
          ELSE name \in DOMAIN ClockNamed /\ x.clock = ClockNamed[name]
      BY <1>1, <2>1, FlagsWritten
    <3> HIDE DEF name
    <3> QED
      BY <3>1, <3>2
  <2>6. x.models = k.models \/ x.models = w.models
    <3> DEFINE models == [n \in 1..3 |-> IF n = 1 THEN ChipNamed[lines[4]] ELSE {}]
    <3>1. lines[4] \in Starred \/ w.models = models
      BY <1>1, <2>1, FlagsWritten
    <3>2. x.models = k.models \/ (lines[4] \notin Starred /\ x.models = models)
      BY <1>1, <2>1, FlagsWritten
    <3> HIDE DEF models
    <3> QED
      BY <3>1, <3>2
  <2> QED
    BY <2>2, <2>3, <2>4, <2>5, <2>6 DEF FlagFields
<1> QED
  BY <1>1, <1>3, <1>4, <1>5, <1>6, <1>7, <1>8, <1>9, <1>10, <1>11, <1>12, <1>13, CommandKinds

\* SPEED gives the same speeds when it is repeated on what it has saved.
LEMMA SpeedGiven ==
    ASSUME NEW f, NEW g, NEW v, NEW c, NEW i, NEW w, NEW k, NEW x,
           Edit(f, v, c, i, w), Edit(g, v, c, k, x), c.keyword # "FIXLOAD",
           k.compatibility = w.compatibility, k.songs = AcceptedSongs(w), k.speed = SpeedOf(w)
    PROVE  x.songs = w.songs /\ SpeedOf(x) = SpeedOf(w)
<1>1. Well(i) /\ Well(k) /\ Well(w) /\ c \in Command /\ w \in Write(i, c) /\ x \in Write(k, c)
  BY Edited DEF Edit
<1>2. w.songs \in 0..MaxSongs
  BY <1>1, WellFields
<1>3. x.songs = w.songs
  <2>1. CASE c.keyword = "SONGS"
    <3>1. w \in WriteSongs(i, c.value) /\ x \in WriteSongs(k, c.value) /\ c.value \in Seq(Nat)
      BY <1>1, <2>1, WriteIs, CommandKinds DEF Texts
    <3>2. w.songs = c.value[1] % 256
      BY <1>1, <3>1, SongsWritten
    <3>3. x.songs = c.value[1] % 256
      BY <1>1, <3>1, SongsWritten
    <3> QED
      BY <3>2, <3>3
  <2>2. CASE c.keyword # "SONGS"
    <3>1. "songs" \in Fields /\ "songs" \notin Touched(c.keyword)
      BY <1>1, <2>2, CommandKinds DEF Touched, Texts, FlagFields, Fields
    <3>2. w["songs"] = i["songs"]
      BY <3>1, Kept
    <3>3. x["songs"] = k["songs"]
      BY <3>1, Kept
    <3>4. i.songs \in 1..MaxSongs
      BY LoadedFacts DEF Edit
    <3>5. AcceptedSongs(w) = w.songs
      BY <3>2, <3>4 DEF AcceptedSongs, MaxSongs
    <3> QED
      BY <3>3, <3>5
  <2> QED
    BY <2>1, <2>2
<1>4. Rsid(x) <=> Rsid(w)
  <2>1. Rsid(x) <=> Rsid(k)
    BY KindKept
  <2> QED
    BY <2>1 DEF Rsid
<1>5. CASE Rsid(w)
  BY <1>3, <1>4, <1>5 DEF SpeedOf
<1>6. CASE ~ Rsid(w) /\ c.keyword = "SPEED"
  <2>1. w.compatibility # "BASIC" /\ x.compatibility # "BASIC"
    BY <1>4, <1>6 DEF Rsid
  <2>2. SpeedOf(w) = SongSpeeds(c.value, w.songs)
    BY <1>6, <2>1, SpeedTaken
  <2>3. SpeedOf(x) = SongSpeeds(c.value, x.songs)
    BY <1>6, <2>1, SpeedTaken
  <2> QED
    BY <1>3, <2>2, <2>3
<1>7. CASE ~ Rsid(w) /\ c.keyword # "SPEED"
  <2>1. x["speed"] = k["speed"]
    <3>1. "speed" \in Fields /\ "speed" \notin Touched(c.keyword)
      BY <1>1, <1>7, CommandKinds DEF Touched, Texts, FlagFields, Fields
    <3> QED
      BY <3>1, Kept
  <2>2. x.speed = SongSpeeds(SavedSpeed(w), w.songs)
    BY <1>7, <2>1 DEF SpeedOf
  <2>3. SavedSpeed(x) = {s \in SongSpeeds(SavedSpeed(w), w.songs) : s < w.songs /\ s < 32}
    BY <1>3, <1>4, <1>7, <2>2 DEF SavedSpeed
  <2>4. SongSpeeds(SavedSpeed(x), w.songs) = SongSpeeds(SavedSpeed(w), w.songs)
    BY <1>2, <2>3, SpeedsAgain
  <2> QED
    BY <1>3, <1>4, <1>7, <2>4 DEF SpeedOf
<1> QED
  BY <1>5, <1>6, <1>7

\* A line that was accepted is accepted again.
LEMMA AcceptedAgain ==
    ASSUME NEW i, NEW w, NEW c \in Command, Well(i), Compatible(i), w \in Write(i, c),
           Well(w), Compatible(w), c.keyword # "FIXLOAD",
           Rsid(w) <=> Rsid(i), Rsid(i) => w.compatibility = i.compatibility,
           NEW k, Well(k), k.compatibility = w.compatibility,
           k.load = i.load, k.length = i.length
    PROVE  Write(k, c) # {}
<1>1. i \in Info /\ k \in Info
  BY WellFields
<1>2. Rsid(k) <=> Rsid(i)
  BY DEF Rsid
<1>3. CASE c.keyword \in Texts
  <2>1. Write(k, c) = WriteCredit(k, CreditOf[c.keyword], c.value)
    BY <1>3, WriteIs
  <2> QED
    BY <2>1 DEF WriteCredit
<1>4. CASE c.keyword = "CREDITS"
  <2>1. Write(k, c) = WriteCredits(k, c.value)
    BY <1>4, WriteIs
  <2> QED
    BY <2>1 DEF WriteCredits
<1>5. CASE c.keyword = "SPEED"
  <2>1. w \in WriteSpeed(i, c.value) /\ Write(k, c) = WriteSpeed(k, c.value)
    BY <1>5, WriteIs
  <2>2. i.compatibility # "R64"
    BY <2>1, SpeedWritten
  <2>3. k.compatibility # "R64"
    BY <2>2 DEF Rsid
  <2> QED
    BY <2>1, <2>3 DEF WriteSpeed
<1>6. CASE c.keyword = "SONGS" /\ c.value \in Seq(Nat)
  <2>1. w \in WriteSongs(i, c.value) /\ Write(k, c) = WriteSongs(k, c.value)
    BY <1>6, WriteIs
  <2>2. Len(c.value) = 2
    BY <1>6, <2>1, SongsWritten
  <2> QED
    BY <2>1, <2>2 DEF WriteSongs
<1>7. CASE c.keyword = "INITPLAY" /\ c.value \in Seq(Nat)
  <2> DEFINE a == c.value[1] % 65536
             b == c.value[2] % 65536
             j == [k EXCEPT !.init = a, !.play = b]
  <2>1. w \in WriteInitPlay(i, c.value) /\ Write(k, c) = WriteInitPlay(k, c.value)
    BY <1>7, WriteIs
  <2>2. Changed(i, w, {"init", "play"}) /\ Len(c.value) = 2 /\ w.init = a /\ w.play = b
    BY <1>7, <2>1, InitPlayWritten
  <2>3. WriteInitPlay(k, c.value) = IF Len(c.value) = 2 /\ Compatible(j) THEN {j} ELSE {}
    BY DEF WriteInitPlay
  <2> HIDE DEF a, b
  <2>4. DOMAIN k = Fields /\ {"init", "play", "load", "length", "compatibility"} \subseteq Fields
    BY <1>1, InfoDomain DEF Fields
  <2>5. /\ j.init = a /\ j.play = b /\ j.load = k.load /\ j.length = k.length
        /\ j.compatibility = k.compatibility
    BY <2>4
  <2>6. w.load = i.load /\ w.length = i.length
    BY <2>2 DEF Changed, Same, Fields
  <2> HIDE DEF j
  <2>7. Compatible(j)
    BY <2>2, <2>5, <2>6, CompatibleSame
  <2> QED
    BY <2>1, <2>2, <2>3, <2>7
<1>8. CASE c.keyword = "FREEPAGES" /\ c.value \in Seq(Nat)
  <2> DEFINE a == c.value[1] % 256
             b == c.value[2] % 256
             x == [i EXCEPT !.startPage = a, !.pages = b]
             j == [k EXCEPT !.startPage = a, !.pages = b]
  <2>1. w \in WriteFreePages(i, c.value) /\ Write(k, c) = WriteFreePages(k, c.value)
    BY <1>8, WriteIs
  <2>2. Len(c.value) = 2
    BY <1>8, <2>1, FreePagesWritten
  <2>3. w \in Relocatable(x) /\ WriteFreePages(k, c.value) = Relocatable(j)
    BY <2>1, <2>2 DEF WriteFreePages
  <2> HIDE DEF a, b
  <2>4. /\ DOMAIN i = Fields /\ DOMAIN k = Fields
        /\ {"startPage", "pages", "load", "length"} \subseteq Fields
    BY <1>1, InfoDomain DEF Fields
  <2>5. /\ j.startPage = a /\ j.pages = b /\ j.load = k.load /\ j.length = k.length
        /\ x.startPage = a /\ x.pages = b /\ x.load = i.load /\ x.length = i.length
    BY <2>4
  <2> HIDE DEF x, j
  <2>6. FreePages(x) => FreePages(j)
    BY <2>5 DEF FreePages
  <2>7. Relocatable(x) # {} => Relocatable(j) # {}
    BY <2>5, <2>6 DEF Relocatable
  <2> QED
    BY <2>1, <2>3, <2>7
<1>9. CASE c.keyword = "MUSPLAYER"
  <2>1. w \in WriteMusPlayer(i, c.value) /\ Write(k, c) = WriteMusPlayer(k, c.value)
    BY <1>9, WriteIs
  <2>2. c.value \in {"0", "1"}
    BY <2>1, MusPlayerWritten
  <2> QED
    BY <2>1, <2>2 DEF WriteMusPlayer
<1>10. CASE c.keyword = "PLAYSID"
  <2>1. w \in WritePlaySid(i, c.value) /\ Write(k, c) = WritePlaySid(k, c.value)
    BY <1>10, WriteIs
  <2>2. c.value \in {"0", "1"} /\ ~ Rsid(k)
    BY <1>2, <2>1, PlaySidWritten
  <2> QED
    BY <2>1, <2>2 DEF WritePlaySid, Rsid
<1>11. CASE c.keyword = "CLOCK"
  <2>1. w \in WriteClock(i, c.value) /\ Write(k, c) = WriteClock(k, c.value)
    BY <1>11, WriteIs
  <2>2. c.value \in DOMAIN ClockNamed
    BY <2>1, ClockWritten
  <2> QED
    BY <2>1, <2>2 DEF WriteClock
<1>12. CASE c.keyword = "SIDMODEL"
  <2>1. w \in WriteSidModel(i, c.value) /\ Write(k, c) = WriteSidModel(k, c.value)
    BY <1>12, WriteIs
  <2>2. c.value \in DOMAIN ChipNamed
    BY <2>1, SidModelWritten
  <2> QED
    BY <2>1, <2>2 DEF WriteSidModel
<1>13. CASE c.keyword = "FLAGS"
  <2> DEFINE lines == c.value
             One == IF lines[1] \in Starred THEN {k}
                    ELSE UNION {WriteMusPlayer(j, lines[1]) : j \in {k}}
             Two == IF lines[2] \in Starred THEN One
                    ELSE UNION {WritePlaySid(j, lines[2]) : j \in One}
             Three == IF lines[3] \in Starred THEN Two
                      ELSE UNION {WriteClock(j, lines[3]) : j \in Two}
             Four == IF lines[4] \in Starred THEN Three
                     ELSE UNION {WriteSidModel(j, lines[4]) : j \in Three}
  <2>1. w \in WriteFlags(i, lines) /\ Write(k, c) = WriteFlags(k, lines)
    BY <1>13, WriteIs
  <2>2. WriteFlags(k, lines) = Four
    BY DEF WriteFlags
  <2> HIDE DEF lines
  <2>3. /\ lines[1] \in Starred \/ lines[1] \in {"0", "1"}
        /\ lines[2] \in Starred \/ (lines[2] \in {"0", "1"} /\ ~ Rsid(k))
    BY <1>2, <2>1, FlagsWritten
  <2>4. lines[3] \in Starred \/ lines[3] \in DOMAIN ClockNamed
    BY <2>1, FlagsWritten
  <2>5. lines[4] \in Starred \/ lines[4] \in DOMAIN ChipNamed
    BY <2>1, FlagsWritten
  <2> HIDE DEF Four
  <2>6. PICK a \in One : Well(a) /\ (Rsid(a) <=> Rsid(k))
    <3>1. CASE lines[1] \in Starred
      BY <3>1
    <3>2. CASE lines[1] \notin Starred
      <4>1. One = WriteMusPlayer(k, lines[1])
        BY <3>2
      <4>2. PICK a : a \in WriteMusPlayer(k, lines[1])
        BY <2>3, <3>2 DEF WriteMusPlayer
      <4>3. Changed(k, a, {"mus"})
        BY <4>2, MusPlayerWritten
      <4> QED
        BY <4>1, <4>2, <4>3 DEF Changed, Same, Rsid, Fields
    <3> QED
      BY <3>1, <3>2
  <2> HIDE DEF One
  <2>7. PICK b : b \in Two
    <3>1. CASE lines[2] \in Starred
      BY <2>6, <3>1
    <3>2. CASE lines[2] \notin Starred
      <4>1. WritePlaySid(a, lines[2]) # {}
        BY <2>3, <2>6, <3>2 DEF WritePlaySid, Rsid
      <4> QED
        BY <2>6, <3>2, <4>1
    <3> QED
      BY <3>1, <3>2
  <2> HIDE DEF Two
  <2>8. PICK d : d \in Three
    <3>1. lines[3] \notin Starred => WriteClock(b, lines[3]) # {}
      BY <2>4 DEF WriteClock
    <3> QED
      BY <2>7, <3>1
  <2> HIDE DEF Three
  <2>9. Four # {}
    <3>1. lines[4] \notin Starred => WriteSidModel(d, lines[4]) # {}
      BY <2>5 DEF WriteSidModel
    <3> QED
      BY <2>8, <3>1 DEF Four
  <2> QED
    BY <2>1, <2>2, <2>9
<1> QED
  BY <1>3, <1>4, <1>5, <1>6, <1>7, <1>8, <1>9, <1>10, <1>11, <1>12, <1>13, CommandKinds

\* What is saved is loaded as long as what has been loaded.
LEMMA EditAgain ==
    ASSUME NEW f, NEW v, NEW c, NEW i, NEW w, Edit(f, v, c, i, w), c.keyword # "FIXLOAD",
           NEW k \in Load(Saved(w, v), v)
    PROVE  /\ k.load = i.load /\ k.length = i.length
           /\ \A x \in Write(k, c) : Edit(Saved(w, v), v, c, k, x)
<1>1. v \in BOOLEAN /\ c \in Command /\ i.length > 2
  BY DEF Edit
<1>2. Well(w) /\ w.length \in Nat \ {0}
  BY Edited
<1>3. k.load = w.load /\ k.length = w.length
  BY <1>1, <1>2, Reloaded
<1>4. w["load"] = i["load"]
  <2>1. "load" \in Fields /\ "load" \notin Touched(c.keyword)
    BY <1>1, NamedKinds DEF Fields
  <2> QED
    BY <2>1, Kept
<1>5. w["length"] = i["length"]
  <2>1. "length" \in Fields /\ "length" \notin Touched(c.keyword)
    BY <1>1, CommandKinds DEF Touched, Texts, FlagFields, Fields
  <2> QED
    BY <2>1, Kept
<1>6. Saved(w, v) \in File
  <2>1. w.length > 0 /\ w \in Info
    BY <1>2, WellFields
  <2> QED
    BY <1>1, <2>1, SavedType
<1> QED
  BY <1>1, <1>3, <1>4, <1>5, <1>6 DEF Edit

\* A command that is repeated saves what loads as the same object.
LEMMA Repeated ==
    ASSUME NEW f, NEW v, NEW c, NEW i, NEW w, Edit(f, v, c, i, w), c.keyword # "FIXLOAD",
           NEW k \in Load(Saved(w, v), v), NEW x \in Write(k, c),
           NEW j \in Load(Saved(x, v), v)
    PROVE  v = TRUE => j = k
<1> DEFINE g == Saved(w, v)
<1>1. Edit(g, v, c, k, x) /\ v \in BOOLEAN
  BY EditAgain DEF Edit
<1>2. Well(w) /\ w.length \in Nat \ {0} /\ Well(k) /\ Well(x) /\ x.length \in Nat \ {0}
  BY <1>1, Edited
<1>3. /\ \A field \in {"version", "load", "credits", "mus", "reserved", "dropped", "length"} :
           k[field] = w[field]
      /\ k.play = IF Rsid(w) THEN 0 ELSE w.play
      /\ k.songs = AcceptedSongs(w)
      /\ k.start = IF w.start \in 1..k.songs THEN w.start ELSE 1
      /\ k.speed = SpeedOf(w)
  BY <1>1, <1>2, Reloaded
<1>4. /\ Well(j)
      /\ \A field \in {"version", "load", "credits", "mus", "reserved", "dropped", "length"} :
           j[field] = x[field]
      /\ j.play = IF Rsid(x) THEN 0 ELSE x.play
      /\ j.songs = AcceptedSongs(x)
      /\ j.start = IF x.start \in 1..j.songs THEN x.start ELSE 1
      /\ j.speed = SpeedOf(x)
  BY <1>1, <1>2, Reloaded
<1>5. \A field \in Fields \ {"speed"} : x[field] = k[field] \/ x[field] = w[field]
  <2>1. k.credits = w.credits
    BY <1>3
  <2> QED
    BY <1>1, <2>1, Given
<1>6. k.compatibility = w.compatibility => x.songs = w.songs /\ SpeedOf(x) = SpeedOf(w)
  BY <1>1, <1>3, SpeedGiven
<1>7. (Rsid(x) <=> Rsid(k)) /\ (Rsid(k) => x.compatibility = k.compatibility)
  BY <1>1, KindKept
<1>8. v => Settled(i) /\ Settled(k)
  <2>1. v => Settled(i)
    BY LoadedFacts DEF Edit
  <2>2. v => Settled(k)
    BY <1>1, LoadedFacts DEF Edit
  <2> QED
    BY <2>1, <2>2
<1>9. (Settled(i) => Settled(w)) /\ (Settled(k) => Settled(x))
  <2>1. Settled(i) => Settled(w)
    BY SettledKept
  <2>2. Settled(k) => Settled(x)
    BY <1>1, SettledKept
  <2> QED
    BY <2>1, <2>2
<1>10. k.compatibility # "BASIC" /\ k.init = 0 => k.load = 0
  BY <1>1, LoadedFacts DEF Edit
<1>11. k.start \in 1..k.songs
  BY <1>1, LoadedFacts DEF Edit
<1> SUFFICES ASSUME v = TRUE PROVE j = k
  OBVIOUS
<1>12. v
  OBVIOUS
<1>13. /\ k.compatibility = w.compatibility /\ k.models = w.models
       /\ k.clock = IF w.mus THEN Standard ELSE w.clock
       /\ k.init = IF w.compatibility = "BASIC" THEN 0 ELSE IF w.init = 0 THEN w.load ELSE w.init
       /\ k.startPage = w.startPage /\ k.pages = w.pages
  BY <1>2, <1>8, <1>9, <1>12, ReloadedFlags
<1>14. /\ j.compatibility = x.compatibility /\ j.models = x.models
       /\ j.clock = IF x.mus THEN Standard ELSE x.clock
       /\ j.init = IF x.compatibility = "BASIC" THEN 0 ELSE IF x.init = 0 THEN x.load ELSE x.init
       /\ j.startPage = x.startPage /\ j.pages = x.pages
  BY <1>2, <1>8, <1>9, <1>12, ReloadedFlags
<1>15. ASSUME NEW field \in {"version", "load", "credits", "mus", "reserved", "dropped", "length"}
       PROVE  j[field] = k[field]
  <2>1. x[field] = k[field] \/ x[field] = w[field]
    BY <1>5 DEF Fields
  <2> QED
    BY <1>3, <1>4, <2>1
<1>16. ASSUME NEW field \in {"compatibility", "models", "startPage", "pages"}
       PROVE  j[field] = k[field]
  <2>1. x[field] = k[field] \/ x[field] = w[field]
    BY <1>5 DEF Fields
  <2> QED
    BY <1>13, <1>14, <2>1
<1>17. j.play = k.play
  <2>1. x.play = k.play \/ x.play = w.play
    BY <1>5 DEF Fields
  <2>2. Rsid(x) <=> Rsid(w)
    BY <1>7, <1>13 DEF Rsid
  <2> QED
    BY <1>3, <1>4, <2>1, <2>2
<1>18. x.songs = w.songs /\ j.speed = k.speed
  BY <1>3, <1>4, <1>6, <1>13
<1>19. j.songs = k.songs
  BY <1>3, <1>4, <1>18 DEF AcceptedSongs
<1>20. j.start = k.start
  <2>1. x.start = k.start \/ x.start = w.start
    BY <1>5 DEF Fields
  <2> QED
    BY <1>3, <1>4, <1>11, <1>19, <2>1
<1>21. j.clock = k.clock
  <2>1. x.clock = k.clock \/ x.clock = w.clock
    BY <1>5 DEF Fields
  <2>2. x.mus = w.mus
    BY <1>3, <1>5 DEF Fields
  <2> QED
    BY <1>13, <1>14, <2>1, <2>2
<1>22. j.init = k.init
  <2>1. x.init = k.init \/ x.init = w.init
    BY <1>5 DEF Fields
  <2>2. x.load = w.load /\ k.load = w.load
    BY <1>3, <1>5 DEF Fields
  <2>3. x.compatibility = "BASIC" <=> w.compatibility = "BASIC"
    BY <1>7, <1>13 DEF Rsid
  <2> QED
    BY <1>10, <1>13, <1>14, <2>1, <2>2, <2>3
<1>23. Same(k, j, {})
  BY <1>15, <1>16, <1>17, <1>18, <1>19, <1>20, <1>21, <1>22 DEF Same, Fields
<1>24. j \in Info /\ k \in Info
  BY <1>2, <1>4, WellFields
<1> QED
  BY <1>23, <1>24, InfoEqual

\* The tune loads, the command succeeds, and what it saves loads as the same object.
Repeatable(t, v, c) ==
    \E k : /\ Load(t, v) = {k}
           /\ Write(k, c) # {}
           /\ \A x \in Write(k, c) : Load(Saved(x, v), v) = {k}

\* A command repeated on what it has saved succeeds, and what is loaded stays the
\* same.
LEMMA Harmless ==
    ASSUME NEW f, NEW v, NEW c, NEW i, NEW w, Edit(f, v, c, i, w), c.keyword # "FIXLOAD"
    PROVE  v = TRUE => Repeatable(Saved(w, v), v, c)
<1> DEFINE g == Saved(w, v)
<1>1. Well(i) /\ Compatible(i) /\ Well(w) /\ Compatible(w) /\ w.length \in Nat \ {0}
  BY Edited
<1>2. f \in File /\ v \in BOOLEAN /\ c \in Command /\ w \in Write(i, c) /\ i.length > 2
  BY DEF Edit
<1>3. Ready(w, v)
  BY <1>2, WrittenReady DEF Edit
<1>4. (Rsid(w) <=> Rsid(i)) /\ (Rsid(i) => w.compatibility = i.compatibility)
  BY KindKept
<1>5. \A k \in Load(g, v) : k.load = i.load /\ k.length = i.length
  BY EditAgain
<1> SUFFICES ASSUME v = TRUE PROVE Repeatable(g, v, c)
  OBVIOUS
<1>6. g \in File /\ Load(g, v) # {}
  BY <1>2, <1>3, ReadyType, ReadyLoads
<1>7. PICK k : k \in Load(g, v)
  BY <1>6
<1>8. Load(g, v) = {k} /\ Well(k)
  BY <1>2, <1>6, <1>7, Loaded
<1>9. k.compatibility = w.compatibility
  <2>1. v = TRUE
    BY <1>2
  <2> QED
    BY <1>1, <1>7, <2>1, ReloadedFlags
<1>10. k.load = i.load /\ k.length = i.length
  BY <1>5, <1>7
<1>11. Write(k, c) # {}
  BY <1>1, <1>2, <1>4, <1>8, <1>9, <1>10, AcceptedAgain
<1>12. ASSUME NEW x \in Write(k, c) PROVE Load(Saved(x, v), v) = {k}
  <2>1. k.length > 2
    BY <1>2, <1>10
  <2>2. Ready(x, v)
    BY <1>2, <1>6, <1>7, <2>1, WrittenReady
  <2>3. Saved(x, v) \in File /\ Load(Saved(x, v), v) # {}
    BY <1>2, <2>2, ReadyType, ReadyLoads
  <2>4. PICK j : j \in Load(Saved(x, v), v)
    BY <2>3
  <2>5. Load(Saved(x, v), v) = {j}
    BY <1>2, <2>3, <2>4, Loaded
  <2>6. j = k
    BY <1>7, <1>12, <2>4, Repeated
  <2> QED
    BY <2>5, <2>6
<1> QED
  BY <1>8, <1>11, <1>12 DEF Repeatable

\* Executing a command once more in a run for version 3.9 or later succeeds and changes
\* nothing, whatever tune it was executed on; but for FIXLOAD.
THEOREM RepeatingNeverHarms == Spec => []RepeatingIsHarmless
<1>1. ASSUME Inv PROVE RepeatingIsHarmless
  <2>1. SUFFICES ASSUME outcome = "saved", cmd.keyword # "FIXLOAD", v2ng = TRUE
                 PROVE  Repeatable(tune, v2ng, cmd)
    BY DEF Repeatable, RepeatingIsHarmless
  <2>2. cmd \in Command /\ v2ng \in BOOLEAN
    BY <1>1, <2>1 DEF Inv, SavedShape
  <2>3. PICK f \in File : \E i \in Load(f, v2ng) : \E w \in Write(i, cmd) :
               i.length > 2 /\ tune = Saved(w, v2ng)
    BY <1>1, <2>1 DEF Inv, SavedShape
  <2>4. PICK i \in Load(f, v2ng) : \E w \in Write(i, cmd) :
               i.length > 2 /\ tune = Saved(w, v2ng)
    BY <2>3
  <2>5. PICK w \in Write(i, cmd) : i.length > 2 /\ tune = Saved(w, v2ng)
    BY <2>4
  <2>6. Edit(f, v2ng, cmd, i, w)
    BY <2>2, <2>5 DEF Edit
  <2> QED
    BY <2>1, <2>5, <2>6, Harmless
<1> QED
  BY <1>1, InvHolds, PTL
=============================================================================
