------------------------------ MODULE MCSidTune ------------------------------
(***************************************************************************)
(* Small collections and commands for SidTune: one tune of each kind and   *)
(* version, and for every keyword lines that are accepted and refused.     *)
(***************************************************************************)
EXTENDS SidTune

\* A PSID file at $1000 with two songs, the first of them by the timer.
Plain ==
    [id |-> "PSID", version |-> 2, load |-> 0, origin |-> 4096,
     init |-> 4096, play |-> 4099, songs |-> 2, start |-> 1, speed |-> {0},
     credits |-> [n \in 1..3 |-> "a"], mus |-> FALSE, specific |-> FALSE,
     clock |-> {"PAL"}, models |-> [n \in 1..3 |-> IF n = 1 THEN {"6581"} ELSE {}],
     startPage |-> 32, pages |-> 4, reserved |-> 0, dropped |-> 0, length |-> 2048]

\* What a version 1 header has where later ones have flags means nothing.
Old == [Plain EXCEPT !.version = 1, !.load = 4096, !.init = 0, !.origin = 0,
                     !.specific = TRUE]

\* Garbage in the fields that were reserved before version 2NG.
Garbage == [Plain EXCEPT !.startPage = 17, !.pages = 200, !.reserved = 1]

Sidplayer == [Plain EXCEPT !.mus = TRUE, !.specific = TRUE]

Stereo == [Plain EXCEPT !.version = 3, !.models[2] = {"8580"}, !.reserved = 16896,
                        !.startPage = 255, !.pages = 0]

Three == [Stereo EXCEPT !.version = 4, !.models[3] = Chip, !.songs = 40, !.start = 33]

Real == [Plain EXCEPT !.id = "RSID", !.play = 0, !.speed = {}, !.startPage = 0]

Basic == [Real EXCEPT !.specific = TRUE, !.init = 0, !.origin = 2049]

\* A BASIC tune cannot be there, but nothing looks whether it is.
Below == [Basic EXCEPT !.origin = 40960]

Bottom == [Plain EXCEPT !.origin = 0, !.init = 0]

MCCollection ==
    {Plain, Old, Garbage, Sidplayer, Stereo, Three, Real, Basic, Below, Bottom}

Lines(keyword, values) == [keyword : {keyword}, value : values]

MCCommand ==
    Lines("TITLE", {"b"}) \cup Lines("RELEASED", {"*b"})
      \cup Lines("CREDITS", {<<"*", "b", "*b">>})
      \cup Lines("SPEED", {{}, {0, 1, 31}})
      \cup Lines("SONGS", {<<1, 1>>, <<3, 2>>, <<2, 3>>, <<300, 1>>, <<256, 1>>, <<7>>})
      \cup Lines("INITPLAY", {<<0, 0>>, <<4096, 4102>>, <<4099, 0>>, <<40960, 0>>, <<69632, 0>>,
                             <<0>>})
      \cup Lines("FREEPAGES", {<<40, 2>>, <<16, 1>>, <<255, 3>>, <<200, 9>>, <<296, 258>>,
                              <<9>>})
      \cup Lines("MUSPLAYER", {"0", "1", "2"})
      \cup Lines("PLAYSID", {"0", "1"})
      \cup Lines("CLOCK", {"NTSC", "EITHER", "b"})
      \cup Lines("SIDMODEL", {"8580", "UNKNOWN"})
      \cup Lines("FLAGS", {<<"0", "*", "PAL", "8580">>, <<"*", "1", "b", "*">>,
                           <<"1", "*", "*", "ANY">>})
      \cup {[keyword |-> "FIXLOAD"]}

MCLength == {1024}
=============================================================================
