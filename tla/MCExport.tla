------------------------------ MODULE MCExport ------------------------------
EXTENDS Export

\* .env.example, with its blanks filled in.
Example ==
  [s \in Settings |->
     CASE s \in Texts -> "text"
       [] s \in Switches -> "false"
       [] s \in Numbers -> "3"
       [] s \in Limits -> "enough"
       [] s \in Chosen -> ""
       [] s = "STORAGE_TYPE" -> "s3"]

SwitchedOn == [s \in Settings |-> IF s \in Switches THEN "true" ELSE Example[s]]

\* A user leaves the switches off or turns all of them on, and changes one
\* setting besides.
MCEnvironments ==
  UNION {{[e EXCEPT ![s] = v] : v \in Values(s)} :
           e \in {Example, SwitchedOn}, s \in Settings}

Cards == {<<>>, <<"unreadable">>, <<"0x10de">>, <<"0x8086">>, <<"0x1002">>,
          <<"other", "0x10de">>}

\* Every place of ffmpeg with every card, and a machine without ffprobe.
MCMachines ==
  [ffmpegIn : {{}, {"PATH"}, {"FFMPEG_PATH"}}, ffprobe : {TRUE}, cards : Cards]
    \cup [ffmpegIn : {{"PATH"}}, ffprobe : {FALSE}, cards : {<<>>, <<"0x10de">>}]

\* Trim points before, at, in and after a video of 60 s, and one of 1001 ms,
\* whose end a timestamp may miss; and one of half a millisecond.
MCTrims == {-4000, 0, 2, 4004, 240000, 360000}
=============================================================================
