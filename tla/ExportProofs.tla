---------------------------- MODULE ExportProofs ----------------------------
(***************************************************************************)
(* Proofs about Config and Export, for every environment, every machine,   *)
(* and any lengths, trim points and target sizes: what a start chooses,    *)
(* that what was accepted runs, and what an export's numbers say.          *)
(***************************************************************************)
EXTENDS Export, SequenceTheorems, FiniteSetTheorems, WellFoundedInduction, TLAPS

(***************************************************************************)
(* Arguments, piece by piece.  A piece of a list ends with an option's     *)
(* value or with what takes none, so that how ffmpeg reads a list is how   *)
(* it reads the pieces.                                                    *)
(***************************************************************************)
CodecOptions == {"-c:v", "-hwaccel"}

\* What the lists are made of.
Words ==
  TakesValue \cup Plain \cup
    {"in", "out", "n", "0", "time", "how", "copy", "error", "mp4", "pipe:1", "pipe:2",
     "preset", "slow", "yuv420p", "p7", "vbr", "libx264", "h264_nvenc", "h264_qsv",
     "h264_vaapi", "cuda", "qsv", "vaapi"}

Piece(a, outs, codecs) ==
  /\ a \in Seq(Words)
  /\ a # <<>> => a[Len(a)] \notin TakesValue
  /\ Outputs(a) = outs
  /\ \A i \in DOMAIN a : a[i] \in CodecOptions => i + 1 \in DOMAIN a /\ a[i + 1] \in codecs

NoInput(a) == \A i \in DOMAIN a : a[i] # "-i"

LEMMA JoinPieces ==
  ASSUME NEW a, NEW b, NEW o, NEW q, NEW c, Piece(a, o, c), Piece(b, q, c)
  PROVE  Piece(a \o b, o \cup q, c)
<1> DEFINE n == Len(a)
<1>1. /\ a \in Seq(Words) /\ b \in Seq(Words) /\ a \o b \in Seq(Words)
      /\ n \in Nat /\ Len(b) \in Nat /\ Len(a \o b) = n + Len(b)
      /\ DOMAIN a = 1 .. n /\ DOMAIN b = 1 .. Len(b) /\ DOMAIN (a \o b) = 1 .. n + Len(b)
      /\ \A i \in 1 .. n : (a \o b)[i] = a[i]
      /\ \A i \in 1 .. Len(b) : (a \o b)[n + i] = b[i]
  BY DEF Piece
<1>2. a \o b # <<>> => (a \o b)[Len(a \o b)] \notin TakesValue
  <2>1. CASE b = <<>>
    BY <1>1, <2>1 DEF Piece
  <2>2. CASE b # <<>>
    BY <1>1, <2>2 DEF Piece
  <2> QED
    BY <2>1, <2>2
<1> DEFINE Free(x, k) == x[k] \notin Plain \cup TakesValue /\ (k > 1 => x[k - 1] \notin TakesValue)
<1>3. \A k \in 1 .. n : Free(a \o b, k) <=> Free(a, k)
  BY <1>1
<1>4. \A k \in 1 .. Len(b) : Free(a \o b, n + k) <=> Free(b, k)
  <2> TAKE k \in 1 .. Len(b)
  <2>1. CASE k > 1
    <3>1. (a \o b)[n + k - 1] = b[k - 1] /\ n + k > 1
      BY <1>1, <2>1
    <3> QED
      BY <1>1, <2>1, <3>1
  <2>2. CASE k = 1
    BY <1>1, <2>2 DEF Piece
  <2> QED
    BY <2>1, <2>2
<1>5. Outputs(a \o b) = Outputs(a) \cup Outputs(b)
  <2>1. ASSUME NEW x, NEW e
        PROVE  e \in Outputs(x) <=> \E k \in DOMAIN x : Free(x, k) /\ e = x[k]
    BY DEF Outputs
  <2>2. ASSUME NEW e \in Outputs(a \o b) PROVE e \in Outputs(a) \cup Outputs(b)
    <3>1. PICK k \in DOMAIN (a \o b) : Free(a \o b, k) /\ e = (a \o b)[k]
      BY <2>1, <2>2
    <3>2. CASE k \in 1 .. n
      <4>1. Free(a, k) /\ e = a[k] /\ k \in DOMAIN a
        BY <1>1, <1>3, <3>1, <3>2
      <4> HIDE DEF Free
      <4> QED
        BY <2>1, <4>1
    <3>3. CASE k \notin 1 .. n
      <4>1. PICK j \in 1 .. Len(b) : k = n + j
        <5>1. k - n \in 1 .. Len(b) /\ k = n + (k - n)
          BY <1>1, <3>3
        <5> QED
          BY <5>1
      <4>2. Free(b, j) /\ e = b[j] /\ j \in DOMAIN b
        BY <1>1, <1>4, <3>1, <4>1
      <4> HIDE DEF Free
      <4> QED
        BY <2>1, <4>2
    <3> QED
      BY <3>2, <3>3
  <2>3. ASSUME NEW e \in Outputs(a) PROVE e \in Outputs(a \o b)
    <3>1. PICK k \in DOMAIN a : Free(a, k) /\ e = a[k]
      BY <2>1, <2>3
    <3>2. k \in DOMAIN (a \o b) /\ Free(a \o b, k) /\ e = (a \o b)[k]
      BY <1>1, <1>3, <3>1
    <3> HIDE DEF Free
    <3> QED
      BY <2>1, <3>2
  <2>4. ASSUME NEW e \in Outputs(b) PROVE e \in Outputs(a \o b)
    <3>1. PICK k \in DOMAIN b : Free(b, k) /\ e = b[k]
      BY <2>1, <2>4
    <3>2. k \in 1 .. Len(b) /\ n + k \in 1 .. n + Len(b)
      BY <1>1, <3>1
    <3>3. e = (a \o b)[n + k]
      BY <1>1, <3>1, <3>2
    <3>4. Free(a \o b, n + k)
      <4> HIDE DEF Free
      <4> QED
        BY <1>4, <3>1, <3>2
    <3> HIDE DEF Free
    <3> QED
      BY <1>1, <2>1, <3>2, <3>3, <3>4
  <2> QED
    BY <2>2, <2>3, <2>4
<1>6. \A i \in DOMAIN (a \o b) : (a \o b)[i] \in CodecOptions =>
        i + 1 \in DOMAIN (a \o b) /\ (a \o b)[i + 1] \in c
  <2> TAKE i \in DOMAIN (a \o b)
  <2> HAVE (a \o b)[i] \in CodecOptions
  <2>1. CASE i \in 1 .. n
    <3>1. i + 1 \in 1 .. n /\ a[i + 1] \in c
      BY <1>1, <2>1 DEF Piece
    <3> QED
      BY <1>1, <3>1
  <2>2. CASE i \notin 1 .. n
    <3>1. PICK j \in 1 .. Len(b) : i = n + j
      <4>1. i - n \in 1 .. Len(b) /\ i = n + (i - n)
        BY <1>1, <2>2
      <4> QED
        BY <4>1
    <3>2. j + 1 \in 1 .. Len(b) /\ b[j + 1] \in c
      BY <1>1, <3>1 DEF Piece
    <3> QED
      BY <1>1, <3>1, <3>2
  <2> QED
    BY <2>1, <2>2
<1> QED
  BY <1>1, <1>2, <1>5, <1>6 DEF Piece

LEMMA JoinNoInput ==
  ASSUME NEW a \in Seq(Words), NEW b \in Seq(Words), NoInput(b)
  PROVE  /\ NoInput(a) => NoInput(a \o b)
         /\ \A i \in DOMAIN (a \o b) : (a \o b)[i] = "-i" =>
              i \in DOMAIN a /\ a[i] = "-i"
<1>1. \A i \in DOMAIN (a \o b) : (a \o b)[i] = "-i" => i \in DOMAIN a /\ a[i] = "-i"
  <2> TAKE i \in DOMAIN (a \o b)
  <2>1. CASE i > Len(a)
    <3>1. i - Len(a) \in DOMAIN b /\ (a \o b)[i] = b[i - Len(a)]
      BY <2>1
    <3> QED
      BY <3>1 DEF NoInput
  <2>2. CASE ~(i > Len(a))
    BY <2>2
  <2> QED
    BY <2>1, <2>2
<1> QED
  BY <1>1 DEF NoInput

\* An option with its value, and nothing.
LEMMA PairPiece ==
  ASSUME NEW x \in TakesValue, NEW v \in Words \ TakesValue, NEW c,
         x \in CodecOptions => v \in c
  PROVE  /\ Piece(<<x, v>>, {}, c)
         /\ x # "-i" => NoInput(<<x, v>>)
<1>1. x \in Words
  BY DEF Words
<1>2. v \notin CodecOptions /\ v # "-i"
  BY DEF TakesValue, CodecOptions
<1>3. Outputs(<<x, v>>) = {}
  BY DEF Outputs
<1>4. Len(<<x, v>>) = 2 /\ <<x, v>> \in Seq(Words)
  BY <1>1
<1> QED
  BY <1>2, <1>3, <1>4 DEF Piece, NoInput

LEMMA PlainPiece ==
  ASSUME NEW x \in Plain, NEW c
  PROVE  Piece(<<x>>, {}, c) /\ NoInput(<<x>>)
<1>1. x \in Words /\ x \notin TakesValue /\ x \notin CodecOptions /\ x # "-i"
  BY DEF Plain, TakesValue, CodecOptions, Words
<1>2. Outputs(<<x>>) = {}
  BY DEF Outputs
<1> QED
  BY <1>1, <1>2 DEF Piece, NoInput

LEMMA OutputPiece ==
  ASSUME NEW x \in Words \ (Plain \cup TakesValue), NEW c
  PROVE  Piece(<<x>>, {x}, c) /\ NoInput(<<x>>)
<1>1. x \notin CodecOptions /\ x # "-i"
  BY DEF TakesValue, CodecOptions
<1>2. DOMAIN <<x>> = {1} /\ <<x>>[1] = x
  OBVIOUS
<1>3. {k \in DOMAIN <<x>> : /\ <<x>>[k] \notin Plain \cup TakesValue
                            /\ k > 1 => <<x>>[k - 1] \notin TakesValue} = {1}
  BY <1>2
<1>4. Outputs(<<x>>) = {x}
  BY <1>2, <1>3 DEF Outputs
<1> QED
  BY <1>1, <1>4 DEF Piece, NoInput

LEMMA EmptyPiece == \A c : Piece(<<>>, {}, c) /\ NoInput(<<>>)
BY DEF Piece, NoInput, Outputs

-----------------------------------------------------------------------------
(***************************************************************************)
(* The lists that the code makes.                                          *)
(***************************************************************************)
Encoders == {"libx264", "h264_nvenc", "h264_qsv", "h264_vaapi"}

\* A piece without an input.
Rest(a, outs, codecs) == Piece(a, outs, codecs) /\ NoInput(a)

LEMMA JoinRests ==
  ASSUME NEW a, NEW b, NEW o, NEW q, NEW c, Rest(a, o, c), Rest(b, q, c)
  PROVE  Rest(a \o b, o \cup q, c)
<1>1. Piece(a, o, c) /\ Piece(b, q, c) /\ NoInput(a) /\ NoInput(b)
  BY DEF Rest
<1>2. a \in Seq(Words) /\ b \in Seq(Words)
  BY <1>1 DEF Piece
<1>3. Piece(a \o b, o \cup q, c)
  BY <1>1, JoinPieces
<1>4. NoInput(a \o b)
  BY <1>1, <1>2, JoinNoInput
<1> QED
  BY <1>3, <1>4 DEF Rest

\* A list that begins with its input, whose option is its n-th argument.
Lead(a, n, outs, codecs) ==
  /\ Piece(a, outs, codecs)
  /\ {i \in DOMAIN a : a[i] = "-i"} = {n}

LEMMA JoinLead ==
  ASSUME NEW a, NEW n, NEW b, NEW o, NEW q, NEW c, Lead(a, n, o, c), Rest(b, q, c)
  PROVE  Lead(a \o b, n, o \cup q, c)
<1>1. Piece(a, o, c) /\ Piece(b, q, c) /\ NoInput(b)
  BY DEF Lead, Rest
<1>2. Piece(a \o b, o \cup q, c)
  BY <1>1, JoinPieces
<1>3. a \in Seq(Words) /\ b \in Seq(Words)
  BY <1>1 DEF Piece
<1>4. \A i \in DOMAIN (a \o b) : (a \o b)[i] = "-i" => i \in DOMAIN a /\ a[i] = "-i"
  BY <1>1, <1>3, JoinNoInput
<1>5. n \in DOMAIN a /\ a[n] = "-i" /\ n \in DOMAIN (a \o b) /\ (a \o b)[n] = a[n]
  BY <1>3 DEF Lead
<1> QED
  BY <1>2, <1>4, <1>5 DEF Lead

\* An option that is no input with a value that is none of the options.
Pair(x, v) == x \in TakesValue \ {"-i"} /\ v \in Words \ TakesValue

LEMMA PairRest ==
  ASSUME NEW x, NEW v, Pair(x, v), NEW c, x \in CodecOptions => v \in c
  PROVE  Rest(<<x, v>>, {}, c)
BY PairPiece DEF Pair, Rest

LEMMA OutputFlagsRest == \A c : Rest(OutputFlags, {"pipe:1"}, c)
<1> TAKE c
<1>1. Rest(<<"-f", "mp4">>, {}, c) /\ Rest(<<"-progress", "pipe:2">>, {}, c)
  <2>1. Pair("-f", "mp4") /\ Pair("-progress", "pipe:2")
    BY DEF Pair, Words, TakesValue
  <2> QED
    BY <2>1, PairRest DEF CodecOptions
<1>2. Rest(<<"pipe:1">>, {"pipe:1"}, c)
  BY OutputPiece DEF Rest, Words, Plain, TakesValue
<1>3. Rest(<<"-nostats">>, {}, c)
  BY PlainPiece DEF Rest, Plain
<1>4. Rest(<<"-f", "mp4">> \o <<"pipe:1">>, {"pipe:1"}, c)
  BY <1>1, <1>2, JoinRests
<1>5. Rest(<<"-progress", "pipe:2">> \o <<"-nostats">>, {}, c)
  BY <1>1, <1>3, JoinRests
<1>6. Rest((<<"-f", "mp4">> \o <<"pipe:1">>) \o (<<"-progress", "pipe:2">> \o <<"-nostats">>),
           {"pipe:1"}, c)
  BY <1>4, <1>5, JoinRests
<1>7. OutputFlags =
        (<<"-f", "mp4">> \o <<"pipe:1">>) \o (<<"-progress", "pipe:2">> \o <<"-nostats">>)
  BY DEF OutputFlags
<1> QED
  BY <1>6, <1>7

LEMMA PairsRest ==
  ASSUME NEW c
  PROVE  /\ Rest(<<"-crf", "n">>, {}, c)
         /\ Rest(<<"-ss", "time">>, {}, c) /\ Rest(<<"-to", "time">>, {}, c)
         /\ Rest(<<"-preset", "p7", "-rc", "vbr", "-cq", "n", "-b:v", "0">>, {}, c)
         /\ Rest(<<"-b:v", "n", "-maxrate", "n", "-bufsize", "n">>, {}, c)
         /\ Rest(<<"-c:a", "copy", "-movflags", "how", "-loglevel", "error">>, {}, c)
         /\ Rest(<<"-movflags", "how", "-f", "mp4">>, {}, c)
<1>1. /\ Pair("-crf", "n") /\ Pair("-ss", "time") /\ Pair("-to", "time")
      /\ Pair("-preset", "p7") /\ Pair("-rc", "vbr") /\ Pair("-cq", "n")
      /\ Pair("-b:v", "0") /\ Pair("-b:v", "n") /\ Pair("-maxrate", "n")
      /\ Pair("-bufsize", "n") /\ Pair("-c:a", "copy") /\ Pair("-movflags", "how")
      /\ Pair("-loglevel", "error") /\ Pair("-f", "mp4")
  BY DEF Pair, Words, TakesValue
<1>2. \A x, v : Pair(x, v) /\ x \notin CodecOptions => Rest(<<x, v>>, {}, c)
  BY PairRest
<1>3. /\ Rest(<<"-crf", "n">>, {}, c)
      /\ Rest(<<"-ss", "time">>, {}, c) /\ Rest(<<"-to", "time">>, {}, c)
  BY <1>1, <1>2 DEF CodecOptions
<1>4. Rest(<<"-preset", "p7", "-rc", "vbr", "-cq", "n", "-b:v", "0">>, {}, c)
  <2>1. /\ Rest(<<"-preset", "p7">>, {}, c) /\ Rest(<<"-rc", "vbr">>, {}, c)
        /\ Rest(<<"-cq", "n">>, {}, c) /\ Rest(<<"-b:v", "0">>, {}, c)
    BY <1>1, <1>2 DEF CodecOptions
  <2>2. /\ Rest(<<"-preset", "p7">> \o <<"-rc", "vbr">>, {}, c)
        /\ Rest(<<"-cq", "n">> \o <<"-b:v", "0">>, {}, c)
    BY <2>1, JoinRests
  <2>3. Rest((<<"-preset", "p7">> \o <<"-rc", "vbr">>) \o (<<"-cq", "n">> \o <<"-b:v", "0">>),
             {}, c)
    BY <2>2, JoinRests
  <2>4. <<"-preset", "p7", "-rc", "vbr", "-cq", "n", "-b:v", "0">> =
          (<<"-preset", "p7">> \o <<"-rc", "vbr">>) \o (<<"-cq", "n">> \o <<"-b:v", "0">>)
    OBVIOUS
  <2> QED
    BY <2>3, <2>4
<1>5. Rest(<<"-b:v", "n", "-maxrate", "n", "-bufsize", "n">>, {}, c)
  <2>1. /\ Rest(<<"-b:v", "n">>, {}, c) /\ Rest(<<"-maxrate", "n">>, {}, c)
        /\ Rest(<<"-bufsize", "n">>, {}, c)
    BY <1>1, <1>2 DEF CodecOptions
  <2>2. Rest(<<"-b:v", "n">> \o <<"-maxrate", "n">>, {}, c)
    BY <2>1, JoinRests
  <2>3. Rest((<<"-b:v", "n">> \o <<"-maxrate", "n">>) \o <<"-bufsize", "n">>, {}, c)
    BY <2>1, <2>2, JoinRests
  <2>4. <<"-b:v", "n", "-maxrate", "n", "-bufsize", "n">> =
          (<<"-b:v", "n">> \o <<"-maxrate", "n">>) \o <<"-bufsize", "n">>
    OBVIOUS
  <2> QED
    BY <2>3, <2>4
<1>6. Rest(<<"-c:a", "copy", "-movflags", "how", "-loglevel", "error">>, {}, c)
  <2>1. /\ Rest(<<"-c:a", "copy">>, {}, c) /\ Rest(<<"-movflags", "how">>, {}, c)
        /\ Rest(<<"-loglevel", "error">>, {}, c)
    BY <1>1, <1>2 DEF CodecOptions
  <2>2. Rest(<<"-c:a", "copy">> \o <<"-movflags", "how">>, {}, c)
    BY <2>1, JoinRests
  <2>3. Rest((<<"-c:a", "copy">> \o <<"-movflags", "how">>) \o <<"-loglevel", "error">>, {}, c)
    BY <2>1, <2>2, JoinRests
  <2>4. <<"-c:a", "copy", "-movflags", "how", "-loglevel", "error">> =
          (<<"-c:a", "copy">> \o <<"-movflags", "how">>) \o <<"-loglevel", "error">>
    OBVIOUS
  <2> QED
    BY <2>3, <2>4
<1>7. Rest(<<"-movflags", "how", "-f", "mp4">>, {}, c)
  <2>1. Rest(<<"-movflags", "how">>, {}, c) /\ Rest(<<"-f", "mp4">>, {}, c)
    BY <1>1, <1>2 DEF CodecOptions
  <2>2. Rest(<<"-movflags", "how">> \o <<"-f", "mp4">>, {}, c)
    BY <2>1, JoinRests
  <2>3. <<"-movflags", "how", "-f", "mp4">> = <<"-movflags", "how">> \o <<"-f", "mp4">>
    OBVIOUS
  <2> QED
    BY <2>2, <2>3
<1> QED
  BY <1>3, <1>4, <1>5, <1>6, <1>7

\* Of the quality's flags only "preset" and its value are outputs.
LEMMA QualityRest ==
  ASSUME Encoder \in Encoders, NEW o, o.lossless \in BOOLEAN, NEW c
  PROVE  \E q : /\ Rest(QualityFlags(o), q, c)
                /\ ~(o.lossless /\ Encoder = "libx264") => q = {}
<1>1. CASE o.lossless /\ Encoder = "libx264"
  <2>1. Rest(<<"preset">>, {"preset"}, c) /\ Rest(<<"slow">>, {"slow"}, c)
    BY OutputPiece DEF Rest, Words, Plain, TakesValue
  <2>2. Rest(<<"-crf", "n">>, {}, c) /\ Rest(<<"-pix_fmt", "yuv420p">>, {}, c)
    <3>1. Pair("-pix_fmt", "yuv420p")
      BY DEF Pair, Words, TakesValue
    <3> QED
      BY <3>1, PairsRest, PairRest DEF CodecOptions
  <2>3. Rest(<<"preset">> \o <<"slow">>, {"preset"} \cup {"slow"}, c)
    BY <2>1, JoinRests
  <2>4. Rest(<<"-crf", "n">> \o <<"-pix_fmt", "yuv420p">>, {} \cup {}, c)
    BY <2>2, JoinRests
  <2>5. Rest((<<"preset">> \o <<"slow">>) \o (<<"-crf", "n">> \o <<"-pix_fmt", "yuv420p">>),
             ({"preset"} \cup {"slow"}) \cup ({} \cup {}), c)
    BY <2>3, <2>4, JoinRests
  <2>6. QualityFlags(o) =
          (<<"preset">> \o <<"slow">>) \o (<<"-crf", "n">> \o <<"-pix_fmt", "yuv420p">>)
    BY <1>1 DEF QualityFlags
  <2> QED
    BY <1>1, <2>5, <2>6
<1>2. CASE ~(o.lossless /\ Encoder = "libx264")
  <2>1. QualityFlags(o) \in
          {<<"-preset", "p7", "-rc", "vbr", "-cq", "n", "-b:v", "0">>, <<"-crf", "n">>,
           <<"-b:v", "n", "-maxrate", "n", "-bufsize", "n">>, <<>>}
    <3>1. CASE o.lossless /\ Encoder = "h264_nvenc"
      BY <3>1 DEF QualityFlags
    <3>2. CASE o.lossless /\ Encoder # "h264_nvenc"
      BY <1>2, <3>2 DEF QualityFlags
    <3>3. CASE ~o.lossless
      BY <3>3 DEF QualityFlags, When
    <3> QED
      BY <3>1, <3>2, <3>3
  <2>2. Rest(QualityFlags(o), {}, c)
    BY <2>1, PairsRest, EmptyPiece DEF Rest
  <2> QED
    BY <1>2, <2>2
<1> QED
  BY <1>1, <1>2

\* The list of an export: its input first, and one output, the pipe, unless
\* it is a lossless one by libx264.
LEMMA FlagsFit ==
  ASSUME Encoder \in Encoders, NEW o, o.lossless \in BOOLEAN
  PROVE  \E q : /\ Lead(Flags(o), 1, q, {Encoder}) /\ "pipe:1" \in q
                /\ ~(o.lossless /\ Encoder = "libx264") => q = {"pipe:1"}
<1> DEFINE c == {Encoder}
           a == <<"-i", "in">>
           b1 == When(o.start > 0, <<"-ss", "time">>)
           b2 == When(Trimmed(o), <<"-to", "time">>)
           b3 == <<"-c:v", Encoder>>
           b4 == QualityFlags(o)
           b5 == <<"-c:a", "copy", "-movflags", "how", "-loglevel", "error">>
<1>1. Lead(a, 1, {}, c)
  <2>1. Piece(a, {}, c)
    BY PairPiece DEF Words, TakesValue, CodecOptions
  <2> QED
    BY <2>1 DEF Lead
<1>2. Rest(b1, {}, c) /\ Rest(b2, {}, c)
  BY PairsRest, EmptyPiece DEF Rest, When
<1>3. Rest(b3, {}, c)
  <2>1. Pair("-c:v", Encoder)
    BY DEF Pair, Words, TakesValue, Encoders
  <2> QED
    BY <2>1, PairRest
<1>4. PICK q : Rest(b4, q, c) /\ (~(o.lossless /\ Encoder = "libx264") => q = {})
  BY QualityRest
<1>5. Rest(b5, {}, c) /\ Rest(OutputFlags, {"pipe:1"}, c)
  BY PairsRest, OutputFlagsRest
<1> HIDE DEF a, b1, b2, b3, b4, b5, c
<1>6. Lead(a \o b1, 1, {} \cup {}, c)
  BY <1>1, <1>2, JoinLead
<1>7. Lead((a \o b1) \o b2, 1, ({} \cup {}) \cup {}, c)
  BY <1>2, <1>6, JoinLead
<1>8. Lead(((a \o b1) \o b2) \o b3, 1, {}, c)
  BY <1>3, <1>7, JoinLead
<1>9. Lead((((a \o b1) \o b2) \o b3) \o b4, 1, {} \cup q, c)
  BY <1>4, <1>8, JoinLead
<1>10. Lead(((((a \o b1) \o b2) \o b3) \o b4) \o b5, 1, ({} \cup q) \cup {}, c)
  BY <1>5, <1>9, JoinLead
<1>11. Lead((((((a \o b1) \o b2) \o b3) \o b4) \o b5) \o OutputFlags, 1,
            (({} \cup q) \cup {}) \cup {"pipe:1"}, c)
  BY <1>5, <1>10, JoinLead
<1>12. Flags(o) = (((((a \o b1) \o b2) \o b3) \o b4) \o b5) \o OutputFlags
  BY DEF Flags, a, b1, b2, b3, b4, b5
<1> QED
  BY <1>4, <1>11, <1>12 DEF c

\* The list of an upload: one output, the file.
LEMMA UploadRests ==
  ASSUME NEW video, NEW c, "copy" \in c
  PROVE  /\ Rest(When(video = "mp4", <<"-c:a", "copy", "-c:v", "copy">>), {}, c)
         /\ Rest(<<"-movflags", "how", "-f", "mp4", "out">>, {"out"}, c)
<1> DEFINE b1 == When(video = "mp4", <<"-c:a", "copy", "-c:v", "copy">>)
           b2 == <<"-movflags", "how", "-f", "mp4", "out">>
<1>1. Rest(b1, {}, c)
  <2>1. Pair("-c:a", "copy") /\ Pair("-c:v", "copy")
    BY DEF Pair, Words, TakesValue
  <2>2. Rest(<<"-c:a", "copy">>, {}, c) /\ Rest(<<"-c:v", "copy">>, {}, c)
    BY <2>1, PairRest
  <2>3. Rest(<<"-c:a", "copy">> \o <<"-c:v", "copy">>, {}, c)
    BY <2>2, JoinRests
  <2>4. b1 \in {<<>>, <<"-c:a", "copy">> \o <<"-c:v", "copy">>}
    BY DEF When
  <2> HIDE DEF b1
  <2> QED
    BY <2>3, <2>4, EmptyPiece DEF Rest
<1>2. Rest(b2, {"out"}, c)
  <2>1. Rest(<<"out">>, {"out"}, c)
    BY OutputPiece DEF Rest, Words, Plain, TakesValue
  <2>2. Rest(<<"-movflags", "how", "-f", "mp4">>, {}, c)
    BY PairsRest
  <2>3. Rest(<<"-movflags", "how", "-f", "mp4">> \o <<"out">>, {} \cup {"out"}, c)
    BY <2>1, <2>2, JoinRests
  <2>4. b2 = <<"-movflags", "how", "-f", "mp4">> \o <<"out">>
    OBVIOUS
  <2> QED
    BY <2>3, <2>4
<1> QED
  BY <1>1, <1>2

LEMMA UploadFits ==
  ASSUME NEW video
  PROVE  Lead(UploadFlags(video), 2, {"out"}, {"copy"})
<1> DEFINE c == {"copy"}
           a == <<"-y", "-i", "in">>
           b1 == When(video = "mp4", <<"-c:a", "copy", "-c:v", "copy">>)
           b2 == <<"-movflags", "how", "-f", "mp4", "out">>
<1>1. Lead(a, 2, {}, c)
  <2>1. Piece(<<"-y">>, {}, c) /\ Piece(<<"-i", "in">>, {}, c)
    BY PlainPiece, PairPiece DEF Plain, Words, TakesValue, CodecOptions
  <2>2. Piece(<<"-y">> \o <<"-i", "in">>, {} \cup {}, c)
    <3> HIDE DEF c
    <3> QED
      BY <2>1, JoinPieces
  <2>3. a = <<"-y">> \o <<"-i", "in">>
    OBVIOUS
  <2>4. {i \in DOMAIN a : a[i] = "-i"} = {2}
    OBVIOUS
  <2> HIDE DEF a
  <2> QED
    BY <2>2, <2>3, <2>4 DEF Lead
<1>2. Rest(b1, {}, c) /\ Rest(b2, {"out"}, c)
  BY UploadRests
<1> HIDE DEF a, b1, b2, c
<1>4. Lead(a \o b1, 2, {} \cup {}, c)
  BY <1>1, <1>2, JoinLead
<1>5. Lead((a \o b1) \o b2, 2, ({} \cup {}) \cup {"out"}, c)
  BY <1>2, <1>4, JoinLead
<1>6. UploadFlags(video) = (a \o b1) \o b2
  BY DEF UploadFlags, a, b1, b2
<1> QED
  BY <1>5, <1>6 DEF c

\* With the hardware's flag and its value before the input.
UploadTail(video) ==
  (<<"-i", "in">> \o When(video = "mp4", <<"-c:a", "copy", "-c:v", "copy">>))
    \o <<"-movflags", "how", "-f", "mp4", "out">>

Accelerated(video, codec) == (<<"-y">> \o <<"-hwaccel", codec>>) \o UploadTail(video)

LEMMA UploadIsTail == \A video : UploadFlags(video) = <<"-y">> \o UploadTail(video)
<1> TAKE video
<1>1. CASE video = "mp4"
  BY <1>1 DEF UploadFlags, UploadTail, When
<1>2. CASE video # "mp4"
  BY <1>2 DEF UploadFlags, UploadTail, When
<1> QED
  BY <1>1, <1>2

LEMMA TailFits ==
  ASSUME NEW video, NEW c, "copy" \in c
  PROVE  Piece(UploadTail(video), {"out"}, c)
<1> DEFINE a == <<"-i", "in">>
           b1 == When(video = "mp4", <<"-c:a", "copy", "-c:v", "copy">>)
           b2 == <<"-movflags", "how", "-f", "mp4", "out">>
<1>1. Piece(a, {}, c)
  BY PairPiece DEF Words, TakesValue, CodecOptions
<1>2. Rest(b1, {}, c) /\ Rest(b2, {"out"}, c)
  BY UploadRests
<1> HIDE DEF a, b1, b2
<1>3. Piece(a \o b1, {} \cup {}, c)
  BY <1>1, <1>2, JoinPieces DEF Rest
<1>4. Piece((a \o b1) \o b2, ({} \cup {}) \cup {"out"}, c)
  BY <1>2, <1>3, JoinPieces DEF Rest
<1> QED
  BY <1>4 DEF UploadTail, a, b1, b2

LEMMA SecondToFourth ==
  ASSUME NEW S, NEW a \in Seq(S), NEW b \in Seq(S), NEW t \in Seq(S),
         Len(a) = 1, Len(b) = 2, Len(t) > 0
  PROVE  /\ 4 \in DOMAIN ((a \o b) \o t) /\ ((a \o b) \o t)[2] = b[1]
         /\ ((a \o b) \o t)[3] = b[2] /\ ((a \o b) \o t)[4] = t[1]
<1> DEFINE ab == a \o b
<1>1. /\ ab \in Seq(S) /\ Len(ab) = Len(a) + Len(b)
      /\ \A i \in 1 .. Len(a) + Len(b) : ab[i] = IF i <= Len(a) THEN a[i] ELSE b[i - Len(a)]
  BY ConcatProperties
<1>2. Len(ab) = 3 /\ \A i \in 1 .. 3 : ab[i] = IF i <= 1 THEN a[i] ELSE b[i - 1]
  BY <1>1
<1>3. ab[2] = b[1] /\ ab[3] = b[2]
  <2>1. 2 \in 1 .. 3 /\ 3 \in 1 .. 3 /\ ~(2 <= 1) /\ ~(3 <= 1) /\ 2 - 1 = 1 /\ 3 - 1 = 2
    OBVIOUS
  <2> QED
    BY <1>2, <2>1
<1>0. ab \in Seq(S)
  BY <1>1
<1> HIDE DEF ab
<1>4. /\ Len(ab \o t) = Len(ab) + Len(t)
      /\ \A i \in 1 .. Len(ab) + Len(t) :
           (ab \o t)[i] = IF i <= Len(ab) THEN ab[i] ELSE t[i - Len(ab)]
  BY <1>0, ConcatProperties
<1>5. /\ 2 \in 1 .. 3 + Len(t) /\ 3 \in 1 .. 3 + Len(t) /\ 4 \in 1 .. 3 + Len(t)
      /\ 2 <= 3 /\ 3 <= 3 /\ ~(4 <= 3) /\ 4 - 3 = 1
  OBVIOUS
<1>6. (ab \o t)[2] = ab[2] /\ (ab \o t)[3] = ab[3] /\ (ab \o t)[4] = t[1]
  BY <1>2, <1>4, <1>5
<1>7. 4 \in DOMAIN (ab \o t)
  <2>1. ab \o t \in Seq(S)
    BY <1>1
  <2> QED
    BY <1>2, <1>4, <1>5, <2>1
<1> QED
  BY <1>3, <1>6, <1>7 DEF ab

LEMMA AcceleratedFits ==
  ASSUME NEW video, NEW codec \in {"cuda", "qsv", "vaapi"}
  PROVE  /\ Piece(Accelerated(video, codec), {"out"}, {"copy", codec})
         /\ LET a == Accelerated(video, codec)
            IN  4 \in DOMAIN a /\ a[2] = "-hwaccel" /\ a[3] = codec /\ a[4] = "-i"
<1> DEFINE c == {"copy", codec}
           a == <<"-y">>
           b == <<"-hwaccel", codec>>
           t == UploadTail(video)
<1>1. Piece(a, {}, c)
  BY PlainPiece DEF Plain
<1>2. Piece(b, {}, c)
  BY PairPiece DEF Words, TakesValue
<1>3. Piece(t, {"out"}, c)
  BY TailFits
<1>4. Len(t) > 0 /\ t[1] = "-i"
  <2>1. CASE video = "mp4"
    BY <2>1 DEF UploadTail, When
  <2>2. CASE video # "mp4"
    BY <2>2 DEF UploadTail, When
  <2> QED
    BY <2>1, <2>2
<1> HIDE DEF c, t
<1>5. 4 \in DOMAIN ((a \o b) \o t) /\ ((a \o b) \o t)[2] = "-hwaccel"
      /\ ((a \o b) \o t)[3] = codec /\ ((a \o b) \o t)[4] = "-i"
  <2>0. t \in Seq(Words)
    BY <1>3 DEF Piece
  <2>1. a \in Seq(Words) /\ b \in Seq(Words)
    BY <1>1, <1>2 DEF Piece
  <2>2. Len(a) = 1 /\ Len(b) = 2 /\ b[1] = "-hwaccel" /\ b[2] = codec
    OBVIOUS
  <2> HIDE DEF a, b
  <2> QED
    BY <1>4, <2>0, <2>1, <2>2, SecondToFourth
<1> HIDE DEF a, b
<1>6. Piece(a \o b, {} \cup {}, c)
  BY <1>1, <1>2, JoinPieces
<1>7. Piece((a \o b) \o t, ({} \cup {}) \cup {"out"}, c)
  BY <1>3, <1>6, JoinPieces
<1> QED
  BY <1>5, <1>7 DEF Accelerated, a, b, c, t

-----------------------------------------------------------------------------
(***************************************************************************)
(* Numbers.                                                                *)
(***************************************************************************)
LEMMA Parameters ==
  /\ Milli \in Nat \ {0} /\ Lengths \subseteq Nat \ {0} /\ Frame \in Nat \ {0}
  /\ AudioRates \subseteq Nat /\ Trims \subseteq Int /\ Targets \subseteq Nat
BY SMT, ExportAssumption

\* Rounding changes a quotient by at most a half.
LEMMA RoundIsNear ==
  ASSUME NEW n \in Int, NEW d \in Nat \ {0}
  PROVE  Round(n, d) \in Int /\ 2 * (d * Round(n, d)) <= 2 * n + d
<1> DEFINE q == n \div d
           m == n % d
<1>1. q \in Int /\ m \in 0 .. d - 1 /\ n = d * q + m
  OBVIOUS
<1>2. q % 2 \in {0, 1}
  BY <1>1
<1>0. Round(n, d) = CASE 2 * m < d -> q [] 2 * m > d -> q + 1 [] 2 * m = d -> q + (q % 2)
  BY Zenon DEF Round
<1> HIDE DEF q, m
<1>3. CASE 2 * m < d
  <2>1. Round(n, d) = q
    BY <1>0, <1>1, <1>3
  <2>2. d * q = n - m /\ d * q \in Int
    BY <1>1
  <2> QED
    BY <1>1, <2>1, <2>2
<1>4. CASE 2 * m >= d
  <2>0. q + (q % 2) \in {q, q + 1}
    BY <1>1, <1>2
  <2>1. Round(n, d) \in {q, q + 1}
    <3>1. CASE 2 * m > d
      BY <1>0, <1>1, <3>1
    <3>2. CASE 2 * m = d
      BY <1>0, <1>1, <2>0, <3>2
    <3> QED
      BY <1>1, <1>4, <3>1, <3>2
  <2>2. d * q = n - m /\ d * (q + 1) = d * q + d
    BY <1>1
  <2>3. CASE Round(n, d) = q
    BY <1>1, <2>2, <2>3
  <2>4. CASE Round(n, d) = q + 1
    <3>1. d * (q + 1) = n - m + d
      BY <1>1, <2>2
    <3> QED
      BY <1>1, <1>4, <2>4, <3>1
  <2> QED
    BY <2>1, <2>3, <2>4
<1> QED
  BY <1>1, <1>3, <1>4

\* What the validator lets pass.
Accepted(o) == o \in Options /\ Accepts(o)

LEMMA EighthIsNat == Eighth \in Nat
BY SMT DEF Eighth

LEMMA AcceptedTypes ==
  ASSUME NEW o, Accepted(o)
  PROVE  /\ o.start \in Int /\ o.end \in Int /\ o.start < o.end
         /\ o.length \in Nat \ {0} /\ o.target \in Nat /\ o.lossless \in BOOLEAN
         /\ o.audio \in Nat
         /\ Duration(o) \in Nat \ {0} /\ VideoBits(o) \in Int
<1>1. /\ o.start \in Int /\ o.end \in Int /\ o.start < o.end
      /\ o.length \in Nat \ {0} /\ o.target \in Nat /\ o.lossless \in BOOLEAN
      /\ o.audio \in Nat
  BY Parameters DEF Accepted, Options, Accepts
<1>2. Duration(o) \in Nat \ {0}
  BY <1>1 DEF Duration, Trimmed
<1>3. o.target * Eighth * Milli \in Nat
  <2>1. o.target * Eighth \in Nat /\ Milli \in Nat
    BY <1>1, EighthIsNat, Parameters
  <2> QED
    BY <2>1
<1>4. VideoBits(o) \in Int
  BY <1>2, <1>3 DEF VideoBits, AudioRate
<1> QED
  BY <1>1, <1>2, <1>4

\* A quotient is the last multiple.
LEMMA DivIsNear ==
  ASSUME NEW n \in Int, NEW d \in Nat \ {0}
  PROVE  /\ n \div d \in Int /\ d * (n \div d) <= n /\ n < d * (n \div d) + d
         /\ n >= 0 => n \div d \in Nat
<1> DEFINE q == n \div d
           m == n % d
<1>1. q \in Int /\ m \in 0 .. d - 1 /\ n = d * q + m
  OBVIOUS
<1> HIDE DEF q, m
<1>2. d * q \in Int
  BY <1>1
<1>3. ASSUME n >= 0, q < 0 PROVE FALSE
  <2>1. -q - 1 \in Nat /\ d * (-q - 1) \in Nat
    BY <1>1, <1>3
  <2>2. d * (-q - 1) = -(d * q) - d
    BY <1>1, <1>2
  <2> QED
    BY <1>1, <1>2, <1>3, <2>1, <2>2
<1>4. d * q <= n /\ n < d * q + d
  BY <1>1, <1>2
<1>5. n >= 0 => q \in Nat
  BY <1>1, <1>3
<1> QED
  BY <1>1, <1>4, <1>5 DEF q

\* A timestamp is at most half a millisecond late and three halves early.
LEMMA StampsFit ==
  ASSUME NEW t \in Int, NEW s \in Stamps(t)
  PROVE  /\ s \in Int /\ 2 * (s * Milli) <= 2 * t + Milli
         /\ 2 * t - 3 * Milli <= 2 * (s * Milli)
         /\ t >= 0 => s \in Nat
<1>0. Milli \in Nat \ {0}
  BY Parameters
<1>1. PICK k \in Nearest(t) : s \in IF k % 1000 = 0 THEN {k} ELSE {k - 1, k}
  BY DEF Stamps
<1>2. PICK n \in {2 * t + Milli - 1, 2 * t + Milli} : k = n \div (2 * Milli)
  BY <1>1 DEF Nearest
<1>3. n \in Int /\ 2 * Milli \in Nat \ {0}
  BY <1>0, <1>2
<1>4. /\ k \in Int /\ (2 * Milli) * k <= n /\ n < (2 * Milli) * k + 2 * Milli
      /\ n >= 0 => k \in Nat
  <2> DEFINE d == 2 * Milli
  <2>1. d \in Nat \ {0} /\ k = n \div d
    BY <1>2, <1>3
  <2> HIDE DEF d
  <2>2. k \in Int /\ d * k <= n /\ n < d * k + d /\ (n >= 0 => k \in Nat)
    BY <1>3, <2>1, DivIsNear
  <2> QED
    BY <2>2 DEF d
<1>5. (2 * Milli) * k = 2 * (k * Milli) /\ k * Milli \in Int
  BY <1>0, <1>4
<1>6. 2 * (k * Milli) <= 2 * t + Milli /\ 2 * t - Milli <= 2 * (k * Milli)
  BY <1>0, <1>2, <1>4, <1>5
<1>7. s = k \/ (s = k - 1 /\ k # 0)
  BY <1>1, <1>4
<1>8. (k - 1) * Milli = k * Milli - Milli
  BY <1>0, <1>4
<1>9. t >= 0 => k \in Nat
  BY <1>0, <1>2, <1>4
<1>10. s \in Int /\ (t >= 0 => s \in Nat)
  BY <1>4, <1>7, <1>9
<1>11. s * Milli = k * Milli \/ s * Milli = k * Milli - Milli
  BY <1>7, <1>8
<1>12. /\ 2 * (s * Milli) <= 2 * t + Milli
       /\ 2 * t - 3 * Milli <= 2 * (s * Milli)
  BY <1>0, <1>5, <1>6, <1>11
<1> QED
  BY <1>10, <1>12

\* What -ss and -to may say.
IsCut(o, c) ==
  /\ c.from \in IF o.start > 0 THEN Stamps(o.start) ELSE {0}
  /\ c.to \in IF Trimmed(o) THEN Stamps(o.end) ELSE {-1}

LEMMA CutTypes ==
  ASSUME NEW o, Accepted(o), NEW c, IsCut(o, c)
  PROVE  c.from \in Int /\ c.to \in Int
BY AcceptedTypes, StampsFit DEF IsCut

\* ffmpeg encodes the duration that is reported, give or take two milliseconds.
LEMMA EncodedFits ==
  ASSUME Accepted(opts), IsCut(opts, cut)
  PROVE  /\ Encoded \in Nat /\ Encoded <= Duration(opts) + 2 * Milli
         /\ opts.start >= 0 /\ opts.end <= opts.length =>
              Duration(opts) - 2 * Milli <= Encoded
<1> DEFINE from == cut.from * Milli
           to == IF cut.to # -1 /\ cut.to * Milli < opts.length THEN cut.to * Milli
                 ELSE opts.length
<1>0. /\ Milli \in Nat \ {0} /\ opts.start \in Int /\ opts.end \in Int
      /\ opts.start < opts.end /\ opts.length \in Nat \ {0}
  BY AcceptedTypes, Parameters
<1>1. cut.from \in Int /\ cut.to \in Int
  BY CutTypes
<1>2. from \in Int /\ cut.to * Milli \in Int /\ to \in Int
  BY <1>0, <1>1
<1>3. Encoded = IF from < to THEN to - from ELSE 0
  BY DEF Encoded
<1>4. CASE Trimmed(opts)
  <2>1. opts.start >= 0 /\ Duration(opts) = opts.end - opts.start
    BY <1>4 DEF Trimmed, Duration
  <2>2. 2 * from <= 2 * opts.start + Milli /\ 2 * opts.start - 3 * Milli <= 2 * from
    <3>1. CASE opts.start > 0
      BY <1>0, <3>1, StampsFit DEF IsCut
    <3>2. CASE ~(opts.start > 0)
      BY <1>0, <2>1, <3>2 DEF IsCut
    <3> QED
      BY <3>1, <3>2
  <2>3. /\ 2 * (cut.to * Milli) <= 2 * opts.end + Milli
        /\ 2 * opts.end - 3 * Milli <= 2 * (cut.to * Milli)
        /\ cut.to \in Nat
    BY <1>0, <1>4, <2>1, StampsFit DEF IsCut
  <2>4. 2 * to <= 2 * opts.end + Milli
    BY <1>0, <1>2, <2>3
  <2>5. opts.end <= opts.length => 2 * opts.end - 3 * Milli <= 2 * to
    BY <1>0, <1>2, <2>3
  <2> HIDE DEF from, to
  <2> QED
    BY <1>0, <1>2, <1>3, <2>1, <2>2, <2>4, <2>5
<1>5. CASE ~Trimmed(opts)
  <2>1. ~(opts.start >= 0) /\ Duration(opts) = opts.length
    BY <1>0, <1>5 DEF Trimmed, Duration
  <2>2. from = 0 /\ to = opts.length
    BY <1>0, <1>5, <2>1 DEF IsCut
  <2> HIDE DEF from, to
  <2> QED
    BY <1>0, <1>3, <2>1, <2>2
<1> QED
  BY <1>4, <1>5

\* Where there is something to encode the cut ends after it begins.
LEMMA EncodedIsRead ==
  ASSUME Accepted(opts), IsCut(opts, cut), Encoded > 0
  PROVE  CutIsRead
<1>0. Milli \in Nat \ {0} /\ cut.from \in Int /\ cut.to \in Int /\ opts.length \in Nat
  BY AcceptedTypes, CutTypes, Parameters
<1> SUFFICES ASSUME cut.to # -1, ~(cut.from < cut.to) PROVE FALSE
  BY DEF CutIsRead
<1>1. cut.from - cut.to \in Nat /\ (cut.from - cut.to) * Milli \in Nat
  BY <1>0
<1>2. /\ (cut.from - cut.to) * Milli = cut.from * Milli - cut.to * Milli
      /\ cut.from * Milli \in Int /\ cut.to * Milli \in Int
  BY <1>0
<1>3. cut.to * Milli <= cut.from * Milli
  BY <1>1, <1>2
<1>4. Encoded = 0
  BY <1>0, <1>2, <1>3 DEF Encoded
<1> QED
  BY <1>4

LEMMA BitrateTypes ==
  ASSUME NEW o, Accepted(o)
  PROVE  Bitrate(o) \in Int
BY AcceptedTypes, RoundIsNear DEF Bitrate

LEMMA BitrateFits ==
  ASSUME NEW o, Accepted(o), NEW e \in Int, e <= Duration(o), NEW a \in Nat, a <= AudioRate
  PROVE  /\ Bitrate(o) \in Int
         /\ Bitrate(o) > 0 /\ VideoBits(o) > 0 =>
              2 * (Bitrate(o) + a) * e <= 2 * o.target * Eighth * Milli + Duration(o)
<1> DEFINE d == Duration(o)
           b == Bitrate(o)
           t == o.target * Eighth * Milli
<1>1. d \in Nat \ {0} /\ VideoBits(o) \in Int /\ o.target \in Nat /\ Milli \in Nat \ {0}
  BY AcceptedTypes, Parameters
<1>2. /\ Round(VideoBits(o), d) \in Int
      /\ 2 * (d * Round(VideoBits(o), d)) <= 2 * VideoBits(o) + d
  <2> HIDE DEF d
  <2> QED
    BY <1>1, RoundIsNear
<1>3. b \in Int
  BY <1>2 DEF Bitrate
<1>4. t \in Nat /\ 2 * o.target * Eighth * Milli = 2 * t
  <2>1. o.target * Eighth \in Nat /\ 2 * o.target * Eighth = 2 * (o.target * Eighth)
    BY <1>1, EighthIsNat
  <2> DEFINE x == o.target * Eighth
  <2>2. x \in Nat /\ 2 * o.target * Eighth = 2 * x
    BY <2>1
  <2> HIDE DEF x
  <2>3. x * Milli \in Nat /\ (2 * x) * Milli = 2 * (x * Milli)
    BY <1>1, <2>2
  <2> QED
    BY <2>2, <2>3 DEF x
<1>5. ASSUME b > 0, VideoBits(o) > 0
      PROVE  2 * (b + a) * e <= 2 * t + d
  <2>1. 2 * (d * b) <= 2 * VideoBits(o) + d
    BY <1>1, <1>2, <1>5 DEF Bitrate
  <2>2. VideoBits(o) = t - AudioRate * d
    BY DEF VideoBits
  <2> HIDE DEF b, d, t
  <2>3. AudioRate \in Nat /\ b + a \in Nat /\ b + AudioRate \in Nat
    BY <1>3, <1>5 DEF AudioRate
  <2>4. (b + a) * e <= (b + a) * d
    <3> DEFINE r == b + a
    <3>1. r \in Nat
      BY <2>3
    <3> HIDE DEF r
    <3>2. d - e \in Nat /\ r * (d - e) \in Nat /\ r * (d - e) = r * d - r * e
      BY <1>1, <3>1 DEF d
    <3>3. r * d \in Int /\ r * e \in Int
      BY <1>1, <3>1
    <3>4. r * e <= r * d
      BY <3>2, <3>3
    <3> QED
      BY <3>4 DEF r
  <2>5. (b + a) * d <= d * b + AudioRate * d
    <3>1. /\ AudioRate - a \in Nat /\ (AudioRate - a) * d \in Nat
          /\ (AudioRate - a) * d = AudioRate * d - a * d
      BY <1>1, <2>3
    <3>2. (b + a) * d = d * b + a * d /\ d * b \in Int /\ a * d \in Int /\ AudioRate * d \in Int
      BY <1>1, <1>3, <2>3
    <3> QED
      BY <3>1, <3>2
  <2>6. /\ 2 * (b + a) * e = 2 * ((b + a) * e)
        /\ (b + a) * e \in Int /\ (b + a) * d \in Int
        /\ d * b \in Int /\ AudioRate * d \in Int
    BY <1>1, <1>3, <2>3
  <2> QED
    BY <1>1, <1>4, <2>1, <2>2, <2>4, <2>5, <2>6
<1> QED
  BY <1>3, <1>4, <1>5

-----------------------------------------------------------------------------
(***************************************************************************)
(* addHWAccelFlags.                                                        *)
(***************************************************************************)
\* It leaves a list alone whose input is first, as MakeFFmpegFlags' is.
LEMMA FirstInputStays ==
  ASSUME NEW o, NEW c, Lead(args, 1, o, c)
  PROVE  AddHWAccelFlags = args
BY DEF Lead, InputsPastFirst, AddHWAccelFlags

LEMMA SecondInputFound ==
  ASSUME NEW o, NEW c, Lead(args, 2, o, c)
  PROVE  /\ InputsPastFirst = {2}
         /\ (CHOOSE i \in InputsPastFirst : \A j \in InputsPastFirst : i <= j) = 2
BY DEF Lead, InputsPastFirst

LEMMA SplitFirst ==
  ASSUME NEW S, NEW x \in S, NEW t \in Seq(S)
  PROVE  /\ SubSeq(<<x>> \o t, 1, 1) = <<x>>
         /\ SubSeq(<<x>> \o t, 2, Len(<<x>> \o t)) = t
<1>1. <<x>> \in Seq(S) /\ Len(<<x>>) = 1
  OBVIOUS
<1>2. Len(<<x>> \o t) = 1 + Len(t) /\ <<x>> \o t \in Seq(S)
  BY <1>1
<1>3. SubSeq(<<x>> \o t, 1, 1) = SubSeq(<<x>>, 1, 1)
  BY <1>1, SubSeqOfConcat1
<1>4. SubSeq(<<x>> \o t, 2, Len(<<x>> \o t)) = SubSeq(t, 1, Len(t))
  BY <1>1, <1>2, SubSeqOfConcat2
<1> QED
  BY <1>1, <1>3, <1>4, SubSeqFull

\* It puts the flag of a card before an upload's input.
LEMMA UploadAccelerated ==
  ASSUME NEW video, args = UploadFlags(video)
  PROVE  AddHWAccelFlags =
           IF UseGPU /\ env["FFMPEG_USE_GPU"] = "true" /\ Set("FFMPEG_HWACCEL")
           THEN Accelerated(video, env["FFMPEG_HWACCEL"]) ELSE args
<1> DEFINE t == UploadTail(video)
<1>1. InputsPastFirst = {2}
      /\ (CHOOSE i \in InputsPastFirst : \A j \in InputsPastFirst : i <= j) = 2
  BY UploadFits, SecondInputFound
<1>2. t \in Seq(Words) /\ "-y" \in Words
  BY TailFits DEF Piece, Words, Plain
<1>3. args = <<"-y">> \o t
  BY UploadIsTail
<1> HIDE DEF t
<1>4. SubSeq(args, 1, 2 - 1) = <<"-y">> /\ SubSeq(args, 2, Len(args)) = t
  BY <1>2, <1>3, SplitFirst
<1> DEFINE k == CHOOSE i \in InputsPastFirst : \A j \in InputsPastFirst : i <= j
           cond == UseGPU /\ env["FFMPEG_USE_GPU"] = "true" /\ Set("FFMPEG_HWACCEL")
<1>5. AddHWAccelFlags =
        IF UseGPU /\ (env["FFMPEG_USE_GPU"] = "true" /\ Set("FFMPEG_HWACCEL")) /\ InputsPastFirst # {}
        THEN SubSeq(args, 1, k - 1) \o <<"-hwaccel", env["FFMPEG_HWACCEL"]>>
               \o SubSeq(args, k, Len(args))
        ELSE args
  BY DEF AddHWAccelFlags
<1>6. k = 2 /\ InputsPastFirst # {}
  BY <1>1
<1> HIDE DEF k, cond
<1>7. AddHWAccelFlags =
        IF cond
        THEN (<<"-y">> \o <<"-hwaccel", env["FFMPEG_HWACCEL"]>>) \o t
        ELSE args
  BY <1>4, <1>5, <1>6 DEF cond
<1> QED
  BY <1>7 DEF Accelerated, t, cond

-----------------------------------------------------------------------------
(***************************************************************************)
(* The start.                                                              *)
(***************************************************************************)
Serving == {"serving", "flags", "run", "answered"}

\* The types of what Setup reads and sets.
StartInv ==
  /\ env = [s \in Settings |-> env[s]]
  /\ \A s \in Settings \ Chosen : env[s] \in Values(s) \cup {"15"}
  /\ machine \in Machines
  /\ stage \in Starting \cup Stopped \cup Serving

\* The card's codecs are chosen where a card was found and asked for.
Codecs(e) == [hwaccel |-> e["FFMPEG_HWACCEL"], encoder |-> e["FFMPEG_ENCODER"]]

CardInv ==
  CASE stage \in {"host", "ffmpeg", "gpu"} -> Codecs(env) = [hwaccel |-> "", encoder |-> ""]
    [] stage \notin {"host", "ffmpeg", "gpu"} ->
         \/ Codecs(env) = [hwaccel |-> "", encoder |-> ""]
            /\ (stage # "panicked" => env["FFMPEG_USE_GPU"] # "true")
         \/ /\ env["FFMPEG_USE_GPU"] = "true" /\ DetectGPU # ""
            /\ Codecs(env) = Choice(DetectGPU)

\* DetectGPU names the vendor of a card that is there.
LEMMA DetectGPUFinds ==
  ASSUME machine \in Machines
  PROVE  /\ DetectGPU \in {"", "nvidia", "intel", "amd"}
         /\ DetectGPU = "nvidia" => Has({"0x10de"})
         /\ DetectGPU = "intel" => Has({"0x8086"})
<1>1. CASE Known = {}
  BY <1>1 DEF DetectGPU
<1>2. CASE Known # {}
  <2>1. machine.cards \in Seq(STRING)
    BY ConfigAssumption
  <2>2. Known \subseteq Nat
    BY <2>1 DEF Known
  <2>3. IsWellFoundedOn(OpToRel(<, Nat), Nat)
    BY Zenon, NatLessThanWellFounded
  <2>4. PICK i \in Known : \A j \in Known : <<j, i>> \notin OpToRel(<, Nat)
    BY Zenon, <1>2, <2>2, <2>3, WFMin
  <2>5. \A j \in Known : ~(j < i)
    BY <2>2, <2>4 DEF OpToRel
  <2>6. i \in Known /\ \A j \in Known : i <= j
    BY <2>2, <2>5
  <2> DEFINE k == CHOOSE m \in Known : \A j \in Known : m <= j
             first == machine.cards[k]
  <2>7. k \in Known
    BY <2>6
  <2>8. k \in DOMAIN machine.cards /\ first \in DOMAIN Vendor \cup {"unreadable"}
    <3> HIDE DEF k
    <3> QED
      BY <2>7 DEF Known
  <2>9. DetectGPU = IF first \in DOMAIN Vendor THEN Vendor[first] ELSE ""
    BY <1>2 DEF DetectGPU
  <2>10. \A S : first \in S => Has(S)
    BY <2>8 DEF Has
  <2> HIDE DEF first
  <2>11. DOMAIN Vendor = {"0x10de", "0x8086", "0x1002"}
    BY DEF Vendor
  <2>12. CASE first = "0x10de"
    BY <2>9, <2>10, <2>12 DEF Vendor
  <2>13. CASE first = "0x8086"
    BY <2>9, <2>10, <2>13 DEF Vendor
  <2>14. CASE first = "0x1002"
    BY <2>9, <2>14 DEF Vendor
  <2>15. CASE first = "unreadable"
    BY <2>9, <2>11, <2>15
  <2> QED
    BY <2>8, <2>11, <2>12, <2>13, <2>14, <2>15
<1> QED
  BY <1>1, <1>2

LEMMA DetectGPUStays == machine' = machine => DetectGPU' = DetectGPU
<1> SUFFICES ASSUME machine' = machine PROVE DetectGPU' = DetectGPU
  OBVIOUS
<1>1. Known' = Known
  BY DEF Known
<1> QED
  BY <1>1 DEF DetectGPU

LEMMA ChoiceTypes ==
  ASSUME NEW gpu \in {"nvidia", "intel", "amd"}
  PROVE  /\ Choice(gpu).hwaccel \in {"cuda", "qsv", "vaapi"}
         /\ Choice(gpu).encoder \in {"h264_nvenc", "h264_qsv", "h264_vaapi"}
         /\ Choice(gpu) = [hwaccel |-> Choice(gpu).hwaccel, encoder |-> Choice(gpu).encoder]
BY DEF Choice

LEMMA SettingNames ==
  /\ {"FFMPEG_USE_GPU", "SECURITY_RATE_LIMIT"} \subseteq Settings \ Chosen
  /\ Chosen \subseteq Settings
BY DEF Settings, Chosen, Numbers, Switches

LEMMA InitStart == Init => StartInv /\ CardInv
<1> SUFFICES ASSUME Init PROVE StartInv /\ CardInv
  OBVIOUS
<1>1. /\ env \in [Settings -> STRING] /\ \A s \in Settings : env[s] \in Values(s)
      /\ machine \in Machines /\ stage = "host"
  BY ConfigAssumption DEF Init, ConfigInit
<1>2. \A s \in Chosen : env[s] = ""
  <2>1. \A s \in Chosen : Values(s) = {""}
    BY DEF Values, Chosen, Texts, Switches, Numbers, Limits, Host, Certificates, Mail,
           Bucket
  <2> QED
    BY <1>1, <2>1, SettingNames
<1>3. StartInv
  BY <1>1 DEF StartInv, Starting, Serving
<1>4. CardInv
  BY <1>1, <1>2 DEF CardInv, Codecs, Chosen
<1> QED
  BY <1>3, <1>4

LEMMA ConfigStart == StartInv /\ ConfigNext => StartInv'
<1> SUFFICES ASSUME StartInv, ConfigNext PROVE StartInv'
  OBVIOUS
<1> USE DEF Section, Starting, Stopped, Serving
<1>1. CASE CheckHost \/ CheckFfmpeg
  <2>1. UNCHANGED <<env, machine>> /\ stage' \in {"ffmpeg", "gpu", "panicked"}
    BY <1>1 DEF CheckHost, CheckFfmpeg
  <2> QED
    BY <2>1 DEF StartInv
<1>2. CASE CheckGPU
  <2>1. machine' = machine /\ stage' = "numbers"
    BY <1>2 DEF CheckGPU
  <2>2. /\ env' = [s \in Settings |-> env'[s]]
        /\ \A s \in Settings \ Chosen : env'[s] \in Values(s) \cup {"15"}
    <3>0. /\ env = [s \in Settings |-> env[s]]
          /\ \A s \in Settings \ Chosen : env[s] \in Values(s) \cup {"15"}
      BY DEF StartInv
    <3>1. CASE env' = env
      BY <3>0, <3>1
    <3>2. CASE env' = [env EXCEPT !["FFMPEG_USE_GPU"] = "false"]
      <4>1. Values("FFMPEG_USE_GPU") = {"", "true", "false"}
        BY DEF Values, Switches, Texts, Host, Certificates, Mail, Bucket, Numbers, Limits,
               Chosen
      <4>2. \A s \in Settings : env'[s] = IF s = "FFMPEG_USE_GPU" THEN "false" ELSE env[s]
        BY <3>0, <3>2
      <4>3. env' = [s \in Settings |-> env'[s]]
        BY <3>0, <3>2
      <4> QED
        BY <3>0, <4>1, <4>2, <4>3
    <3>3. CASE env' = [env EXCEPT !["FFMPEG_HWACCEL"] = Choice(DetectGPU).hwaccel,
                                  !["FFMPEG_ENCODER"] = Choice(DetectGPU).encoder]
      <4>1. \A s \in Settings \ Chosen : env'[s] = env[s]
        BY <3>0, <3>3 DEF Chosen
      <4>2. env' = [s \in Settings |-> env'[s]]
        BY <3>0, <3>3
      <4> QED
        BY <3>0, <4>1, <4>2
    <3> QED
      BY <1>2, <3>1, <3>2, <3>3 DEF CheckGPU
  <2> QED
    BY <2>1, <2>2 DEF StartInv
<1>3. CASE CheckNumbers
  <2>0. /\ env = [s \in Settings |-> env[s]]
        /\ \A s \in Settings \ Chosen : env[s] \in Values(s) \cup {"15"}
    BY DEF StartInv
  <2>1. CASE stage' = "panicked"
    BY <1>3, <2>1 DEF CheckNumbers, StartInv
  <2>2. CASE stage' # "panicked"
    <3>1. stage' = "services" /\ machine' = machine /\ env' = RateCorrected
      BY <1>3, <2>2 DEF CheckNumbers
    <3>2. CASE Positive("SECURITY_RATE_LIMIT")
      BY <3>1, <3>2 DEF RateCorrected, StartInv
    <3>3. CASE ~Positive("SECURITY_RATE_LIMIT")
      <4>1. env' = [env EXCEPT !["SECURITY_RATE_LIMIT"] = "15"]
        BY <3>1, <3>3 DEF RateCorrected
      <4>2. \A s \in Settings : env'[s] = IF s = "SECURITY_RATE_LIMIT" THEN "15" ELSE env[s]
        BY <2>0, <4>1
      <4>3. env' = [s \in Settings |-> env'[s]]
        BY <2>0, <4>1
      <4>4. \A s \in Settings \ Chosen : env'[s] \in Values(s) \cup {"15"}
        BY <2>0, <4>2
      <4> QED
        BY <3>1, <4>3, <4>4 DEF StartInv
    <3> QED
      BY <3>2, <3>3
  <2> QED
    BY <2>1, <2>2
<1>4. CASE CheckServices
  <2>1. UNCHANGED <<env, machine>> /\ stage' \in {"database", "panicked"}
    BY <1>4 DEF CheckServices
  <2> QED
    BY <2>1 DEF StartInv
<1>5. CASE OpenDatabase \/ ReachBucket
  <2>1. UNCHANGED <<env, machine>> /\ stage' \in {"bucket", "serving", "panicked"}
    BY <1>5 DEF OpenDatabase, ReachBucket
  <2> QED
    BY <2>1 DEF StartInv
<1> QED
  BY <1>1, <1>2, <1>3, <1>4, <1>5 DEF ConfigNext

LEMMA ConfigCard == StartInv /\ CardInv /\ ConfigNext => CardInv'
<1> SUFFICES ASSUME StartInv, CardInv, ConfigNext PROVE CardInv'
  OBVIOUS
<1> USE DEF Section
<1>0. env = [s \in Settings |-> env[s]] /\ machine \in Machines
  BY DEF StartInv
<1>1. CASE CheckHost \/ CheckFfmpeg
  BY <1>1 DEF CheckHost, CheckFfmpeg, CardInv
<1>2. CASE CheckGPU
  <2>1. /\ machine' = machine /\ stage = "gpu" /\ stage' = "numbers"
        /\ Codecs(env) = [hwaccel |-> "", encoder |-> ""]
    BY <1>2 DEF CheckGPU, CardInv
  <2>2. DetectGPU' = DetectGPU
    BY <2>1, DetectGPUStays
  <2>3. CASE env["FFMPEG_USE_GPU"] # "true"
    <3>1. env' = env
      BY <1>2, <2>3 DEF CheckGPU
    <3> QED
      BY <2>1, <2>3, <3>1 DEF CardInv
  <2>4. CASE env["FFMPEG_USE_GPU"] = "true" /\ DetectGPU = ""
    <3>1. env' = [env EXCEPT !["FFMPEG_USE_GPU"] = "false"]
      BY <1>2, <2>4 DEF CheckGPU
    <3>2. /\ env'["FFMPEG_USE_GPU"] = "false"
          /\ env'["FFMPEG_HWACCEL"] = env["FFMPEG_HWACCEL"]
          /\ env'["FFMPEG_ENCODER"] = env["FFMPEG_ENCODER"]
      BY <1>0, <3>1, SettingNames DEF Chosen
    <3> QED
      BY <2>1, <3>2 DEF CardInv, Codecs
  <2>5. CASE env["FFMPEG_USE_GPU"] = "true" /\ DetectGPU # ""
    <3>1. env' = [env EXCEPT !["FFMPEG_HWACCEL"] = Choice(DetectGPU).hwaccel,
                             !["FFMPEG_ENCODER"] = Choice(DetectGPU).encoder]
      BY <1>2, <2>5 DEF CheckGPU
    <3>2. /\ env'["FFMPEG_USE_GPU"] = env["FFMPEG_USE_GPU"]
          /\ env'["FFMPEG_HWACCEL"] = Choice(DetectGPU).hwaccel
          /\ env'["FFMPEG_ENCODER"] = Choice(DetectGPU).encoder
      BY <1>0, <3>1, SettingNames DEF Chosen
    <3>3. Codecs(env)' = Choice(DetectGPU)
      BY <1>0, <2>5, <3>2, ChoiceTypes, DetectGPUFinds DEF Codecs
    <3> QED
      BY <2>1, <2>2, <2>5, <3>2, <3>3 DEF CardInv
  <2> QED
    BY <2>3, <2>4, <2>5
<1>3. CASE CheckNumbers
  <2>1. /\ machine' = machine /\ stage = "numbers" /\ stage' \in {"services", "panicked"}
        /\ env' \in {env, RateCorrected}
    BY <1>3 DEF CheckNumbers
  <2>2. DetectGPU' = DetectGPU
    BY <2>1, DetectGPUStays
  <2>3. /\ env'["FFMPEG_USE_GPU"] = env["FFMPEG_USE_GPU"]
        /\ env'["FFMPEG_HWACCEL"] = env["FFMPEG_HWACCEL"]
        /\ env'["FFMPEG_ENCODER"] = env["FFMPEG_ENCODER"]
    BY <1>0, <2>1, SettingNames DEF RateCorrected, Chosen
  <2>4. Codecs(env') = Codecs(env)
    BY <2>3 DEF Codecs
  <2> QED
    BY <2>1, <2>2, <2>3, <2>4 DEF CardInv
<1>4. CASE CheckServices \/ OpenDatabase \/ ReachBucket
  <2>1. /\ UNCHANGED <<env, machine>> /\ stage \in {"services", "database", "bucket"}
        /\ stage' \in {"database", "bucket", "serving", "panicked"}
    BY <1>4 DEF CheckServices, OpenDatabase, ReachBucket
  <2>2. DetectGPU' = DetectGPU
    BY <2>1, DetectGPUStays
  <2> QED
    BY <2>1, <2>2 DEF CardInv
<1> QED
  BY <1>1, <1>2, <1>3, <1>4 DEF ConfigNext

\* After the start nothing changes what it has set.
JobStep ==
  \/ \E o \in Options : AskExport(o) \/ AskEdit(o)
  \/ \E video \in {"mkv", "mp4"} : AskUpload(video)
  \/ MakeFFmpegFlags \/ RunFFmpegJob

LEMMA JobsKeepStart == StartInv /\ CardInv /\ JobStep => StartInv' /\ CardInv'
<1> SUFFICES ASSUME StartInv, CardInv, JobStep PROVE StartInv' /\ CardInv'
  OBVIOUS
<1>1. UNCHANGED <<env, machine>> /\ stage \in Serving /\ stage' \in Serving
  BY DEF JobStep, AskExport, AskEdit, AskUpload, MakeFFmpegFlags, FlagsMade, NoDuration,
         Answer, GoOn, RunFFmpegJob, Serving
<1>2. DetectGPU' = DetectGPU
  BY <1>1, DetectGPUStays
<1>3. StartInv'
  BY <1>1 DEF StartInv, Serving
<1>4. CardInv'
  BY <1>1, <1>2 DEF CardInv, Serving
<1> QED
  BY <1>3, <1>4

LEMMA NextStart == StartInv /\ CardInv /\ [Next]_vars => StartInv' /\ CardInv'
<1>1. ASSUME StartInv, CardInv, UNCHANGED vars PROVE StartInv' /\ CardInv'
  <2>1. env' = env /\ machine' = machine /\ stage' = stage
    BY <1>1 DEF vars
  <2>2. DetectGPU' = DetectGPU
    BY <2>1, DetectGPUStays
  <2> QED
    BY <1>1, <2>1, <2>2 DEF StartInv, CardInv
<1> QED
  BY <1>1, ConfigStart, ConfigCard, JobsKeepStart DEF Next, JobStep

\* The codecs that the start chose are those of the card that is there, and
\* stay so for the handlers (config.go:Setup).
THEOREM StartIsChecked == Spec => [](StartInv /\ CardInv)
BY InitStart, NextStart, PTL DEF Spec

-----------------------------------------------------------------------------
(***************************************************************************)
(* The request.                                                            *)
(***************************************************************************)
\* The arguments of a job before the hardware's, and after.
JobArgs == IF Exporting THEN Flags(opts) ELSE UploadFlags(job)

Jobs == {"export", "edit", "mkv", "mp4"}

RunArgs ==
  IF job = "mkv" /\ env["FFMPEG_USE_GPU"] = "true"
  THEN Accelerated("mkv", env["FFMPEG_HWACCEL"]) ELSE JobArgs

\* Why a job may fail before ffmpeg starts.
FailsEarly ==
  \/ job = "edit" /\ ~Set("CLOUDFRONT_URL")
  \/ Exporting /\ ~Trimmed(opts) /\ ~machine.ffprobe

\* At each stage the arguments and numbers are those of what was accepted.
JobInv ==
  /\ stage \in Starting \cup Stopped \cup {"serving", "flags"} => args = <<>> /\ outcome = "none"
  /\ stage \in Starting \cup Stopped \cup {"serving"} => job = "none" /\ opts = NoOptions
  /\ stage \in {"flags", "run", "answered"} => job \in Jobs
  /\ stage = "flags" => Exporting
  /\ stage \in {"flags", "run"} /\ Exporting => Accepted(opts)
  /\ stage = "run" =>
       /\ args = JobArgs /\ outcome = "none"
       /\ Exporting =>
            /\ IsCut(opts, cut)
            /\ duration = Duration(opts)
            /\ bitrate = IF Sized(opts) THEN Bitrate(opts) ELSE -1
  /\ stage = "answered" =>
       \/ outcome = "rejected" /\ args = <<>>
       \/ outcome = "failed" /\ args = <<>> /\ FailsEarly
       \/ /\ args = RunArgs /\ outcome \in Outcomes(args)
          /\ Exporting => Accepted(opts) /\ IsCut(opts, cut)
  /\ opts \in Options \cup {NoOptions}
  /\ Exporting => opts \in Options
  /\ cut \in [from : Int, to : Int] /\ duration \in Nat /\ bitrate \in Int

Inv == StartInv /\ CardInv /\ JobInv

LEMMA CodecsAre ==
  ASSUME NEW c, Codecs(env) = c
  PROVE  env["FFMPEG_HWACCEL"] = c.hwaccel /\ env["FFMPEG_ENCODER"] = c.encoder
BY DEF Codecs

\* The codecs that the start may choose.
LEMMA CodecTypes ==
  ASSUME StartInv, CardInv
  PROVE  /\ env["FFMPEG_ENCODER"] \in {"", "h264_nvenc", "h264_qsv", "h264_vaapi"}
         /\ env["FFMPEG_HWACCEL"] \in {"", "cuda", "qsv", "vaapi"}
         /\ Encoder \in Encoders
<1>1. /\ env["FFMPEG_ENCODER"] \in {"", "h264_nvenc", "h264_qsv", "h264_vaapi"}
      /\ env["FFMPEG_HWACCEL"] \in {"", "cuda", "qsv", "vaapi"}
  <2>1. \/ Codecs(env) = [hwaccel |-> "", encoder |-> ""]
        \/ DetectGPU # "" /\ Codecs(env) = Choice(DetectGPU)
    BY DEF CardInv
  <2>2. CASE Codecs(env) = [hwaccel |-> "", encoder |-> ""]
    BY <2>2 DEF Codecs
  <2>3. CASE DetectGPU # "" /\ Codecs(env) = Choice(DetectGPU)
    <3>1. DetectGPU \in {"nvidia", "intel", "amd"}
      BY <2>3, DetectGPUFinds DEF StartInv
    <3>2. /\ env["FFMPEG_HWACCEL"] = Choice(DetectGPU).hwaccel
          /\ env["FFMPEG_ENCODER"] = Choice(DetectGPU).encoder
      BY <2>3, CodecsAre
    <3> QED
      BY <3>1, <3>2, ChoiceTypes
  <2> QED
    BY <2>1, <2>2, <2>3
<1> QED
  BY <1>1 DEF Encoder, Encoders, Set

\* Where the card is used there is one, and its decoder is chosen.
LEMMA CardUsed ==
  ASSUME StartInv, CardInv, stage \in Serving, env["FFMPEG_USE_GPU"] = "true"
  PROVE  /\ DetectGPU \in {"nvidia", "intel", "amd"}
         /\ env["FFMPEG_HWACCEL"] = Choice(DetectGPU).hwaccel
         /\ env["FFMPEG_ENCODER"] = Choice(DetectGPU).encoder
<1>1. DetectGPU # "" /\ Codecs(env) = Choice(DetectGPU)
  BY DEF CardInv, Serving
<1>2. DetectGPU \in {"nvidia", "intel", "amd"}
  BY <1>1, DetectGPUFinds DEF StartInv
<1> QED
  BY <1>1, <1>2, CodecsAre

LEMMA CardUnused ==
  ASSUME CardInv, stage \in Serving, env["FFMPEG_USE_GPU"] # "true"
  PROVE  env["FFMPEG_HWACCEL"] = "" /\ env["FFMPEG_ENCODER"] = ""
BY DEF CardInv, Serving, Codecs

\* What addHWAccelFlags makes of a job's arguments.
LEMMA RunArgsAreThese ==
  ASSUME StartInv, CardInv, stage = "run", job \in Jobs,
         Exporting => Accepted(opts), args = JobArgs
  PROVE  AddHWAccelFlags = RunArgs
<1>1. CASE Exporting
  <2>1. args = Flags(opts) /\ opts.lossless \in BOOLEAN
    BY <1>1, AcceptedTypes DEF JobArgs
  <2>2. \E q : Lead(Flags(opts), 1, q, {Encoder})
    <3>1. Encoder \in Encoders
      BY CodecTypes
    <3> QED
      BY <2>1, <3>1, FlagsFit
  <2>3. AddHWAccelFlags = args
    BY <2>1, <2>2, FirstInputStays
  <2> QED
    BY <1>1, <2>3 DEF RunArgs, Exporting
<1>2. CASE job \in {"mkv", "mp4"}
  <2>1. AddHWAccelFlags =
          IF UseGPU /\ env["FFMPEG_USE_GPU"] = "true" /\ Set("FFMPEG_HWACCEL")
          THEN Accelerated(job, env["FFMPEG_HWACCEL"]) ELSE args
    BY <1>2, UploadAccelerated DEF JobArgs, Exporting
  <2>2. env["FFMPEG_USE_GPU"] = "true" => Set("FFMPEG_HWACCEL")
    BY CardUsed, ChoiceTypes DEF Serving, Set
  <2> QED
    BY <1>2, <2>1, <2>2 DEF RunArgs, UseGPU
<1> QED
  BY <1>1, <1>2 DEF Jobs, Exporting

LEMMA InitJob == Init => JobInv
<1> SUFFICES ASSUME Init PROVE JobInv
  OBVIOUS
<1>1. /\ stage = "host" /\ job = "none" /\ outcome = "none" /\ opts = NoOptions
      /\ args = <<>> /\ cut = Uncut /\ duration = 0 /\ bitrate = -1
  BY DEF Init, ConfigInit
<1>2. cut \in [from : Int, to : Int]
  BY <1>1 DEF Uncut
<1> QED
  BY <1>1, <1>2 DEF JobInv, Starting, Stopped, Exporting

\* What stays while nothing that they read changes.
LEMMA ArgsStay ==
  UNCHANGED <<env, machine, job, opts, cut>> =>
    /\ JobArgs' = JobArgs /\ RunArgs' = RunArgs /\ FailsEarly' = FailsEarly
    /\ Exporting' = Exporting
    /\ \A a : Outcomes(a)' = Outcomes(a)
<1> SUFFICES ASSUME UNCHANGED <<env, machine, job, opts, cut>>
             PROVE  /\ JobArgs' = JobArgs /\ RunArgs' = RunArgs
                    /\ FailsEarly' = FailsEarly /\ Exporting' = Exporting
                    /\ \A a : Outcomes(a)' = Outcomes(a)
  OBVIOUS
<1>1. Exporting' = Exporting
  BY DEF Exporting
<1>2. Flags(opts)' = Flags(opts)
  BY DEF Flags, QualityFlags, Encoder, Set
<1>3. JobArgs' = JobArgs
  BY <1>1, <1>2 DEF JobArgs
<1>4. RunArgs' = RunArgs
  BY <1>3 DEF RunArgs
<1>5. FailsEarly' = FailsEarly
  BY <1>1 DEF FailsEarly, Set
<1>6. Encoded' = Encoded /\ CutIsRead' = CutIsRead /\ BufferIsRead' = BufferIsRead
  <2>1. BufferIsRead' = BufferIsRead
    BY SMT DEF BufferIsRead
  <2>2. Encoded' = Encoded /\ CutIsRead' = CutIsRead
    BY DEF Encoded, CutIsRead
  <2> QED
    BY <2>1, <2>2
<1>7. \A codec : Works(codec)' = Works(codec)
  BY DEF Works, Has
<1>8. \A a : Runs(a)' = Runs(a)
  BY <1>1, <1>6, <1>7 DEF Runs
<1>9. \A a : Outcomes(a)' = Outcomes(a)
  BY <1>1, <1>6, <1>8 DEF Outcomes
<1> QED
  BY <1>1, <1>3, <1>4, <1>5, <1>9

LEMMA NextJob == Inv /\ [Next]_vars => JobInv'
<1> SUFFICES ASSUME Inv, [Next]_vars PROVE JobInv'
  OBVIOUS
<1> USE DEF Inv
<1>1. CASE UNCHANGED vars
  <2>1. /\ UNCHANGED <<env, machine, stage, job, opts, args, cut, duration, bitrate, outcome>>
    BY <1>1 DEF vars, jobVars
  <2>2. /\ JobArgs' = JobArgs /\ RunArgs' = RunArgs /\ FailsEarly' = FailsEarly
        /\ Exporting' = Exporting /\ Outcomes(args)' = Outcomes(args)
    BY <2>1, ArgsStay
  <2> QED
    BY <2>1, <2>2 DEF JobInv
<1>2. CASE ConfigNext /\ UNCHANGED jobVars
  <2>1. UNCHANGED <<job, opts, args, cut, duration, bitrate, outcome>>
    BY <1>2 DEF jobVars
  <2>2. stage \in Starting /\ stage' \in Starting \cup Stopped \cup {"serving"}
    BY <1>2 DEF ConfigNext, CheckHost, CheckFfmpeg, CheckGPU, CheckNumbers, CheckServices,
                OpenDatabase, ReachBucket, Section, Starting, Stopped
  <2>3. stage' \notin {"flags", "run", "answered"} /\ job = "none"
    BY <2>2 DEF JobInv, Starting, Stopped
  <2> QED
    BY <2>1, <2>2, <2>3 DEF JobInv, Exporting
<1>3. ASSUME NEW o \in Options, AskExport(o) \/ AskEdit(o) PROVE JobInv'
  <2>1. /\ stage = "serving" /\ job' \in {"export", "edit"} /\ opts' = o
        /\ UNCHANGED <<env, machine, args, cut, duration, bitrate>>
    BY <1>3 DEF AskExport, AskEdit
  <2>2. \/ stage' = "flags" /\ outcome' = outcome /\ Accepts(o)
        \/ stage' = "answered" /\ outcome' = "rejected"
        \/ /\ stage' = "answered" /\ outcome' = "failed" /\ job' = "edit"
           /\ ~Set("CLOUDFRONT_URL")
    BY <1>3 DEF AskExport, AskEdit, Answer, GoOn
  <2>3. args = <<>> /\ outcome = "none"
    BY <2>1 DEF JobInv
  <2>4. Set("CLOUDFRONT_URL")' = Set("CLOUDFRONT_URL")
    BY <2>1 DEF Set
  <2>5. /\ cut' \in [from : Int, to : Int] /\ duration' \in Nat /\ bitrate' \in Int
    BY <2>1 DEF JobInv
  <2>6. CASE stage' = "flags"
    <3>1. Accepted(opts') /\ outcome' = "none"
      BY <2>1, <2>2, <2>3, <2>6, <1>3 DEF Accepted
    <3> QED
      BY <2>1, <2>3, <2>5, <2>6, <3>1, <1>3 DEF JobInv, Starting, Stopped, Jobs, Exporting
  <2>7. CASE stage' = "answered"
    BY <2>1, <2>2, <2>3, <2>4, <2>5, <2>7, <1>3
       DEF JobInv, Starting, Stopped, Jobs, Exporting, FailsEarly
  <2> QED
    BY <2>2, <2>6, <2>7
<1>4. ASSUME NEW video \in {"mkv", "mp4"}, AskUpload(video) PROVE JobInv'
  <2>1. /\ stage = "serving" /\ job' = video
        /\ UNCHANGED <<opts, cut, duration, bitrate>>
        /\ \/ stage' = "run" /\ args' = UploadFlags(video) /\ outcome' = outcome
           \/ stage' = "answered" /\ args' = args /\ outcome' = "rejected"
    BY <1>4 DEF AskUpload, Answer, GoOn
  <2>2. JobArgs' = UploadFlags(video) /\ ~Exporting' /\ job' \in Jobs
    BY <2>1 DEF JobArgs, Exporting, Jobs
  <2>3. args = <<>> /\ outcome = "none"
    BY <2>1 DEF JobInv
  <2> QED
    BY <2>1, <2>2, <2>3 DEF JobInv, Starting, Stopped
<1>5. CASE MakeFFmpegFlags
  <2>1. stage = "flags" /\ UNCHANGED <<env, machine, job, opts>>
    BY <1>5 DEF MakeFFmpegFlags
  <2>2. Exporting /\ Accepted(opts) /\ job \in Jobs /\ args = <<>> /\ outcome = "none"
    BY <2>1 DEF JobInv
  <2>3. Exporting'
    BY <2>1, <2>2 DEF Exporting
  <2>4. CASE Trimmed(opts) \/ machine.ffprobe
    <3>1. /\ stage' = "run" /\ outcome' = outcome /\ args' = Flags(opts)
          /\ duration' = Duration(opts)
          /\ bitrate' = IF Sized(opts) THEN Bitrate(opts) ELSE -1
      BY <1>5, <2>4 DEF MakeFFmpegFlags, FlagsMade, GoOn
    <3>2. IsCut(opts, cut') /\ cut' \in [from : Int, to : Int]
      <4>1. PICK from \in IF opts.start > 0 THEN Stamps(opts.start) ELSE {0},
                 to \in IF Trimmed(opts) THEN Stamps(opts.end) ELSE {-1} :
              cut' = [from |-> from, to |-> to]
        BY <1>5, <2>4 DEF MakeFFmpegFlags, FlagsMade
      <4>2. IsCut(opts, [from |-> from, to |-> to])
        BY DEF IsCut
      <4>3. from \in Int /\ to \in Int
        BY <2>2, <4>2, CutTypes
      <4> QED
        BY <4>1, <4>2, <4>3
    <3>3. JobArgs' = args'
      <4>1. Flags(opts)' = Flags(opts)
        BY <2>1 DEF Flags, QualityFlags, Encoder, Set
      <4> QED
        BY <2>3, <3>1, <4>1 DEF JobArgs
    <3>4. duration' \in Nat /\ bitrate' \in Int
      <4>1. Duration(opts) \in Nat
        BY <2>2, AcceptedTypes
      <4>2. Bitrate(opts) \in Int
        BY <2>2, BitrateTypes
      <4> QED
        BY <3>1, <4>1, <4>2
    <3>5. /\ duration' = Duration(opts')
          /\ bitrate' = IF Sized(opts') THEN Bitrate(opts') ELSE -1
          /\ IsCut(opts', cut') /\ Accepted(opts')
      BY <2>1, <2>2, <3>1, <3>2
    <3>6. opts' \in Options
      BY <3>5 DEF Accepted
    <3> HIDE DEF Inv
    <3> QED
      BY <2>1, <2>2, <2>3, <3>1, <3>2, <3>3, <3>4, <3>5, <3>6
         DEF JobInv, Starting, Stopped
  <2>5. CASE ~(Trimmed(opts) \/ machine.ffprobe)
    <3>1. /\ stage' = "answered" /\ outcome' = "failed"
          /\ UNCHANGED <<args, cut, duration, bitrate>>
      BY <1>5, <2>5 DEF MakeFFmpegFlags, NoDuration, Answer
    <3>2. FailsEarly'
      BY <2>1, <2>3, <2>5 DEF FailsEarly
    <3>3. opts' \in Options
      BY <2>1, <2>2 DEF Accepted
    <3> QED
      BY <2>1, <2>2, <3>1, <3>2, <3>3 DEF JobInv, Starting, Stopped
  <2> QED
    BY <2>4, <2>5
<1>6. CASE RunFFmpegJob
  <2>1. /\ stage = "run" /\ stage' = "answered" /\ args' = AddHWAccelFlags
        /\ outcome' \in Outcomes(args')
        /\ UNCHANGED <<env, machine, job, opts, cut, duration, bitrate>>
    BY <1>6 DEF RunFFmpegJob
  <2>2. /\ job \in Jobs /\ args = JobArgs
        /\ Exporting => Accepted(opts) /\ IsCut(opts, cut)
    BY <2>1 DEF JobInv
  <2>3. args' = RunArgs
    BY <2>1, <2>2, RunArgsAreThese
  <2>4. /\ RunArgs' = RunArgs /\ Exporting' = Exporting
        /\ \A a : Outcomes(a)' = Outcomes(a)
    BY <2>1, ArgsStay
  <2>5. outcome' \in Outcomes(args)'
    BY <2>1, <2>4
  <2>6. Exporting' => Accepted(opts') /\ IsCut(opts', cut')
    BY <2>1, <2>2, <2>4
  <2> QED
    BY <2>1, <2>2, <2>3, <2>4, <2>5, <2>6 DEF JobInv, Starting, Stopped
<1> QED
  BY <1>1, <1>2, <1>3, <1>4, <1>5, <1>6 DEF Next

\* The inductive invariant: what the start has checked, and what a request has
\* come to.
THEOREM ExportInvariant == Spec => []Inv
<1>1. Init => Inv
  BY InitStart, InitJob DEF Inv
<1>2. Inv /\ [Next]_vars => Inv'
  BY NextStart, NextJob DEF Inv
<1> QED
  BY <1>1, <1>2, PTL DEF Spec

-----------------------------------------------------------------------------
(***************************************************************************)
(* What the invariant says of a run.                                       *)
(***************************************************************************)
\* ffmpeg runs a list with one output whose codecs work.
LEMMA PieceRuns ==
  ASSUME NEW a, NEW x, NEW c, Piece(a, {x}, c), "PATH" \in machine.ffmpegIn,
         \A codec \in c : Works(codec), Exporting => CutIsRead /\ BufferIsRead
  PROVE  Runs(a)
<1>1. Cardinality(Outputs(a)) = 1
  BY FS_Singleton DEF Piece
<1>2. \A i \in DOMAIN a : a[i] \in {"-c:v", "-hwaccel"} => Works(a[i + 1])
  BY DEF Piece, CodecOptions
<1> QED
  BY <1>1, <1>2 DEF Runs

\* The pipe or the file is among the outputs of every list.
LEMMA ListsHaveOutput ==
  ASSUME Inv, args # <<>>
  PROVE  Outputs(args) \cap {"pipe:1", "out"} # {}
<1> USE DEF Inv
<1>1. args \in {JobArgs, RunArgs} /\ stage \in Serving
  BY DEF JobInv, StartInv, Serving
<1>2. CASE args = JobArgs /\ Exporting
  <2>1. Encoder \in Encoders
    BY CodecTypes
  <2>2. opts.lossless \in BOOLEAN
    BY <1>2 DEF JobInv, Options
  <2>3. PICK q : Lead(Flags(opts), 1, q, {Encoder}) /\ "pipe:1" \in q
    BY <2>1, <2>2, FlagsFit
  <2> QED
    BY <1>2, <2>3 DEF JobArgs, Lead, Piece
<1>3. CASE args = JobArgs /\ ~Exporting
  BY <1>3, UploadFits DEF JobArgs, Lead, Piece
<1>4. CASE args = RunArgs /\ RunArgs # JobArgs
  <2>1. /\ env["FFMPEG_USE_GPU"] = "true"
        /\ args = Accelerated("mkv", env["FFMPEG_HWACCEL"])
    BY <1>4 DEF RunArgs
  <2>2. env["FFMPEG_HWACCEL"] \in {"cuda", "qsv", "vaapi"}
    BY <1>1, <2>1, CardUsed, ChoiceTypes
  <2>3. Piece(args, {"out"}, {"copy", env["FFMPEG_HWACCEL"]})
    BY <2>1, <2>2, AcceleratedFits
  <2> QED
    BY <2>3 DEF Piece
<1> QED
  BY <1>1, <1>2, <1>3, <1>4

LEMMA TypesFit == Inv => TypeOK
<1> SUFFICES ASSUME Inv PROVE TypeOK
  OBVIOUS
<1> USE DEF Inv
<1>1. /\ DOMAIN env = Settings
      /\ \A s \in Settings \ Chosen : env[s] \in Values(s) \cup {"15"}
      /\ machine \in Machines
      /\ stage \in Starting \cup Stopped \cup {"serving", "flags", "run", "answered"}
  BY DEF StartInv, Serving
<1>2. /\ env["FFMPEG_ENCODER"] \in {"", "h264_nvenc", "h264_qsv", "h264_vaapi"}
      /\ env["FFMPEG_HWACCEL"] \in {"", "cuda", "qsv", "vaapi"}
  BY CodecTypes
<1>3. args # <<>> => Outputs(args) \cap {"pipe:1", "out"} # {}
  BY ListsHaveOutput
<1>4. /\ opts \in Options \cup {NoOptions}
      /\ cut \in [from : Int, to : Int] /\ duration \in Nat /\ bitrate \in Int
  BY DEF JobInv
<1>5. \A a : Outcomes(a) \subseteq {"done", "failed"}
  BY DEF Outcomes
<1>6. /\ job \in {"none", "export", "edit", "mkv", "mp4"}
      /\ outcome \in {"none", "rejected", "done", "failed"}
  BY <1>1, <1>5 DEF JobInv, Jobs
<1> QED
  BY <1>1, <1>2, <1>3, <1>4, <1>6 DEF TypeOK

\* Export's state is always of its type, and every list of arguments has
\* ffmpeg write where the job looks (ffmpeg.go:102, upload.go:91).
THEOREM ExportTypeCorrect == Spec => []TypeOK
BY ExportInvariant, TypesFit, PTL

\* The codecs that the lists name work, but for the cards of AcceptedRuns.
LEMMA EncoderWorks ==
  ASSUME Inv, stage \in Serving, Encoder # "h264_vaapi",
         ~(env["FFMPEG_USE_GPU"] = "true" /\ DetectGPU = "amd")
  PROVE  Works(Encoder)
<1> USE DEF Inv
<1>1. CASE env["FFMPEG_USE_GPU"] = "true"
  <2>1. DetectGPU \in {"nvidia", "intel"} /\ env["FFMPEG_ENCODER"] = Choice(DetectGPU).encoder
    BY <1>1, CardUsed
  <2>2. CASE DetectGPU = "nvidia"
    <3>1. Encoder = "h264_nvenc" /\ Has({"0x10de"})
      BY <2>1, <2>2, DetectGPUFinds DEF Encoder, Set, Choice, StartInv
    <3> QED
      BY <3>1 DEF Works
  <2>3. CASE DetectGPU = "intel"
    BY <2>1, <2>3 DEF Encoder, Set, Choice
  <2> QED
    BY <2>1, <2>2, <2>3
<1>2. CASE env["FFMPEG_USE_GPU"] # "true"
  <2>1. Encoder = "libx264"
    BY <1>2, CardUnused DEF Encoder, Set
  <2> QED
    BY <2>1 DEF Works
<1> QED
  BY <1>1, <1>2

LEMMA DecoderWorks ==
  ASSUME Inv, stage \in Serving, env["FFMPEG_USE_GPU"] = "true", DetectGPU # "amd"
  PROVE  Works(env["FFMPEG_HWACCEL"])
<1> USE DEF Inv
<1>1. DetectGPU \in {"nvidia", "intel"} /\ env["FFMPEG_HWACCEL"] = Choice(DetectGPU).hwaccel
  BY CardUsed
<1>2. CASE DetectGPU = "nvidia"
  <2>1. env["FFMPEG_HWACCEL"] = "cuda" /\ Has({"0x10de"})
    BY <1>1, <1>2, DetectGPUFinds DEF Choice, StartInv
  <2> QED
    BY <2>1 DEF Works
<1>3. CASE DetectGPU = "intel"
  <2>1. env["FFMPEG_HWACCEL"] = "vaapi" /\ Has({"0x8086"})
    BY <1>1, <1>3, DetectGPUFinds DEF Choice, StartInv
  <2>2. Has({"0x8086", "0x1002"})
    BY <2>1 DEF Has
  <2> QED
    BY <2>1, <2>2 DEF Works
<1> QED
  BY <1>1, <1>2, <1>3

\* Of the jobs that a server accepts, on any machine and with any environment
\* that it started with, only the kinds that AcceptedRuns names fail.
THEOREM AcceptedJobsRun == Spec => []AcceptedRuns
<1>1. Inv => AcceptedRuns
  <2> SUFFICES ASSUME Inv, outcome = "failed", "PATH" \in machine.ffmpegIn,
                      ~(env["FFMPEG_USE_GPU"] = "true" /\ DetectGPU = "amd"),
                      ~FailsEarly,
                      Exporting => /\ Encoder # "h264_vaapi"
                                   /\ ~(opts.lossless /\ Encoder = "libx264")
                                   /\ ~(Encoded < Frame) /\ BufferIsRead
               PROVE  FALSE
    BY Zenon DEF AcceptedRuns, FailsEarly
  <2> USE DEF Inv
  <2>1. /\ stage = "answered" /\ job \in Jobs /\ args = RunArgs
        /\ "failed" \in Outcomes(args)
        /\ Exporting => Accepted(opts) /\ IsCut(opts, cut)
    BY DEF JobInv, StartInv, Serving
  <2>2. stage \in Serving /\ Works("copy")
    BY <2>1 DEF Serving, Works
  <2>3. ~Runs(args)
    BY <2>1 DEF Outcomes
  <2>4. Exporting => CutIsRead /\ BufferIsRead
    <3>1. SUFFICES ASSUME Exporting PROVE CutIsRead
      OBVIOUS
    <3>2. Encoded \in Nat /\ Frame \in Nat \ {0} /\ ~(Encoded < Frame)
      BY <2>1, <3>1, EncodedFits, Parameters
    <3>3. Encoded > 0
      BY <3>2
    <3> QED
      BY <2>1, <3>1, <3>3, EncodedIsRead
  <2>5. CASE Exporting
    <3>1. opts.lossless \in BOOLEAN /\ args = Flags(opts)
      BY <2>1, <2>5 DEF JobInv, Options, RunArgs, JobArgs, Exporting
    <3>2. Encoder \in Encoders /\ Works(Encoder)
      BY <2>2, <2>5, CodecTypes, EncoderWorks
    <3>3. Lead(Flags(opts), 1, {"pipe:1"}, {Encoder})
      BY <2>5, <3>1, <3>2, FlagsFit
    <3>4. Piece(args, {"pipe:1"}, {Encoder})
      BY <3>1, <3>3 DEF Lead
    <3> QED
      BY <2>3, <2>4, <3>2, <3>4, PieceRuns
  <2>6. CASE job = "mkv" /\ env["FFMPEG_USE_GPU"] = "true"
    <3>1. env["FFMPEG_HWACCEL"] \in {"cuda", "qsv", "vaapi"}
      BY <2>2, <2>6, CardUsed, ChoiceTypes
    <3>2. Works(env["FFMPEG_HWACCEL"])
      BY <2>2, <2>6, DecoderWorks
    <3>3. Piece(args, {"out"}, {"copy", env["FFMPEG_HWACCEL"]})
      BY <2>1, <2>6, <3>1, AcceleratedFits DEF RunArgs
    <3> QED
      BY <2>2, <2>3, <2>4, <3>2, <3>3, PieceRuns
  <2>7. CASE ~Exporting /\ ~(job = "mkv" /\ env["FFMPEG_USE_GPU"] = "true")
    <3>1. Piece(args, {"out"}, {"copy"})
      BY <2>1, <2>7, UploadFits DEF RunArgs, JobArgs, Lead
    <3> QED
      BY <2>2, <2>3, <2>4, <3>1, PieceRuns
  <2> QED
    BY <2>5, <2>6, <2>7
<1> QED
  BY <1>1, ExportInvariant, PTL

\* A percentage is never computed with a duration more than two milliseconds
\* from what ffmpeg encodes, whatever the trim points and the length are
\* (ffmpeg.go:118-126, 237).
THEOREM PercentagesAlwaysFit == Spec => []PercentagesFit
<1>1. Inv => PercentagesFit
  <2> SUFFICES ASSUME Inv, stage = "run", Exporting
               PROVE  /\ Encoded <= duration + 2 * Milli
                      /\ opts.start >= 0 /\ opts.end <= opts.length =>
                           duration - 2 * Milli <= Encoded
    BY DEF PercentagesFit
  <2>1. Accepted(opts) /\ IsCut(opts, cut) /\ duration = Duration(opts)
    BY DEF Inv, JobInv
  <2> QED
    BY <2>1, EncodedFits
<1> QED
  BY <1>1, ExportInvariant, PTL

\* An export whose audio keeps to its share stays within its target, up to the
\* rounding of the rate and two milliseconds, for any target, trim points and
\* length (ffmpeg.go:139-147).
THEOREM TargetAlwaysMet == Spec => []TargetIsMet
<1>1. Inv => TargetIsMet
  <2> SUFFICES ASSUME Inv, stage = "run", Exporting, opts.audio <= AudioRate,
                      bitrate > 0, VideoBits(opts) > 0
               PROVE  2 * (bitrate + opts.audio) * (Encoded - 2 * Milli)
                        <= 2 * opts.target * Eighth * Milli + duration
    BY DEF TargetIsMet
  <2>1. /\ Accepted(opts) /\ IsCut(opts, cut) /\ duration = Duration(opts)
        /\ bitrate = IF Sized(opts) THEN Bitrate(opts) ELSE -1
    BY DEF Inv, JobInv
  <2>2. bitrate = Bitrate(opts)
    BY <2>1
  <2>3. opts.audio \in Nat /\ Duration(opts) \in Nat /\ Milli \in Nat
    BY <2>1, AcceptedTypes, Parameters
  <2>4. Encoded - 2 * Milli \in Int /\ Encoded - 2 * Milli <= Duration(opts)
    BY <2>1, <2>3, EncodedFits
  <2> QED
    BY <2>1, <2>2, <2>3, <2>4, BitrateFits
<1> QED
  BY <1>1, ExportInvariant, PTL

\* Where Setup found a card ffmpeg is told to decode an upload with the decoder
\* chosen for it (ffmpeg.go:172-186).
THEOREM UploadsAlwaysUseCard == Spec => []UploadsUseCard
<1>1. Inv => UploadsUseCard
  <2> SUFFICES ASSUME Inv, job = "mkv", stage = "answered", outcome # "rejected",
                      env["FFMPEG_USE_GPU"] = "true"
               PROVE  \E i \in DOMAIN args :
                        /\ i + 2 \in DOMAIN args
                        /\ args[i] = "-hwaccel" /\ args[i + 2] = "-i"
                        /\ args[i + 1] = Choice(DetectGPU).hwaccel
    BY DEF UploadsUseCard
  <2> USE DEF Inv
  <2>1. args = Accelerated("mkv", env["FFMPEG_HWACCEL"])
    BY DEF JobInv, RunArgs, FailsEarly, Exporting
  <2>2. /\ env["FFMPEG_HWACCEL"] = Choice(DetectGPU).hwaccel
        /\ env["FFMPEG_HWACCEL"] \in {"cuda", "qsv", "vaapi"}
    BY CardUsed, ChoiceTypes DEF Serving
  <2>3. /\ 4 \in DOMAIN args /\ args[2] = "-hwaccel" /\ args[4] = "-i"
        /\ args[3] = Choice(DetectGPU).hwaccel /\ args \in Seq(Words)
    BY <2>1, <2>2, AcceleratedFits DEF Piece
  <2>4. 2 \in DOMAIN args
    BY <2>3
  <2>5. 2 + 2 = 4 /\ 2 + 1 = 3
    OBVIOUS
  <2> QED
    <3> SUFFICES /\ 2 + 2 \in DOMAIN args
                 /\ args[2] = "-hwaccel" /\ args[2 + 2] = "-i"
                 /\ args[2 + 1] = Choice(DetectGPU).hwaccel
      BY <2>4
    <3>1. 2 + 2 \in DOMAIN args /\ args[2 + 2] = "-i"
      BY <2>3, <2>5
    <3>2. args[2 + 1] = Choice(DetectGPU).hwaccel
      BY <2>3, <2>5
    <3> QED
      BY <2>3, <3>1, <3>2
<1> QED
  BY <1>1, ExportInvariant, PTL
=============================================================================
