------------------------------- MODULE Export -------------------------------
(***************************************************************************)
(* What a started server (Config) makes of one request to ffmpeg: the      *)
(* options of an export or an edit are validated                           *)
(* (pkg/validators/processing_opts.go), become ffmpeg's arguments          *)
(* (MakeFFmpegFlags), and get the hardware's (addHWAccelFlags); FileUpload *)
(* gives the arguments of its job itself.                                  *)
(*                                                                         *)
(* Times are counted in ticks, of which a millisecond has Milli: what a    *)
(* timestamp cannot say is finer than a millisecond.  Target sizes are     *)
(* eighths of a megabyte, so that a bit rate is exact before the code      *)
(* rounds it.  The video is one that ffmpeg can decode, of a length that   *)
(* ffprobe finds, and with audio that an .mp4 may hold.                    *)
(***************************************************************************)
EXTENDS Config, FiniteSets

CONSTANTS
  Milli,       \* ticks of a millisecond
  Lengths,     \* of videos, in ticks
  Frame,       \* ticks from one picture of a video to the next
  AudioRates,  \* of their audio, in kilobits per second
  Trims,       \* the trim points that requests ask for, in ticks
  Targets,     \* the target sizes, 0 for none
  Size         \* of a video, in bytes

\* Beyond some thirty years of seconds the conversion of a trim point to an
\* integer, or ffmpeg's own, may overflow.
ASSUME ExportAssumption ==
  /\ Milli \in Nat \ {0}
  /\ Lengths \subseteq Nat \ {0}
  /\ Frame \in Nat \ {0}
  /\ AudioRates \subseteq Nat
  /\ Trims \subseteq Int
  /\ \A t \in Trims : t \div (1000 * Milli) <= 1000000000
  /\ Targets \subseteq Nat
  /\ Size \in Nat \ {0}

VARIABLES
  job,       \* what was asked for
  opts,      \* ProcessingOptions, and the video's length and audio
  args,      \* ffmpeg's arguments; times, names and bit rates are left out
  cut,       \* the milliseconds in -ss, 0 without, and in -to, -1 without
  duration,  \* the result's duration, as MakeFFmpegFlags returns it, in ticks
  bitrate,   \* kilobits per second in -b:v, -1 without
  outcome

jobVars == <<job, opts, args, cut, duration, bitrate, outcome>>
vars == <<env, machine, stage, jobVars>>

Options == [start : Trims, end : Trims, target : Targets, lossless : BOOLEAN,
            length : Lengths, audio : AudioRates]

NoOptions == [start |-> 0, end |-> 0, target |-> 0, lossless |-> FALSE,
              length |-> 1, audio |-> 0]

Uncut == [from |-> 0, to |-> -1]

Init ==
  /\ ConfigInit
  /\ job = "none" /\ outcome = "none"
  /\ opts = NoOptions
  /\ args = <<>> /\ cut = Uncut /\ duration = 0 /\ bitrate = -1

-----------------------------------------------------------------------------
\* ProcessingOptsValidator, with the size of the video in bytes; the target is
\* in megabytes.
Accepts(o) ==
  /\ o.start < o.end
  /\ o.target <= 8 * Size /\ (o.target = 8 * Size => o.target = 0)

\* FileValidator, with the type the client gave the video, or none; a limit
\* that is no number is 0.
Fits(limit) == env[limit] = "enough"

FileIsValid(typed) ==
  /\ typed => Set("UPLOAD_ALLOWED_TYPES")
  /\ Fits("UPLOAD_MAX_SIZE")

Answer(result) == stage' = "answered" /\ outcome' = result

GoOn(to) == stage' = to /\ UNCHANGED outcome

\* FFmpegProcess.
AskExport(o) ==
  /\ stage = "serving"
  /\ job' = "export"
  /\ opts' = o
  /\ \E typed \in BOOLEAN :
       \/ Accepts(o) /\ FileIsValid(typed) /\ GoOn("flags")
       \/ ~(Accepts(o) /\ FileIsValid(typed)) /\ Answer("rejected")
  /\ UNCHANGED <<env, machine, args, cut, duration, bitrate>>

\* FileEdit, which downloads the video from the CDN.
AskEdit(o) ==
  /\ stage = "serving"
  /\ job' = "edit"
  /\ opts' = o
  /\ \/ ~Accepts(o) /\ Answer("rejected")
     \/ Accepts(o) /\ ~Set("CLOUDFRONT_URL") /\ Answer("failed")
     \/ Accepts(o) /\ Set("CLOUDFRONT_URL") /\ GoOn("flags")
  /\ UNCHANGED <<env, machine, args, cut, duration, bitrate>>

Exporting == job \in {"export", "edit"}

-----------------------------------------------------------------------------
(***************************************************************************)
(* FloatToTimestamp.                                                       *)
(***************************************************************************)
\* math.Round: the nearest millisecond, and either of two that are as near, as
\* the product of floats comes out.
Nearest(t) == {(2 * t + Milli - 1) \div (2 * Milli), (2 * t + Milli) \div (2 * Milli)}

\* The milliseconds of a second are cut off from a binary fraction, which may
\* lie just below their number: one may be lost.
Stamps(t) ==
  UNION {IF k % 1000 = 0 THEN {k} ELSE {k - 1, k} : k \in Nearest(t)}

-----------------------------------------------------------------------------
(***************************************************************************)
(* MakeFFmpegFlags.                                                        *)
(***************************************************************************)
Encoder == IF Set("FFMPEG_ENCODER") THEN env["FFMPEG_ENCODER"] ELSE "libx264"

When(condition, flags) == IF condition THEN flags ELSE <<>>

Trimmed(o) == o.end > 0 /\ o.start >= 0

UntilTheEnd(o) == o.end

\* From the trim points, or else from ffprobe.
Duration(o) == IF Trimmed(o) THEN o.end - o.start ELSE o.length

\* A target of one eighth of a megabyte in bits.
Eighth == 1048576

\* The audio's share: it is copied, at whatever rate it has, and taken to have
\* this one, in kilobits per second.
AudioRate == 128

\* What the target leaves for the video, in bits, and times Milli.
VideoBits(o) == o.target * Eighth * Milli - AudioRate * Duration(o)

\* %.0f takes the nearest number, and of two the even one.
Round(n, d) ==
  LET q == n \div d
      twice == 2 * (n % d)
  IN  CASE twice < d -> q
        [] twice > d -> q + 1
        [] twice = d -> q + (q % 2)

NoAudioReserved(o) == Round(o.target * Eighth * Milli, Duration(o))

\* What -b:v and -maxrate say, in kilobits per second.
Bitrate(o) == IF VideoBits(o) <= 0 THEN 5 ELSE Round(VideoBits(o), Duration(o))

\* What -bufsize says.
BufSize(o) ==
  IF VideoBits(o) <= 0 THEN 10 ELSE (2 * VideoBits(o)) \div Duration(o)

Sized(o) == o.target > 0 /\ ~o.lossless

QualityFlags(o) ==
  IF o.lossless
  THEN CASE Encoder = "libx264" ->
              <<"preset", "slow", "-crf", "n", "-pix_fmt", "yuv420p">>
         [] Encoder = "h264_nvenc" ->
              <<"-preset", "p7", "-rc", "vbr", "-cq", "n", "-b:v", "0">>
         [] Encoder \notin {"libx264", "h264_nvenc"} -> <<"-crf", "n">>
  ELSE When(Sized(o), <<"-b:v", "n", "-maxrate", "n", "-bufsize", "n">>)

PipesSwapped == <<"-f", "mp4", "pipe:2", "-progress", "pipe:1", "-nostats">>

\* The video leaves through stdout, the progress through stderr.
OutputFlags == <<"-f", "mp4", "pipe:1", "-progress", "pipe:2", "-nostats">>

Flags(o) ==
  <<"-i", "in">>
    \o When(o.start > 0, <<"-ss", "time">>)
    \o When(Trimmed(o), <<"-to", "time">>)
    \o <<"-c:v", Encoder>>
    \o QualityFlags(o)
    \o <<"-c:a", "copy", "-movflags", "how", "-loglevel", "error">>
    \o OutputFlags

\* ffprobe is not there: the job fails with the error.
NoDuration ==
  /\ Answer("failed")
  /\ UNCHANGED <<args, cut, duration, bitrate>>

FlagsMade ==
  /\ GoOn("run")
  /\ args' = Flags(opts)
  /\ \E from \in IF opts.start > 0 THEN Stamps(opts.start) ELSE {0},
        to \in IF Trimmed(opts) THEN Stamps(opts.end) ELSE {-1} :
       cut' = [from |-> from, to |-> to]
  /\ duration' = Duration(opts)
  /\ bitrate' = IF Sized(opts) THEN Bitrate(opts) ELSE -1

MakeFFmpegFlags ==
  /\ stage = "flags"
  /\ IF Trimmed(opts) \/ machine.ffprobe THEN FlagsMade ELSE NoDuration
  /\ UNCHANGED <<env, machine, job, opts>>

\* FileUpload, for a user without files, encodes an .mkv, and only repacks any
\* other video.
UploadFlags(video) ==
  <<"-y", "-i", "in">>
    \o When(video = "mp4", <<"-c:a", "copy", "-c:v", "copy">>)
    \o <<"-movflags", "how", "-f", "mp4", "out">>

AskUpload(video) ==
  /\ stage = "serving"
  /\ job' = video
  /\ \E typed \in BOOLEAN :
       LET valid == FileIsValid(typed) /\ Fits("STORAGE_MAX_USAGE")
       IN  \/ valid /\ GoOn("run") /\ args' = UploadFlags(video)
           \/ ~valid /\ Answer("rejected") /\ UNCHANGED args
  /\ UNCHANGED <<env, machine, opts, cut, duration, bitrate>>

-----------------------------------------------------------------------------
(***************************************************************************)
(* Running it.                                                             *)
(***************************************************************************)
\* Of the job: where frames are not touched there is nothing to accelerate.
UseGPU == job # "mp4"

InputsPastSecond == {i \in DOMAIN args : args[i] = "-i" /\ i > 2}

\* addHWAccelFlags looks for an -i that is not the first argument.
InputsPastFirst == {i \in DOMAIN args : args[i] = "-i" /\ i > 1}

AddHWAccelFlags ==
  IF /\ UseGPU
     /\ env["FFMPEG_USE_GPU"] = "true" /\ Set("FFMPEG_HWACCEL")
     /\ InputsPastFirst # {}
  THEN LET i == CHOOSE i \in InputsPastFirst : \A j \in InputsPastFirst : i <= j
       IN  SubSeq(args, 1, i - 1) \o <<"-hwaccel", env["FFMPEG_HWACCEL"]>>
             \o SubSeq(args, i, Len(args))
  ELSE args

\* To ffmpeg an argument without a dash that is no option's value is an output.
Plain == {"-y", "-nostats"}
TakesValue == {"-i", "-ss", "-to", "-c:v", "-c:a", "-preset", "-crf", "-pix_fmt",
               "-rc", "-cq", "-b:v", "-maxrate", "-bufsize", "-movflags",
               "-loglevel", "-f", "-progress", "-hwaccel"}

Outputs(a) ==
  {a[i] : i \in {k \in DOMAIN a : /\ a[k] \notin Plain \cup TakesValue
                                  /\ k > 1 => a[k - 1] \notin TakesValue}}

\* The cards that each hardware decoder and encoder works on.  The one of VAAPI
\* encodes frames of the card's memory, where no flag of the code leaves them.
Has(cards) == \E i \in DOMAIN machine.cards : machine.cards[i] \in cards
Works(codec) ==
  CASE codec \in {"libx264", "copy"} -> TRUE
    [] codec \in {"cuda", "h264_nvenc"} -> Has({"0x10de"})
    [] codec \in {"qsv", "h264_qsv"} -> Has({"0x8086"})
    [] codec = "vaapi" -> Has({"0x8086", "0x1002"})
    [] codec = "h264_vaapi" -> FALSE

\* Of the result, in ticks: -ss and -to follow -i, so they count in the video's
\* own time, of which ffmpeg takes what there is.
Encoded ==
  LET from == cut.from * Milli
      to == IF cut.to # -1 /\ cut.to * Milli < opts.length THEN cut.to * Milli
            ELSE opts.length
  IN  IF from < to THEN to - from ELSE 0

\* ffmpeg takes a -to only after the -ss, and a -bufsize, in bits, of 31.
CutIsRead == cut.to # -1 => cut.from < cut.to
BufferIsRead == Sized(opts) => BufSize(opts) <= 2147483

\* runFFmpegJob runs "ffmpeg", wherever Setup found it.
Runs(a) ==
  /\ "PATH" \in machine.ffmpegIn
  /\ Cardinality(Outputs(a)) = 1
  /\ \A i \in DOMAIN a : a[i] \in {"-c:v", "-hwaccel"} => Works(a[i + 1])
  /\ Exporting => CutIsRead /\ BufferIsRead

\* ffmpeg's status when a cut is so short that no picture may be in it depends
\* on its version.
Outcomes(a) ==
  CASE ~Runs(a) -> {"failed"}
    [] Runs(a) /\ Exporting /\ Encoded < Frame -> {"done", "failed"}
    [] Runs(a) /\ ~(Exporting /\ Encoded < Frame) -> {"done"}

RunFFmpegJob ==
  /\ stage = "run"
  /\ stage' = "answered"
  /\ args' = AddHWAccelFlags
  /\ outcome' \in Outcomes(args')
  /\ UNCHANGED <<env, machine, job, opts, cut, duration, bitrate>>

-----------------------------------------------------------------------------
Next ==
  \/ ConfigNext /\ UNCHANGED jobVars
  \/ \E o \in Options : AskExport(o) \/ AskEdit(o)
  \/ \E video \in {"mkv", "mp4"} : AskUpload(video)
  \/ MakeFFmpegFlags \/ RunFFmpegJob

Spec == Init /\ [][Next]_vars

-----------------------------------------------------------------------------
\* Types; and every argument list has ffmpeg write its result where the job
\* looks for it (ffmpeg.go:262 and app/file/upload.go:100), not elsewhere only.
TypeOK ==
  /\ DOMAIN env = Settings
  /\ \A s \in Settings \ Chosen : env[s] \in Values(s) \cup {"15"}
  /\ env["FFMPEG_ENCODER"] \in {"", "h264_nvenc", "h264_qsv", "h264_vaapi"}
  /\ env["FFMPEG_HWACCEL"] \in {"", "cuda", "qsv", "vaapi"}
  /\ machine \in Machines
  /\ stage \in Starting \cup Stopped \cup {"serving", "flags", "run", "answered"}
  /\ job \in {"none", "export", "edit", "mkv", "mp4"}
  /\ opts \in Options \cup {NoOptions}
  /\ args # <<>> => Outputs(args) \cap {"pipe:1", "out"} # {}
  /\ cut \in [from : Int, to : Int] /\ duration \in Nat /\ bitrate \in Int
  /\ outcome \in {"none", "rejected", "done", "failed"}

\* A server that started can run what it accepts, whatever the environment, the
\* machine and the options are, but for these cases: ffmpeg is only where
\* FFMPEG_PATH says (config.go:123), the card is AMD's (config.go:151 chooses
\* Intel's codecs for it), an edit and no CLOUDFRONT_URL (edit.go:121), an export
\* or edit without both trim points on a machine without ffprobe (ffmpeg.go:122),
\* or by Intel's card (config.go:155), a lossless one by libx264 (ffmpeg.go:133,
\* where "preset" has no dash), one so short that its timestamps leave no picture
\* (ffmpeg.go:119), or that the buffer its target asks for is beyond what ffmpeg
\* takes (ffmpeg.go:147).
AcceptedRuns ==
  outcome = "failed" =>
    \/ "PATH" \notin machine.ffmpegIn
    \/ env["FFMPEG_USE_GPU"] = "true" /\ DetectGPU = "amd"
    \/ job = "edit" /\ ~Set("CLOUDFRONT_URL")
    \/ /\ Exporting
       /\ \/ ~Trimmed(opts) /\ ~machine.ffprobe
          \/ Encoder = "h264_vaapi"
          \/ opts.lossless /\ Encoder = "libx264"
          \/ Encoded < Frame
          \/ ~BufferIsRead

\* What ffmpeg is told keeps the result within the target size (ffmpeg.go:139),
\* up to the rounding of the rate and the two milliseconds that timestamps may
\* add, if its audio takes no more than the share it is given; unless the audio
\* alone exceeds the target, and but for a rate that rounds to 0, which is no
\* limit to ffmpeg.
TargetIsMet ==
  /\ stage = "run" /\ Exporting
  /\ opts.audio <= AudioRate /\ bitrate > 0 /\ VideoBits(opts) > 0
  => 2 * (bitrate + opts.audio) * (Encoded - 2 * Milli)
       <= 2 * opts.target * Eighth * Milli + duration

\* The duration that percentages are computed with (ffmpeg.go:237) is shorter
\* than what ffmpeg encodes by two milliseconds at most, which is what a
\* percentage may exceed 100 by; and longer by no more, if the trim points lie
\* in the video.
PercentagesFit ==
  stage = "run" /\ Exporting =>
    /\ Encoded <= duration + 2 * Milli
    /\ opts.start >= 0 /\ opts.end <= opts.length =>
         duration - 2 * Milli <= Encoded

\* Where Setup found a card, ffmpeg is told to decode the video of an upload
\* with the decoder chosen for it: the flag and its value precede the input
\* (ffmpeg.go:172).  (AMD's card has none of that name: AcceptedRuns.)
UploadsUseCard ==
  /\ job = "mkv" /\ stage = "answered" /\ outcome # "rejected"
  /\ env["FFMPEG_USE_GPU"] = "true"
  => \E i \in DOMAIN args :
       /\ i + 2 \in DOMAIN args
       /\ args[i] = "-hwaccel" /\ args[i + 2] = "-i"
       /\ args[i + 1] = Choice(DetectGPU).hwaccel
=============================================================================
