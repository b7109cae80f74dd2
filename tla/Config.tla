------------------------------- MODULE Config -------------------------------
(***************************************************************************)
(* The start of the server: config.Setup checks the environment, looks for *)
(* ffmpeg and a graphics card, and corrects some settings, which NewRouter *)
(* and the handlers read afterwards.                                       *)
(*                                                                         *)
(* Every value is a string.  Of text only whether it is there matters, of  *)
(* a number whether Atoi and the comparison with 0 accept it, and of a     *)
(* limit whether the video that is sent stays below it.  The limits, the   *)
(* accepted types and the CDN's URL are read by handlers alone: Setup does *)
(* not look at them.                                                       *)
(***************************************************************************)
EXTENDS Integers, Sequences

CONSTANTS
  Environments,  \* with what .env adds: each setting's text, "" for none
  Machines       \* what a server may start on

VARIABLES
  env,      \* the environment
  machine,  \* where ffmpeg is found, ffprobe if in $PATH, cards in /dev/dri
  stage     \* how far the start is, and then what the server does

\* Settings of which only presence is checked, and by which section.
Host == {"HOST_PORT", "HOST_DOMAIN", "HOST_CORS"}
Certificates == {"HOST_SSL_CERTIFICATE_PATH", "HOST_SSL_CERTIFICATE_KEY_PATH"}
Mail == {"MAIL_SENDER_ADDRESS", "MAIL_HOST", "MAIL_PORT", "MAIL_PASSWORD"}
Bucket == {"ACCESS_KEY_ID", "SECRET_ACCESS_KEY", "REGION", "BUCKET"}
Texts == Host \cup Certificates \cup Mail \cup Bucket
           \cup {"SECURITY_JWT_SECRET", "TURNSTILE_SECRET_TOKEN", "FFMPEG_PATH",
                 "UPLOAD_ALLOWED_TYPES", "CLOUDFRONT_URL"}
Switches == {"HOST_SSL_ENABLED", "FFMPEG_USE_GPU", "MAIL_CONFIRMATIONS_ENABLE",
             "TURNSTILE_ENABLE"}
Numbers == {"FFMPEG_MAX_JOBS", "FFMPEG_WORKERS", "SECURITY_RATE_LIMIT"}
Limits == {"UPLOAD_MAX_SIZE", "STORAGE_MAX_USAGE"}
Chosen == {"FFMPEG_ENCODER", "FFMPEG_HWACCEL"}
Settings == Texts \cup Switches \cup Numbers \cup Limits \cup Chosen
              \cup {"STORAGE_TYPE"}

Values(s) ==
  CASE s \in Texts -> {"", "text"}
    [] s \in Switches -> {"", "true", "false"}
    [] s \in Numbers -> {"", "0", "3"}
    [] s \in Limits -> {"", "less", "enough"}
    [] s \in Chosen -> {""}
    [] s = "STORAGE_TYPE" -> {"", "s3", "local"}

\* Where ffmpeg is found, and the PCI vendors of the cards, in the order of the
\* directory.
ASSUME ConfigAssumption ==
  /\ \A e \in Environments :
       e \in [Settings -> STRING] /\ \A s \in Settings : e[s] \in Values(s)
  /\ Machines \subseteq
       [ffmpegIn : SUBSET {"PATH", "FFMPEG_PATH"}, ffprobe : BOOLEAN,
        cards : Seq(STRING)]

ConfigInit ==
  /\ env \in Environments
  /\ machine \in Machines
  /\ stage = "host"

-----------------------------------------------------------------------------
Set(s) == env[s] # ""
AllSet(S) == \A s \in S : Set(s)
Positive(s) == env[s] \in {"3", "15"}

\* One section of Setup: with its condition the start goes on, and without it
\* main panics.
Section(from, condition, to) ==
  /\ stage = from
  /\ stage' = IF condition THEN to ELSE "panicked"

CheckHost ==
  /\ Section("host",
       /\ AllSet(Host)
       /\ env["HOST_SSL_ENABLED"] = "true" => AllSet(Certificates),
       "ffmpeg")
  /\ UNCHANGED <<env, machine>>

CheckFfmpeg ==
  /\ Section("ffmpeg",
       \/ "PATH" \in machine.ffmpegIn
       \/ Set("FFMPEG_PATH") /\ "FFMPEG_PATH" \in machine.ffmpegIn,
       "gpu")
  /\ UNCHANGED <<env, machine>>

\* DetectGPU: the first card whose vendor it knows; "" with an error if a
\* vendor cannot be read, and without one if there is no such card.
Vendor ==
  [card \in {"0x10de", "0x8086", "0x1002"} |->
     CASE card = "0x10de" -> "nvidia" [] card = "0x8086" -> "intel"
       [] card = "0x1002" -> "amd"]

Known == {i \in DOMAIN machine.cards :
            machine.cards[i] \in DOMAIN Vendor \cup {"unreadable"}}

DetectGPU ==
  IF Known = {} THEN ""
  ELSE LET first == machine.cards[CHOOSE i \in Known : \A j \in Known : i <= j]
       IN  IF first \in DOMAIN Vendor THEN Vendor[first] ELSE ""

EncodersSwapped(gpu) ==
  CASE gpu = "nvidia" -> [hwaccel |-> "qsv", encoder |-> "h264_qsv"]
    [] gpu = "amd" -> [hwaccel |-> "cuda", encoder |-> "h264_nvenc"]
    [] gpu = "intel" -> [hwaccel |-> "vaapi", encoder |-> "h264_vaapi"]

\* What Setup chooses for the vendors that it knows.
Choice(gpu) ==
  CASE gpu = "nvidia" -> [hwaccel |-> "cuda", encoder |-> "h264_nvenc"]
    [] gpu = "amd" -> [hwaccel |-> "qsv", encoder |-> "h264_qsv"]
    [] gpu = "intel" -> [hwaccel |-> "vaapi", encoder |-> "h264_vaapi"]

\* Setenv, by which the handlers learn of it.
CheckGPU ==
  /\ Section("gpu", TRUE, "numbers")
  /\ env' =
       CASE env["FFMPEG_USE_GPU"] # "true" -> env
         [] env["FFMPEG_USE_GPU"] = "true" /\ DetectGPU = "" ->
              [env EXCEPT !["FFMPEG_USE_GPU"] = "false"]
         [] env["FFMPEG_USE_GPU"] = "true" /\ DetectGPU # "" ->
              [env EXCEPT !["FFMPEG_HWACCEL"] = Choice(DetectGPU).hwaccel,
                          !["FFMPEG_ENCODER"] = Choice(DetectGPU).encoder]
  /\ UNCHANGED machine

\* A rate limit that is no positive number becomes 15.
RateCorrected ==
  IF Positive("SECURITY_RATE_LIMIT") THEN env
  ELSE [env EXCEPT !["SECURITY_RATE_LIMIT"] = "15"]

\* The queue's numbers must be positive, and there must be a secret (without
\* one Setup shows a new one and exits).
CheckNumbers ==
  /\ Section("numbers",
       /\ Positive("FFMPEG_MAX_JOBS") /\ Positive("FFMPEG_WORKERS")
       /\ Set("SECURITY_JWT_SECRET"),
       "services")
  /\ env' = IF stage' = "panicked" THEN env ELSE RateCorrected
  /\ UNCHANGED machine

CheckServices ==
  /\ Section("services",
       /\ env["MAIL_CONFIRMATIONS_ENABLE"] = "true" => AllSet(Mail)
       /\ env["STORAGE_TYPE"] = "s3" /\ AllSet(Bucket)
       /\ env["TURNSTILE_ENABLE"] # "false" => Set("TURNSTILE_SECRET_TOKEN"),
       "database")
  /\ UNCHANGED <<env, machine>>

\* NewRouter opens the database and asks S3 for the bucket; both may fail.
OpenDatabase ==
  /\ \E opened \in BOOLEAN : Section("database", opened, "bucket")
  /\ UNCHANGED <<env, machine>>

ReachBucket ==
  /\ \E reached \in BOOLEAN : Section("bucket", reached, "serving")
  /\ UNCHANGED <<env, machine>>

ConfigNext ==
  \/ CheckHost \/ CheckFfmpeg \/ CheckGPU \/ CheckNumbers \/ CheckServices
  \/ OpenDatabase \/ ReachBucket

-----------------------------------------------------------------------------
Starting == {"host", "ffmpeg", "gpu", "numbers", "services", "database",
             "bucket"}
Stopped == {"panicked"}
=============================================================================
