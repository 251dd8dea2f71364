--------------------------------- MODULE Config ---------------------------------
(***************************************************************************)
(* The configuration (src/src/config.rs): what hypr-rdp runs with, from    *)
(* the command line, the configuration file, a password file and the       *)
(* features it was built with.  A source is a function of the options it   *)
(* sets.  Texts are abstract: a resolution is a pair of numbers or         *)
(* Malformed, a password a sequence of characters, an address an           *)
(* interface.  A result is [ok, value].                                    *)
(***************************************************************************)
EXTENDS Integers, Sequences, FiniteSets, SequencesExt

Accepted(value) == [ok |-> TRUE, value |-> value]
Refused == [ok |-> FALSE, value |-> <<>>]
Malformed == <<>>

Given(source, option) == option \in DOMAIN source
(* args.x.or(config.x).unwrap_or(default)                                  *)
Option(cli, file, option, default) ==
  IF Given(cli, option) THEN cli[option] ELSE IF Given(file, option) THEN file[option] ELSE default

-----------------------------------------------------------------------------
(* ConfigFile::load.  What is found at the path: "contents", "missing",    *)
(* "unreadable", "malformed" or, without HOME, "nowhere".                  *)
LoadFile(cli, found, contents) ==
  CASE found = "contents" -> Accepted(contents)
    [] found = "nowhere" \/ (found = "missing" /\ ~Given(cli, "config")) -> Accepted(<<>>)
    [] OTHER -> Refused

-----------------------------------------------------------------------------
(* Credentials.                                                            *)

WithoutLineEnd(content) ==
  IF content = <<>> \/ Last(content) # "lf" THEN content
  ELSE IF Len(content) > 1 /\ content[Len(content) - 1] = "cr" THEN SubSeq(content, 1, Len(content) - 2)
  ELSE Front(content)

(* Mutant: an empty file is an empty password.                             *)
ReadAnyPassword(content) ==
  IF "invalid" \in Range(content) THEN Refused ELSE Accepted(WithoutLineEnd(content))
(* read_password_file *)
ReadPasswordFile(content) ==
  IF WithoutLineEnd(content) = <<>> \/ "invalid" \in Range(content) THEN Refused
  ELSE Accepted(WithoutLineEnd(content))

(* resolve_password.  The files' contents are those of the source.         *)
ResolvePassword(cli, file) ==
  IF Given(file, "password") /\ Given(file, "password_file") THEN Refused
  ELSE IF Given(cli, "password_file") THEN ReadPasswordFile(cli["password_file"])
  ELSE IF Given(cli, "password") THEN Accepted(cli["password"])
  ELSE IF Given(file, "password") THEN Accepted(file["password"])
  ELSE IF Given(file, "password_file") THEN ReadPasswordFile(file["password_file"])
  ELSE Accepted(<<>>)

NoCredentials == [username |-> "", password |-> <<>>]
CredentialOptions == {"username", "domain", "password", "password_file"}

(* resolve_authentication and ConfigCredentials::from_parts                *)
ResolveAuthentication(cli, file, badServices) ==
  LET mode == Option(cli, file, "auth_mode", "configured")
      served == Given(cli, "pam_service") \/ Given(file, "pam_service")
      service == Option(cli, file, "pam_service", "hypr-rdp")
      password == ResolvePassword(cli, file)
  IN CASE mode = "configured" ->
            IF served \/ ~password.ok THEN Refused
            ELSE Accepted([mode |-> mode, service |-> "",
                           credentials |-> [username |-> Option(cli, file, "username", ""),
                                            password |-> password.value]])
       [] mode = "pam" ->
            IF (DOMAIN cli \cup DOMAIN file) \cap CredentialOptions # {} \/ service \in badServices THEN Refused
            ELSE Accepted([mode |-> mode, service |-> service, credentials |-> NoCredentials])
       [] OTHER -> Refused

(* Mutant: half a credential is as good as a whole one.                    *)
WarnOfNone(authentication, bind) ==
  IF authentication.mode = "pam" \/ authentication.credentials # NoCredentials THEN {}
  ELSE {"off"} \cup (IF bind = "loopback" THEN {} ELSE {"reachable"})
(* startup_warnings *)
StartupWarnings(authentication, bind) ==
  LET c == authentication.credentials
  IN IF authentication.mode = "pam" THEN {}
     ELSE (IF c = NoCredentials THEN {"off"}
           ELSE IF c.username = "" \/ c.password = <<>> THEN {"half"} ELSE {})
          \cup (IF c.password = <<>> /\ bind # "loopback" THEN {"reachable"} ELSE {})

-----------------------------------------------------------------------------
(* File transfer: the directions of a mode.                                *)
FileTransferModes == {"off", "to-client", "to-server", "both"}
Directions(mode) ==
  {d \in {"to-client", "to-server"} : mode = d \/ mode = "both"}

(* Mutant: the whole feature falls back to what is built.                  *)
OnlyBuilt(mode, clientToServer) ==
  IF clientToServer \/ mode = "off" THEN mode ELSE "to-client"
(* for_build *)
ForBuild(mode, clientToServer) ==
  IF clientToServer THEN mode
  ELSE IF mode = "to-server" THEN "off" ELSE IF mode = "both" THEN "to-client" ELSE mode

(* resolve_file_transfer_mode, with default_file_transfer_mode_name.       *)
FileTransfer(cli, file, clientToServer) ==
  LET mode == Option(cli, file, "file_transfer_mode", IF clientToServer THEN "both" ELSE "to-client")
  IN IF mode \in FileTransferModes THEN Accepted(ForBuild(mode, clientToServer)) ELSE Refused

-----------------------------------------------------------------------------
(* Numbers.                                                                *)
MaxU16 == 65535
MaxFileCount == 100000   \* ironrdp_cliprdr::pdu::MAX_FILE_COUNT

(* Mutant: the size is rounded after it was checked.                       *)
ParseBeforeRounding(resolution) ==
  IF resolution = Malformed \/ \E i \in {1, 2} : resolution[i] \notin 1..MaxU16 THEN Refused
  ELSE Accepted([i \in {1, 2} |-> resolution[i] - (resolution[i] % 2)])
(* parse_resolution *)
ParseResolution(resolution) ==
  IF resolution = Malformed \/ \E i \in {1, 2} : resolution[i] \notin 2..MaxU16 THEN Refused
  ELSE Accepted([i \in {1, 2} |-> resolution[i] - (resolution[i] % 2)])

Alternatives ==
  [rate_control |-> {"vbr", "cqp"}, capture_mode |-> {"wlr", "ext"}, audio_mode |-> {"redirect", "mirror", "off"},
   egfx_codec |-> {"avc420", "avc444", "auto", "clearcodec"}, h264_backend |-> {"auto", "software", "vaapi"},
   keyboard_layout_policy |-> {"client", "compositor"}]
DefaultChoice ==
  [rate_control |-> "vbr", capture_mode |-> "wlr", audio_mode |-> "redirect", egfx_codec |-> "avc420",
   h264_backend |-> "auto", keyboard_layout_policy |-> "client"]

(* RuntimeConfig::load *)
Load(cli, found, contents, clientToServer, badServices) ==
  LET loaded == LoadFile(cli, found, contents)
      file == loaded.value
      Of(option, default) == Option(cli, file, option, default)
      authentication == ResolveAuthentication(cli, file, badServices)
      transfer == FileTransfer(cli, file, clientToServer)
      resolution == ParseResolution(Of("resolution", <<1920, 1080>>))
      config == [bind |-> Of("bind", "loopback"), authentication |-> authentication.value,
                 file_transfer_mode |-> transfer.value, resolution |-> resolution.value,
                 resolution_fixed |-> Given(cli, "resolution") \/ Given(file, "resolution"),
                 scale |-> Of("scale", 1), quality |-> Of("quality", 23), fps |-> Of("fps", 30),
                 max_frames_in_flight |-> Of("max_frames_in_flight", 3),
                 max_chunk |-> Of("file_transfer_max_chunk_bytes", 8388608),
                 max_entries |-> Of("file_transfer_max_entries", 10000),
                 choices |-> [c \in DOMAIN Alternatives |-> Of(c, DefaultChoice[c])]]
  IN IF \/ Given(cli, "password") /\ Given(cli, "password_file")
        \/ ~loaded.ok \/ ~authentication.ok \/ config.bind = "malformed" \/ ~transfer.ok \/ config.scale <= 0
        \/ \E c \in DOMAIN Alternatives : config.choices[c] \notin Alternatives[c]
        \/ ~resolution.ok \/ config.quality > 51 \/ config.fps = 0 \/ config.max_frames_in_flight = 0
        \/ config.max_chunk = 0 \/ config.max_entries \notin 1..MaxFileCount
     THEN Refused ELSE Accepted(config)
===============================================================================
