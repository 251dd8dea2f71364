------------------------------ MODULE MCStandalone ------------------------------
(***************************************************************************)
(* The parts of hypr-rdp that share no state with the rest: the files the  *)
(* desktop offers (Outbound), the selection it is given (SelectionSource), *)
(* the claims on mount points (MountClaims), the creation of an output     *)
(* (HyprlandIpc), and the algorithms, which are functions of their input.  *)
(* A behaviour either runs one of the first, the others resting in their   *)
(* initial states, or holds one input of an algorithm.                     *)
(***************************************************************************)
EXTENDS Integers, Sequences, FiniteSets, Outbound, SelectionSource, MountClaims, HyprlandIpc,
        RemoteTree, FileWalk, ClipboardFormats, PresentationSize, Config, InputDevices

CONSTANT MaxDim       \* bound on a requested or captured dimension

VARIABLES part, input

partVars == <<part, input>>
NoInput == <<>>

Offered(kinds, flags) ==
  [copies |-> kinds, stream |-> "stream" \in flags, locking |-> "locking" \in flags,
   remote |-> "remote" \in flags, requests |-> "requests" \in flags, stops |-> "stops" \in flags]

NothingOffered == Offered(<<>>, {})

(* A selection of files replaced by another while the client locks and     *)
(* reads, by text, by a client's copy or by nothing; a list of links, an   *)
(* image; and the end of the session meanwhile.                            *)
MCOffers ==
  {NothingOffered,
   Offered(<<{"files"}, {"files"}>>, {"stream", "locking"}),
   Offered(<<{"files"}, {"files"}>>, {"stream", "stops"}),
   Offered(<<{"text", "files"}, {"text"}>>, {"stream", "remote"}),
   Offered(<<{"text", "image"}, {"image", "links"}>>, {"requests"}),
   Offered(<<{"files"}, {}>>, {"stream", "locking", "requests"}),
   Offered(<<{"text", "files"}, {"files"}>>, {"stops"})}

(* Lines of the event stream about another monitor and about neither.      *)
MCOtherLines == {<<"monitoradded", "sep", "DP-1", "nl">>, <<"text", "nl">>}

-----------------------------------------------------------------------------
(* Inputs of the algorithms.                                               *)

(* File lists: names that collide, parents that come late, never or as     *)
(* files, and names that lead out of the mount.                            *)
MCPaths ==
  {<<>>, <<<<"a">>>>, <<<<"b">>>>, <<<<"a">>, <<"b">>>>, <<<<"a">>, <<"b">>, <<"a">>>>,
   <<<<"..">>, <<"a">>>>, <<<<"b">>, <<"a">>, <<"a">>, <<"a">>>>}
MCDescriptors ==
  {[path |-> path, dir |-> dir, readOnly |-> FALSE] : path \in MCPaths, dir \in BOOLEAN}
  \cup {[path |-> <<<<"a">>>>, dir |-> TRUE, readOnly |-> TRUE]}
TreeInputs ==
  [files : {<<d, e>> : d, e \in MCDescriptors}
           \cup {<<d, e, f>> : d, e \in MCDescriptors, f \in {g \in MCDescriptors : Len(g.path) = 2}},
   max : {1, 3, 9}]

(* Filesystems: two directories, which may contain each other, and two     *)
(* other entries whose names differ in case or look like a numbered one.   *)
MCKey(stem) == IF stem = "A" THEN "a" ELSE stem
MCNameLength(name) == Len(name)
Entry(name, inode, rank) == [name |-> name, inode |-> inode, rank |-> rank]
WalkInputs ==
  LET d1 == Entry(<<"d">>, 1, 3)
      d2 == Entry(<<"e">>, 2, 4)
      f3 == Entry(<<"a">>, 3, 2)
      f4(name) == Entry(name, 4, 1)
      Dir(children) == [kind |-> "directory", children |-> children]
      Leaf(kind) == [kind |-> kind, children |-> <<>>]
  IN UNION {[fs : {<<Dir(c1), Dir(c2), Leaf(k3), Leaf(k4)>> :
                     c1 \in {<<>>, <<d2>>, <<f3, d2>>, <<f4(n), f3>>, <<f3, d2, f4(n)>>},
                     c2 \in {<<>>, <<d1>>, <<f3>>, <<f3, f4(n), d1>>},
                     k3 \in {"file", "huge", "other"}, k4 \in {"file", "gone"}},
             selection : {<<d1>>, <<d2, d1>>, <<f3, f4(n)>>, <<f3, f4(n), Entry(<<"a">>, 4, 5)>>},
             max : {1, 3, 9}, huge : BOOLEAN] : n \in {<<"A">>, <<"a", 2>>}}

(* Reads of a file that may have been replaced, in chunks.                 *)
ReadInputs ==
  [data : {<<>>, <<1>>, <<1, 2, 3>>, <<1, 2, 3, 4>>}, chunk : 1..3, maxChunk : {2, 3},
   opened : {7, 8}, kind : {"file", "other"}]

TextInputs == [text : UNION {[1..n -> {"x", "cr", "lf", "high"}] : n \in 0..4}, limit : {3, 6}]

AllMimes == TextMimes \cup FileMimes \cup {Latin1, "image/png"}
FormatInputs ==
  [mimes : {<<>>} \cup {<<a>> : a \in AllMimes} \cup {<<a, b>> : a, b \in AllMimes},
   formats : SUBSET {"CF_UNICODETEXT", "CF_DIB", "CF_DIBV5", "CF_HDROP"}]

(* Bitmaps of up to two pixels, with and without masks.                    *)
DibInputs ==
  {<<size, 1, 1, bits, compression, 0, 0, 0, 0, 0>> \o rest :
     size \in {40, 124}, bits \in {"24bpp", "32bpp"}, compression \in {0, 3},
     rest \in {<<>>, <<71>>, <<91, 92>>, <<91, 92, 93>>, <<91, 92, 93, 71>>, <<91, 92, 93, 71, 72>>}}

Dims == (0..MaxDim) \X (0..MaxDim)
SizeInputs == [request : Dims, source : Dims, under : BOOLEAN]

(* Secrets and modes, from the command line and the configuration file.    *)
Some(option, values) == {<<>>} \cup {option :> v : v \in values}
Sources(a, b, c, d) == {w @@ x @@ y @@ z : w \in a, x \in b, y \in c, z \in d}
Secret(contents) ==
  {<<>>, "password" :> <<"x">>, "password" :> <<>>} \cup {"password_file" :> c : c \in contents}
MCBadServices == {"bad"}
AuthInputs ==
  [cli : Sources(Some("username", {"u"}), Secret({<<"y", "cr", "lf">>, <<"lf">>, <<"y", "lf", "lf">>}),
                 Some("auth_mode", {"configured", "pam", "other"}), Some("pam_service", {"s"})),
   file : Sources(Some("username", {"v"}),
                  Secret({<<"z">>, <<"cr", "lf">>, <<"invalid">>})
                    \cup {("password" :> <<"z">>) @@ ("password_file" :> <<"z">>)},
                  Some("auth_mode", {"pam"}), Some("pam_service", {"bad"})),
   bind : {"loopback", "any"}]

TransferInputs ==
  [cli : Some("file_transfer_mode", FileTransferModes \cup {"other"}),
   file : Some("file_transfer_mode", FileTransferModes), built : BOOLEAN]

OneOption ==
  UNION {Some("resolution", {<<1, 2>>, <<3, 5>>, <<65535, 65534>>, <<65536, 2>>, Malformed}),
         Some("quality", {0, 51, 52}), Some("fps", {0, 1}), Some("max_frames_in_flight", {0, 1}),
         Some("file_transfer_max_chunk_bytes", {0, 1}), Some("scale", {0, 2}),
         Some("file_transfer_max_entries", {0, MaxFileCount, MaxFileCount + 1}),
         Some("egfx_codec", {"avc444", "other"}), Some("bind", {"any", "malformed"}),
         Some("config", {"named"})}
OptionInputs ==
  [cli : OneOption, file : OneOption, built : BOOLEAN,
   found : {"contents", "missing", "unreadable", "malformed", "nowhere"}]

(* Runtime directories: two processes, of which the second may be dead, on *)
(* one display or two, and an entry that is not an instance.               *)
InstanceEntry(signature, pid, display, named) ==
  [signature |-> signature, named |-> named, dir |-> TRUE, pid |-> pid, display |-> display, extra |-> FALSE]
InstanceInputs ==
  [explicit : {"", "s9"}, display : {"", "w0", "w1"},
   directory : SUBSET {InstanceEntry("s1", 1, "w0", TRUE), InstanceEntry("s2", 2, "w0", TRUE),
                       InstanceEntry("s3", 3, "w1", TRUE), InstanceEntry("t", 1, "w0", FALSE),
                       [InstanceEntry("s4", 2, "w0", TRUE) EXCEPT !.extra = TRUE]},
   live : SUBSET {1, 2, 3}]

LuaChars == {"bs", "quote", "nl", "tab", "space", "n", "control", "digit"}
Texts(n) == UNION {[1..k -> LuaChars] : k \in 0..n}
RuleInputs ==
  {<<name, <<"digit">>, <<"digit">>, scale>> : name \in Texts(3), scale \in Texts(1)}
  \cup {<<<<"n">>, <<"digit">>, <<"digit">>, scale>> : scale \in Texts(3)}
  \cup {<<<<"n">>, s, <<"digit">>, t, u>> : s, t, u \in Texts(1)}
  \cup {<<<<"n">>, t>> : t \in Texts(1)}

LockInputs ==
  [masks : {[k \in LockKeys |-> IF k \in has THEN {k} ELSE {}] : has \in SUBSET LockKeys},
   locked : SUBSET (LockKeys \cup {"shift"}), flags : SUBSET LockKeys, direct : BOOLEAN]

Wheel(x, y) == [kind |-> "Scroll", x |-> x, y |-> y]
MouseEvents ==
  {Wheel(x, y) : x \in {0, -50}, y \in {0, 70, -70, 120, -130}}
  \cup {[kind |-> "Move", x |-> 9, y |-> 0],
         [kind |-> "Button", x |-> 0, y |-> 3, button |-> "Left", pressed |-> TRUE],
         [kind |-> "ButtonRel", button |-> "Other", pressed |-> FALSE], [kind |-> "RelMove"], [kind |-> "Other"]}
MouseInputs ==
  [events : UNION {[1..n -> MouseEvents] : n \in 0..3},
   layout : {{}, {[source |-> <<4, 2>>, presentation |-> <<4, 4>>, visible |-> <<0, 1, 4, 2>>]}}]

Monitor(name, x, y, w) == [name |-> name, x |-> x, y |-> y, w |-> w, h |-> 2]
LayoutInputs ==
  {<<>>} \cup {<<Monitor("a", x, 0, w), Monitor("b", u, v, 3)>> : x, u, v \in -3..3, w \in 0..2}
  \cup {<<Monitor(n, 1, 1, 2)>> : n \in {"a", "b"}}

KeymapNamed(layout) == [NoNames EXCEPT !.layout = layout]
KeymapInputs ==
  [world : [globals : BOOLEAN, outputs : {{}, {"out"}}, keyboard : BOOLEAN,
            file : [advertised : 0..2, length : 0..2], names : {KeymapNamed("us"), KeymapNamed("unknown")},
            hyprland : {{}, {NoNames}, {KeymapNamed("de")}, {KeymapNamed("unknown")}}],
   layout : {1031, 66565, 1029, 7}, policy : {"client", "compositor"}]
MCCompiles == {NoNames, KeymapNamed("us"), KeymapNamed("de"), KeymapNamed("cz"), [KeymapNamed("cz") EXCEPT !.variant = "qwerty"]}

-----------------------------------------------------------------------------
StandaloneInit ==
  /\ OutboundInit /\ SourceInit /\ ClaimsInit /\ IpcInit
  /\ \/ part = "outbound" /\ input = NoInput
     \/ /\ offers = NothingOffered
        /\ \/ part \in {"source", "claims", "output"} /\ input = NoInput
           \/ part = "tree" /\ input \in TreeInputs
           \/ part = "walk" /\ input \in WalkInputs
           \/ part = "read" /\ input \in ReadInputs
           \/ part = "text" /\ input \in TextInputs
           \/ part = "formats" /\ input \in FormatInputs
           \/ part = "dib" /\ input \in DibInputs
           \/ part = "size" /\ input \in SizeInputs
           \/ part = "auth" /\ input \in AuthInputs
           \/ part = "transfer" /\ input \in TransferInputs
           \/ part = "options" /\ input \in OptionInputs
           \/ part = "instance" /\ input \in InstanceInputs
           \/ part = "rule" /\ input \in RuleInputs
           \/ part = "keys" /\ input \in (0..127) \X BOOLEAN
           \/ part = "locks" /\ input \in LockInputs
           \/ part = "mouse" /\ input \in MouseInputs
           \/ part = "layout" /\ input \in LayoutInputs
           \/ part = "keymap" /\ input \in KeymapInputs

StandaloneNext ==
  \/ part = "outbound" /\ OutboundNext /\ UNCHANGED <<partVars, sourceVars, claimVars, ipcVars>>
  \/ part = "source" /\ SourceNext /\ UNCHANGED <<partVars, outboundVars, claimVars, ipcVars>>
  \/ part = "claims" /\ ClaimsNext /\ UNCHANGED <<partVars, outboundVars, sourceVars, ipcVars>>
  \/ part = "output" /\ IpcNext /\ UNCHANGED <<partVars, outboundVars, sourceVars, claimVars>>

(* The desktop's files: the threads run and a read of a file returns; the  *)
(* client and the users need not do anything.                              *)
StandaloneSpec ==
  /\ StandaloneInit /\ [][StandaloneNext]_<<partVars, outboundVars, sourceVars, claimVars, ipcVars>>
  /\ WF_outboundVars(part = "outbound" /\ WatcherStep)
  /\ WF_outboundVars(part = "outbound" /\ WorkerStep)
  /\ WF_outboundVars(part = "outbound" /\ AnswerRead)
  /\ WF_outboundVars(part = "outbound" /\ TaskStep)

-----------------------------------------------------------------------------
(* The client's file list.                                                 *)

BuiltTree == Build(input.files, input.max, FirstInode)

(* The mount shows what the list describes, wherever a name is taken twice *)
(* and in whichever order parents and children come; a limit only leaves   *)
(* entries out, and every name resolves to the entry it is listed with.    *)
TreeFaithful ==
  part = "tree" =>
    LET tree == BuiltTree
        expected == Described(input.files)
    IN /\ Entries(tree) <= input.max
       /\ Cardinality(TreeEntries(tree)) = Entries(tree)
       /\ \A e \in TreeEntries(tree) : \E d \in expected : d.path = e.path
       /\ Cardinality(expected) <= input.max /\ Len(input.files) <= input.max => TreeEntries(tree) = expected
       /\ \A i \in Inodes(tree) \ {RootInode} :
            LookUp(tree, NodeOf(tree, i).parent, NodeOf(tree, i).name) = i

RECURSIVE Pages(_, _, _, _)
Pages(tree, inode, offset, room) ==
  LET page == ReadDir(tree, inode, offset, room)
  IN IF page = <<>> THEN <<>> ELSE page \o Pages(tree, inode, offset + Len(page), room)

(* A directory read in pages of any size lists every child once; "tools    *)
(* that walk with fts read [st_nlink] as the subdirectory count"           *)
(* (tree.rs:260): it is the number of listed names of a directory.         *)
ListingsAgree ==
  part = "tree" =>
    LET tree == BuiltTree
        folders == {i \in Inodes(tree) : IsDirectory(tree, i)}
        listed(d) == Pages(tree, d, 0, 2)
        links(i) == Cardinality({<<d, n>> \in folders \X (1..(input.max + 2)) :
                                   n <= Len(listed(d)) /\ listed(d)[n].inode = i})
    IN /\ \A i \in Inodes(tree) \ {RootInode} :
            LinkCount(tree, i) = links(i) + (IF i \in folders THEN 0 ELSE 1 - links(i))
       /\ \A i \in Inodes(tree) \ {RootInode} :
            Cardinality({d \in folders : \E n \in 3..Len(listed(d)) : listed(d)[n].inode = i}) = 1
       /\ \A i \in Inodes(tree) : Open(tree, i) = "opened" <=> i \notin folders

(* "A handle held open across a second client copy fails instead of        *)
(* reading another file's bytes" (tree.rs:106): no inode of the next list  *)
(* is one of this list.                                                    *)
InodesFresh ==
  part = "tree" =>
    LET tree == BuiltTree
        next == Build(input.files, input.max, NextBase(tree))
    IN /\ Inodes(tree) \cap Inodes(next) = {RootInode}
       /\ \A i \in Inodes(tree) \ {RootInode} : ~HasNode(next, i)

-----------------------------------------------------------------------------
(* The desktop's files.                                                    *)

Frozen == Walk(input.fs, input.selection, input.max, input.huge)

(* A case-insensitive client can store what it is given: names differ in   *)
(* more than their case, and a directory comes before what is in it        *)
(* ("every entry arrives after the directory holding it", files.rs:688).   *)
WalkNamesDistinct ==
  part = "walk" =>
    LET files == Frozen.files
        Parent(f) == Front(f.path)
        Name(f) == KeyOf(Last(f.path))
    IN \A i \in DOMAIN files :
         /\ \A j \in 1..(i - 1) :
              Parent(files[i]) = Parent(files[j]) => Name(files[i]) # Name(files[j])
         /\ Parent(files[i]) # <<>> =>
              \E j \in 1..(i - 1) : files[j].dir /\ files[j].path = Parent(files[i])

(* A list that lost an entry to the limit says so, and the limit holds     *)
(* over the entries looked at, skipped ones included.                      *)
WalkTruncationTold ==
  part = "walk" =>
    LET walk == Frozen
    IN /\ Len(walk.files) <= input.max
       /\ ~walk.truncated => walk.files = Walk(input.fs, input.selection, 99, input.huge).files

(* What the walk freezes survives the way through the tree of the other    *)
(* side: nothing is dropped, renamed or moved.                             *)
RoundTrip ==
  part = "walk" =>
    LET files == Frozen.files
        list == [i \in DOMAIN files |->
                   [path |-> files[i].path, dir |-> files[i].dir, readOnly |-> FALSE]]
    IN TreeEntries(Build(list, 99, FirstInode)) =
         {[path |-> list[i].path, kind |-> IF list[i].dir THEN Directory ELSE i] : i \in DOMAIN list}

(* A file read range by range arrives whole or not at all, and never is    *)
(* another file that took its path.                                        *)
ReadsReassemble ==
  part = "read" =>
    LET file == [inode |-> input.opened, kind |-> input.kind, data |-> input.data]
        Ask(flags, position, length) ==
          ReadFrozenFile(7, file, [flags |-> flags, position |-> position, length |-> length], input.maxChunk)
        size == Ask({"size"}, 0, 8)
        parts == [n \in 1..4 |-> Ask({"range"}, (n - 1) * input.chunk, input.chunk)]
    IN IF input.opened = 7 /\ input.kind = "file"
       THEN /\ size.ok /\ size.bytes = <<Len(input.data)>>
            /\ IF input.chunk <= input.maxChunk
               THEN FoldLeft(LAMBDA all, p : all \o p.bytes, <<>>, parts) = input.data
               ELSE \A n \in 1..4 : ~parts[n].ok
       ELSE ~size.ok /\ \A n \in 1..4 : ~parts[n].ok

-----------------------------------------------------------------------------
(* Formats.                                                                *)

(* A client that sends the desktop's text back is recognised, whatever the *)
(* line endings of either: what comes back compares equal to what was      *)
(* announced, and a second conversion changes nothing.                     *)
EchoRecognised ==
  part = "text" =>
    /\ ReceivedText(SentText(input.text)) = NormalizeLf(NormalizeLf(input.text))
    /\ ReceivedText(SentText(ReceivedText(SentText(input.text)))) = ReceivedText(SentText(input.text))
    /\ \A i \in DOMAIN ToCrlf(input.text) :
         /\ ToCrlf(input.text)[i] = "cr" => i < Len(ToCrlf(input.text)) /\ ToCrlf(input.text)[i + 1] = "lf"
         /\ ToCrlf(input.text)[i] = "lf" => i > 1 /\ ToCrlf(input.text)[i - 1] = "cr"

(* "Check the output bound before allocation; Latin-1 can double in size"  *)
(* (formats.rs:181): no text beyond the limit, and none lost within it.    *)
OfferBounded ==
  part = "text" =>
    \A mime \in TextMimes \cup {Latin1} :
      LET decoded == DecodeOffer(mime, input.text, input.limit)
      IN decoded.ok => Len(decoded.bytes) <= input.limit /\ Len(decoded.bytes) >= Len(input.text)

(* What one side announces the other can have: each MIME type offered to   *)
(* the desktop is served from the write it is offered for, a kind told to  *)
(* the client is served under the format it was told in, and what is read  *)
(* of an offer is in it and can be decoded, as Latin-1 only for want of    *)
(* UTF-8.                                                                  *)
FormatsAgree ==
  part = "formats" =>
    /\ \A kind \in {"text", "image", "files"} :
         /\ \A i \in DOMAIN Offers(kind) : DataForMime(kind, Offers(kind)[i]) # "none"
         /\ LocalFormat(kind) # "none" => LocalKind(LocalFormat(kind)) = kind
         /\ \A mime \in {OfferedMime(kind, input.mimes)} :
              /\ mime # "none" => mime \in Range(input.mimes)
              /\ kind = "text" /\ mime # "none" => DecodeOffer(mime, <<"x">>, 1).ok
              /\ kind = "text" /\ mime = Latin1 => Range(input.mimes) \cap TextMimes = {}
    /\ \A format \in {RemoteFormat(input.formats)} :
         IF format = "none" THEN input.formats \subseteq {"CF_HDROP"} ELSE format \in input.formats

(* A bitmap with colour masks becomes one without: its header is kept, its *)
(* pixels are all of its pixels and follow the header at once.             *)
PixelsKept ==
  part = "dib" /\ FixBitfieldsDib(input) # <<>> =>
    /\ FixBitfieldsDib(input)[5] = BiRgb /\ input[5] = BiBitfields
    /\ SubSeq(FixBitfieldsDib(input), HeaderWords + 1, Len(FixBitfieldsDib(input)))
         = SelectSeq(SubSeq(input, HeaderWords + 1, Len(input)), LAMBDA word : word < 90)

-----------------------------------------------------------------------------
(* Presentation sizes.                                                     *)

Presented == NormalizePresentationSize(input.request, input.source, input.under)

(* "Repeated normalization must be idempotent" (capture/mod.rs:264): a     *)
(* client that asks again for the size it was given keeps it, with either  *)
(* rounding, so that size negotiation converges.                           *)
Idempotent ==
  part = "size" =>
    \A under \in BOOLEAN : NormalizePresentationSize(Presented, input.source, under) = Presented

(* A usable request for a usable source always becomes a size the encoder  *)
(* accepts: even, at least two pixels, inside the limits in either         *)
(* orientation, however extreme the aspect ratio.                          *)
EncoderAccepts ==
  part = "size" /\ ~IsEmpty(<<Even(input.request[1]), Even(input.request[2])>>) /\ ~IsEmpty(input.source)
    => /\ \A i \in {1, 2} : Presented[i] % 2 = 0 /\ Presented[i] >= 2
       /\ Longer(Presented) <= MaxLong /\ Shorter(Presented) <= MaxShort

(* A request that exceeds the source in both dimensions is fitted into it, *)
(* and one for exactly the captured source, inside the limits, is presented*)
(* one to one.                                                             *)
FitsSource ==
  part = "size" =>
    /\ ~IsEmpty(Presented) => \/ Presented[1] <= Even(AtLeast(input.source[1], 2))
                              \/ Presented[2] <= Even(AtLeast(input.source[2], 2))
    /\ (input.request = input.source /\ ~IsEmpty(input.source)
          /\ Longer(input.source) <= MaxLong /\ Shorter(input.source) <= MaxShort)
         => \/ Presented = <<Even(input.source[1]), Even(input.source[2])>>
            \/ IsEmpty(Presented)
-----------------------------------------------------------------------------
(* The configuration.                                                      *)

Authenticated == ResolveAuthentication(input.cli, input.file, MCBadServices)
SecretSource ==
  IF DOMAIN input.cli \cap {"password", "password_file"} # {} THEN input.cli ELSE input.file

(* The server asks for the secret of the strongest source, and PAM only if *)
(* nobody configured a credential it would not use; a named password file  *)
(* never ends as no password, "once that trailing line ending is removed"  *)
(* (config.rs:576).                                                        *)
SecretsKept ==
  part = "auth" /\ Authenticated.ok =>
    IF Authenticated.value.mode = "pam"
    THEN \A o \in CredentialOptions : ~Given(input.cli, o) /\ ~Given(input.file, o)
    ELSE \A password \in {Authenticated.value.credentials.password} :
           /\ Given(SecretSource, "password_file") =>
                /\ password # <<>> /\ "invalid" \notin Range(password)
                /\ \E lineEnd \in {<<>>, <<"lf">>, <<"cr", "lf">>} :
                     SecretSource["password_file"] = password \o lineEnd
           /\ Given(SecretSource, "password") => password = SecretSource["password"]
           /\ DOMAIN SecretSource \cap {"password", "password_file"} = {} => password = <<>>

(* A server that starts without a warning lets nobody in who does not know *)
(* a user's name and a password, and one that others can reach without a   *)
(* password says so.                                                       *)
ExposureTold ==
  part = "auth" /\ Authenticated.ok =>
    \A warnings \in {StartupWarnings(Authenticated.value, input.bind)} :
      /\ warnings = {} => \/ Authenticated.value.mode = "pam"
                          \/ /\ Authenticated.value.credentials.username # ""
                             /\ Authenticated.value.credentials.password # <<>>
      /\ (Authenticated.value.mode = "configured" /\ input.bind # "loopback"
            /\ Authenticated.value.credentials.password = <<>>) => "reachable" \in warnings

(* "Disabling a build feature must never enable a direction the user       *)
(* forbade" (config.rs:19), and a full build serves what was asked for.    *)
DirectionsNotWidened ==
  part = "transfer" =>
    \A transfer \in {FileTransfer(input.cli, input.file, input.built)},
       asked \in {Option(input.cli, input.file, "file_transfer_mode",
                         IF input.built THEN "both" ELSE "to-client")} :
      /\ transfer.ok <=> asked \in FileTransferModes
      /\ transfer.ok => Directions(transfer.value) =
           Directions(asked) \ (IF input.built THEN {} ELSE {"to-server"})

(* What the rest of the program divides by, allocates or encodes is never  *)
(* zero, odd or too large, and an option of the command line is never      *)
(* replaced by the file's.                                                 *)
AcceptedIsUsable ==
  part = "options" =>
    \A loaded \in {Load(input.cli, input.found, input.file, input.built, MCBadServices)} :
      loaded.ok =>
        /\ \A i \in {1, 2} : loaded.value.resolution[i] % 2 = 0 /\ loaded.value.resolution[i] \in 2..MaxU16
        /\ loaded.value.fps > 0 /\ loaded.value.max_frames_in_flight > 0 /\ loaded.value.max_chunk > 0
        /\ loaded.value.scale > 0 /\ loaded.value.quality \in 0..51
        /\ loaded.value.max_entries \in 1..MaxFileCount
        /\ \A o \in {"quality", "fps", "max_frames_in_flight", "scale", "bind"} :
             Given(input.cli, o) => loaded.value[o] = input.cli[o]
        /\ input.found \in {"unreadable", "malformed"} => FALSE
        /\ input.found = "missing" => ~Given(input.cli, "config")

-----------------------------------------------------------------------------
(* Hyprland.                                                               *)

(* hypr-rdp never guesses which desktop to serve: without a signature it   *)
(* takes the one live instance of its own display, and neither dead        *)
(* instances nor stray directories change the choice.                      *)
InstanceUnambiguous ==
  part = "instance" =>
    \A chosen \in {ResolveInstance(input.explicit, input.display, input.directory, input.live)} :
      /\ chosen = ResolveInstance(input.explicit, input.display,
                                  {e \in input.directory : e.pid \in input.live /\ e.named /\ ~e.extra}, input.live)
      /\ chosen.ok /\ input.explicit = "" =>
           \A e \in input.directory :
             e.named /\ ~e.extra /\ e.pid \in input.live /\ e.display = input.display
               => e.signature = chosen.signature

(* Lua's reading of a string behind its opening quote, which the next      *)
(* unescaped quote ends.                                                   *)
RECURSIVE LuaReads(_)
LuaReads(text) ==
  IF text = <<>> THEN <<"unfinished">>
  ELSE IF Head(text) = "quote" THEN IF Len(text) = 1 THEN <<>> ELSE <<"outside">>
  ELSE IF Head(text) # "bs" THEN <<Head(text)>> \o LuaReads(Tail(text))
  ELSE IF Len(text) = 1 THEN <<"unfinished">>
  ELSE <<CASE text[2] = "n" -> "nl" [] text[2] = "r" -> "cr" [] text[2] = "t" -> "tab" [] OTHER -> text[2]>>
       \o LuaReads(SubSeq(text, 3, Len(text)))

(* The fields of the rule, the last of which holds the commas behind it;   *)
(* and what is meant by a field: the text without the blanks around it.    *)
InputFields ==
  [i \in 1..4 |-> IF i < 4 THEN input[i]
                  ELSE FoldLeft(LAMBDA text, t : text \o <<"comma">> \o t, input[4], SubSeq(input, 5, Len(input)))]
Means(text, meant) ==
  /\ meant # <<>> => Head(meant) \notin Blanks /\ Last(meant) \notin Blanks
  /\ \E first, last \in 0..Len(text) :
       /\ meant = SubSeq(text, first + 1, last)
       /\ \A i \in 1..Len(text) : i <= first \/ i > last => text[i] \in Blanks

(* Whatever is written between the commas of a rule (an output's name for  *)
(* one), its Lua form has four fields that say the same without the blanks *)
(* around it: no field ends early, reaches into the next or is no string   *)
(* (a scale may be a number).  A rule is refused for want of a field or a  *)
(* scale, blanks being none, and for a control character (lua_string).     *)
RuleSurvivesLua ==
  part = "rule" =>
    \A lua \in {MonitorRuleToLua(input)} :
      /\ lua = <<>> <=>
           \/ Len(input) < 4 \/ Range(InputFields[4]) \subseteq Blanks
           \/ \E i \in 1..4 : "control" \in Range(InputFields[i])
      /\ lua # <<>> =>
           \A i \in 1..4 :
             \/ Head(lua[i]) = "quote" /\ Means(InputFields[i], LuaReads(Tail(lua[i])))
             \/ i = 4 /\ IsNumber(lua[4]) /\ Means(InputFields[4], lua[4])

-----------------------------------------------------------------------------
(* Input devices.                                                          *)

(* No two keys of the client are one key of the device, so the release of  *)
(* one never releases the other.                                           *)
KeysDistinct ==
  part = "keys" /\ XtToEvdev(input[1], input[2]) # 0 =>
    \A code \in 0..127, extended \in BOOLEAN :
      XtToEvdev(code, extended) = XtToEvdev(input[1], input[2]) => <<code, extended>> = input

(* "Force lock modifiers to the client's view" (keyboard.rs:185): with or  *)
(* without the library's update function, and from any state, each lock    *)
(* the keymap has is what the client says, and no other modifier changes.  *)
LocksSynchronized ==
  part = "locks" =>
    \A after \in {SynchronizeLocks(input.locked, input.masks, input.flags, input.direct)} :
      \A mod \in LockKeys \cup {"shift"} :
        IF mod \in LockKeys /\ input.masks[mod] # {} THEN mod \in after <=> mod \in input.flags
        ELSE mod \in after <=> mod \in input.locked

RECURSIVE Emitted(_, _)
Emitted(clicks, residuals) ==
  IF clicks = <<>> THEN [requests |-> <<>>, residuals |-> residuals]
  ELSE LET first == EmitMouseEvent(input.layout, Head(clicks), residuals)
           rest == Emitted(Tail(clicks), first.residuals)
       IN [rest EXCEPT !.requests = first.requests \o @]
Turned(axis) ==
  FoldLeft(LAMBDA n, e : n + (IF e.kind # "Scroll" THEN 0 ELSE IF axis = "vertical" THEN e.y ELSE e.x),
           0, input.events)
Reported(out, axis) ==
  FoldLeft(LAMBDA n, r : n + (IF r.request = "axis_discrete" /\ r.axis = axis THEN r.discrete ELSE 0),
           0, out.requests)

(* "Keeping the remainder in RDP units avoids floating-point drift at the  *)
(* 120-unit detent boundary" (wayland.rs:320): whatever else happens and   *)
(* however often the wheel turns back, the detents reported are those the  *)
(* wheel turned, less the part of one that is kept, and only the vertical  *)
(* axis is turned around.                                                  *)
ScrollConserved ==
  part = "mouse" =>
    \A out \in {Emitted(input.events, <<0, 0>>)} :
      /\ Turned("horizontal") = Detent * Reported(out, "horizontal") + out.residuals[1]
      /\ Turned("vertical") = out.residuals[2] - (Detent * Reported(out, "vertical"))
      /\ \A i \in {1, 2} : -Detent < out.residuals[i] /\ out.residuals[i] < Detent
      /\ \A r \in Range(out.requests) :
           r.request = "motion_absolute" => \A i \in {1, 2} : r.at[i] \in 0..(r.extent[i] - 1)

(* The output lies inside the layout, at the place where the compositor    *)
(* has it, wherever the layout's origin is.                                *)
LayoutPlaced ==
  part = "layout" =>
    \A placed \in {LayoutFromMonitors(input, "b")} :
      IF placed = <<>> THEN input = <<>> \/ (\E m \in Range(input) : m.w = 0) \/ Last(input).name # "b"
      ELSE /\ \A i \in {1, 2} : placed.offset[i] + placed.size[i] <= placed.extent[i]
           /\ \E i, j \in DOMAIN input :
                placed.offset = <<Last(input).x - input[i].x, Last(input).y - input[j].y>>
           /\ LayoutFromMonitors([i \in DOMAIN input |-> [input[i] EXCEPT !.x = @ - 5, !.y = @ + 5]], "b") = placed

(* A handler that starts types with a keymap it can load: the seat's if    *)
(* the seat has a keyboard, and another only if it has none; and it starts *)
(* whenever the devices, the output and that keymap are there.             *)
SeatKeymapUsed ==
  part = "keymap" =>
    \A started \in {StartHandler(input.world, "out", MCCompiles)} :
      /\ started # NoKeymap =>
           /\ started.names \in MCCompiles
           /\ (started.source = "compositor") = input.world.keyboard
      /\ (input.world.globals /\ input.world.outputs # {}
            /\ (input.world.keyboard => ReadKeymap(input.world.file) /\ input.world.names \in MCCompiles))
           => started # NoKeymap
      /\ \A client \in {ClientKeymap(input.policy, input.layout, MCCompiles)} :
           client # NoKeymap => input.policy = "client" /\ client.names \in MCCompiles

(* Files survive the way from one desktop to the other: the walk, the      *)
(* list, the tree and the range reads neither lose, rename, mix up nor     *)
(* reuse anything beyond what a limit leaves out.                          *)
FilesSurvive ==
  /\ TreeFaithful
  /\ ListingsAgree
  /\ InodesFresh
  /\ WalkNamesDistinct
  /\ WalkTruncationTold
  /\ RoundTrip
  /\ ReadsReassemble

(* Text and images survive conversion in both directions, inside the size  *)
(* limits, and what is announced can be served.                            *)
FormatsSound ==
  /\ EchoRecognised
  /\ OfferBounded
  /\ FormatsAgree
  /\ PixelsKept

(* Size negotiation reaches, in one step, a size that the encoder accepts  *)
(* and that stays.                                                         *)
SizesConverge ==
  /\ Idempotent
  /\ EncoderAccepts
  /\ FitsSource

(* Whatever the options, files, features and instances, the server starts  *)
(* with what was asked for or not at all: never open in silence, with a    *)
(* wider clipboard, an unusable size, another desktop or another rule.     *)
SetupSafe ==
  /\ SecretsKept
  /\ ExposureTold
  /\ DirectionsNotWidened
  /\ AcceptedIsUsable
  /\ InstanceUnambiguous
  /\ RuleSurvivesLua

(* What the client does is what the devices do: each key, each lock, each  *)
(* detent, at the place and with the keymap of the desktop.                *)
InputFaithful ==
  /\ KeysDistinct
  /\ LocksSynchronized
  /\ ScrollConserved
  /\ LayoutPlaced
  /\ SeatKeymapUsed
===============================================================================
