------------------------------ MODULE CmdLine -------------------------------
(***************************************************************************)
(* imgfscmd, one process after the other on one imgFS file: main picks the *)
(* command, the do_*_cmd functions check its arguments, open the file,     *)
(* call the library, close the file, and read or write an image file. Any  *)
(* of fopen, fread, fwrite, fclose and malloc may fail.                    *)
(*                                                                         *)
(* Of a library call no more is said than the commands rely on: it answers *)
(* an error and leaves the images alone, or it does what it is asked, and  *)
(* do_read may find an image that was deleted. ImgfsLib has the details.   *)
(***************************************************************************)
EXTENDS Integers, Sequences, FiniteSets

CONSTANTS
    Lines,       \* what users type: [command, parts], see below
    ImageFiles,  \* the sizes of image files a user may name: a function
    Numeral,     \* what strtoumax makes of a token: a function on numerals
    Width16,     \* 2^16: uint16_t
    Width32      \* 2^32: uint32_t

\* default_max_files, default_thumb_res, default_small_res
Default == [max_files |-> 128, thumb |-> <<64, 64>>, small |-> <<256, 256>>]

MAX_THUMB_RES == 128
MAX_SMALL_RES == 512

ASSUME WidthAssumption ==
    Width16 \in Nat /\ Width32 \in Nat /\ 512 < Width16 /\ Width16 <= Width32
ASSUME NumeralAssumption ==
    \A token \in DOMAIN Numeral : Numeral[token] \in Nat
ASSUME ImageFilesAssumption == \A f \in DOMAIN ImageFiles : ImageFiles[f] \in Nat
ASSUME LinesAssumption ==
    \A line \in Lines :
        /\ line.command \in {"nothing", "unknown", "help",
                             "create", "list", "delete", "read", "insert"}
        /\ line.parts \in Seq(Seq(STRING))

\* An option of create, as the usage text has it, without some of its values.
Incomplete(part) ==
    \/ part[1] = "-max_files" /\ Len(part) < 2
    \/ part[1] \in {"-thumb_res", "-small_res"} /\ Len(part) < 3

\* The parts of a line are its arguments one by one; of create, an option and its
\* values are one. An option that lacks a value has no number after it.
Parted(line) ==
    LET p == line.parts IN
    IF line.command = "create"
    THEN /\ p # <<>> => Len(p[1]) = 1
         /\ \A k \in 2 .. Len(p) :
               /\ p[k] # <<>>
               /\ p[k][1] = "-max_files" => Len(p[k]) <= 2
               /\ p[k][1] \in {"-thumb_res", "-small_res"} => Len(p[k]) <= 3
               /\ Incomplete(p[k]) /\ k < Len(p) => p[k + 1][1] \notin DOMAIN Numeral
    ELSE \A k \in DOMAIN p : Len(p[k]) = 1

ASSUME PartsAssumption == \A line \in Lines : Parted(line)

VARIABLES
    typed,    \* the command line of the process
    argv,     \* the arguments it has yet to look at
    at,       \* where it is
    code,     \* the exit code of the last
    newfile,  \* do_create_cmd's header
    imgfs,    \* the imgFS file: its header and images, or no such thing
    open,     \* "closed", "open", or "left" open by a do_open or do_create
              \* that answered an error
    image,    \* the image in memory
    written   \* the last image file do_read_cmd wrote, and how

vars == <<typed, argv, at, code, newfile, imgfs, open, image, written>>

-----------------------------------------------------------------------------
(* A command line is a record: the word of the command, and the arguments   *)
(* in parts that belong together: a name, or an option and its values.      *)

Joined(parts) ==
    LET to[n \in 0 .. Len(parts)] == IF n = 0 THEN <<>> ELSE to[n - 1] \o parts[n]
    IN to[Len(parts)]

\* There is no such file, or it has no whole header and table.
Unusable == [formed |-> FALSE, header |-> Default, images |-> {}]
Formed(header, images) == [formed |-> TRUE, header |-> header, images |-> images]

Entry(id, bytes, stored) == [id |-> id, image |-> bytes, stored |-> stored]
Stored == {i \in imgfs.images : i.stored}

NoImage == [file |-> "none", bytes |-> 0]
NotWritten == [id |-> "none", res |-> "none", image |-> NoImage, as |-> "none"]

NoLine == [command |-> "none", parts |-> <<>>]

Init ==
    /\ typed = NoLine /\ argv = <<>>
    /\ at = "idle" /\ code = "NONE"
    /\ newfile = Default
    /\ imgfs = Unusable /\ open = "closed"
    /\ image = NoImage /\ written = NotWritten

Exit(err) ==
    /\ at' = "idle"
    /\ code' = err
    /\ argv' = <<>> /\ newfile' = Default /\ image' = NoImage
    /\ UNCHANGED typed

Refuse(err) == Exit(err) /\ UNCHANGED <<imgfs, open, written>>

Goes(place) == at' = place /\ UNCHANGED <<typed, code>>

-----------------------------------------------------------------------------
(* main                                                                     *)

Start(line) ==
    /\ at = "idle"
    /\ typed' = line
    /\ argv' = Joined(line.parts)
    /\ at' = line.command
    /\ code' = "NONE"
    /\ open' = "closed"
    /\ written' = NotWritten
    /\ UNCHANGED <<newfile, imgfs, image>>

MainEnds ==
    \/ at = "nothing" /\ Refuse("NOT_ENOUGH_ARGUMENTS")
    \/ at = "unknown" /\ Refuse("INVALID_COMMAND")
    \/ at = "help" /\ Refuse("NONE")

-----------------------------------------------------------------------------
(* do_create_cmd                                                            *)

\* Fault: a value too large is cut to its width.
UnsignedCut(token, width) ==
    IF token \in DOMAIN Numeral THEN Numeral[token] % width ELSE 0

\* atouint16, atouint32: 0 stands for what is no number of that width too.
Unsigned(token, width) ==
    IF token \in DOMAIN Numeral /\ Numeral[token] < width THEN Numeral[token] ELSE 0

Pair == <<Unsigned(argv[2], Width16), Unsigned(argv[3], Width16)>>

\* Fault: the second dimension is not looked at.
FitsWide(pair, max) == pair[1] \in 1 .. max

Fits(pair, max) == pair[1] \in 1 .. max /\ pair[2] \in 1 .. max

CreateStarts ==
    /\ at = "create"
    /\ IF argv = <<>> THEN Refuse("NOT_ENOUGH_ARGUMENTS")
       ELSE /\ argv' = Tail(argv)
            /\ Goes("options")
            /\ UNCHANGED <<newfile, imgfs, open, image, written>>

\* One turn of the loop over the options.
Takes(n, header) ==
    /\ argv' = SubSeq(argv, n + 1, Len(argv))
    /\ newfile' = header
    /\ UNCHANGED <<typed, at, code, imgfs, open, image, written>>

MaxFilesOption ==
    /\ at = "options" /\ argv # <<>> /\ argv[1] = "-max_files"
    /\ \/ Len(argv) < 2 /\ Refuse("NOT_ENOUGH_ARGUMENTS")
       \/ /\ Len(argv) >= 2 /\ Unsigned(argv[2], Width32) = 0
          /\ Refuse("MAX_FILES")
       \/ /\ Len(argv) >= 2 /\ Unsigned(argv[2], Width32) # 0
          /\ Takes(2, [newfile EXCEPT !.max_files = Unsigned(argv[2], Width32)])

\* Fault: both resolutions are written to the same place.
SizedThumb(header, option) == [header EXCEPT !.thumb = Pair]

Sized(header, option) ==
    IF option = "-thumb_res" THEN [header EXCEPT !.thumb = Pair]
    ELSE [header EXCEPT !.small = Pair]

ResolutionOption(option, max) ==
    /\ at = "options" /\ argv # <<>> /\ argv[1] = option
    /\ \/ Len(argv) < 3 /\ Refuse("NOT_ENOUGH_ARGUMENTS")
       \/ Len(argv) >= 3 /\ ~Fits(Pair, max) /\ Refuse("RESOLUTIONS")
       \/ Len(argv) >= 3 /\ Fits(Pair, max) /\ Takes(3, Sized(newfile, option))

\* Fault: an option nobody knows ends the loop.
OtherOptionEnds ==
    /\ at = "options" /\ argv # <<>>
    /\ argv[1] \notin {"-max_files", "-thumb_res", "-small_res"}
    /\ Takes(Len(argv), newfile)

OtherOption ==
    /\ at = "options" /\ argv # <<>>
    /\ argv[1] \notin {"-max_files", "-thumb_res", "-small_res"}
    /\ Refuse("INVALID_ARGUMENT")

\* do_create and do_close. fopen empties the file first; without memory for the
\* table do_create leaves it open.
CreateFile ==
    /\ at = "options" /\ argv = <<>>
    /\ \/ imgfs' = Formed(newfile, {}) /\ Exit("NONE") /\ UNCHANGED open
       \/ imgfs' = Unusable /\ Exit("IO") /\ UNCHANGED open
       \/ imgfs' = Unusable /\ Exit("OUT_OF_MEMORY") /\ open' = "left"
       \/ Exit("IO") /\ UNCHANGED <<imgfs, open>>
    /\ UNCHANGED written

-----------------------------------------------------------------------------
(* do_list_cmd, do_delete_cmd, do_read_cmd, do_insert_cmd: the arguments,   *)
(* and do_open.                                                             *)

\* resolution_atoi
RES == {"thumb", "thumbnail", "small", "orig", "original"}

\* What keeps a command from opening the file.
Refusals ==
    CASE at = "list" -> IF Len(argv) = 0 THEN {"INVALID_ARGUMENT"}
                        ELSE IF Len(argv) > 1 THEN {"INVALID_COMMAND"} ELSE {}
      [] at = "delete" -> IF Len(argv) < 2 THEN {"NOT_ENOUGH_ARGUMENTS"}
                          ELSE IF argv[2] \in {"", "too long"}
                          THEN {"INVALID_IMGID"} ELSE {}
      [] at = "read" -> IF Len(argv) \notin {2, 3} THEN {"NOT_ENOUGH_ARGUMENTS"}
                        ELSE IF Len(argv) = 3 /\ argv[3] \notin RES
                        THEN {"RESOLUTIONS"} ELSE {}
      [] at = "insert" -> IF Len(argv) # 3 THEN {"NOT_ENOUGH_ARGUMENTS"} ELSE {}

\* Where a command is when it has opened the file.
Called == [list |-> "do_list", delete |-> "do_delete", read |-> "do_read",
           insert |-> "read_disk_image"]

Opening == at \in DOMAIN Called

Misused == Opening /\ \E err \in Refusals : Refuse(err)

\* Without memory for the table do_open leaves the file open too.
Open ==
    /\ Opening /\ Refusals = {}
    /\ \/ imgfs.formed /\ Goes(Called[at]) /\ open' = "open"
          /\ UNCHANGED <<argv, newfile, image>>
       \/ Exit("IO") /\ UNCHANGED open
       \/ imgfs.formed /\ Exit("IO") /\ open' = "left"
    /\ UNCHANGED <<imgfs, written>>

-----------------------------------------------------------------------------
(* The calls. do_close follows each.                                        *)

Closes == open' = "closed"

ListCall == at = "do_list" /\ Exit("NONE") /\ Closes /\ UNCHANGED <<imgfs, written>>

\* The library answers an error.
CallFails ==
    /\ at \in {"do_delete", "do_read", "do_insert"}
    /\ Exit("LIBRARY")
    /\ Closes
    /\ UNCHANGED <<imgfs, written>>

DeleteCall ==
    /\ at = "do_delete"
    /\ \E i \in Stored :
          /\ i.id = argv[2]
          /\ imgfs' = [imgfs EXCEPT !.images =
                          (@ \ {i}) \cup {Entry(i.id, i.image, FALSE)}]
    /\ Exit("NONE") /\ Closes
    /\ UNCHANGED written

\* The file is closed before the image is written out.
ReadCall ==
    /\ at = "do_read"
    /\ \E i \in imgfs.images : i.id = argv[2] /\ image' = i.image
    /\ Goes("write") /\ Closes
    /\ UNCHANGED <<argv, newfile, imgfs, written>>

\* Fault: an image file that cannot be read leaves the imgFS file open.
LeavesOpen == UNCHANGED open

ClosesUnread == Closes

\* read_disk_image: the length is cut to 32 bits, and fread of nothing fails.
ReadImageFails ==
    /\ at = "read_disk_image"
    /\ \E err \in {"IO", "OUT_OF_MEMORY"} : Exit(err)
    /\ ClosesUnread
    /\ UNCHANGED <<imgfs, written>>

ReadImage ==
    /\ at = "read_disk_image"
    /\ argv[3] \in DOMAIN ImageFiles
    /\ ImageFiles[argv[3]] % Width32 # 0
    /\ image' = [file |-> argv[3], bytes |-> ImageFiles[argv[3]] % Width32]
    /\ Goes("do_insert")
    /\ UNCHANGED <<argv, newfile, imgfs, open, written>>

InsertCall ==
    /\ at = "do_insert"
    /\ Cardinality(Stored) < imgfs.header.max_files
    /\ imgfs' = [imgfs EXCEPT !.images = @ \cup {Entry(argv[2], image, TRUE)}]
    /\ Exit("NONE") /\ Closes
    /\ UNCHANGED written

-----------------------------------------------------------------------------
(* create_name and write_disk_image                                         *)

\* The suffix of the image file.
Suffix ==
    CASE Len(argv) = 3 /\ argv[3] \in {"thumb", "thumbnail"} -> "_thumb"
      [] Len(argv) = 3 /\ argv[3] = "small" -> "_small"
      [] OTHER -> "_orig"

Writes(as) ==
    written' = [id |-> argv[2], res |-> Suffix, image |-> image, as |-> as]

NoNameOrFile ==
    /\ at = "write"
    /\ \E err \in {"OUT_OF_MEMORY", "IO"} : Exit(err)
    /\ UNCHANGED <<imgfs, open, written>>

\* Fault: the result of fwrite is not looked at.
Unnoticed == Exit("NONE")

Noticed == Exit("IO")

WriteFails ==
    /\ at = "write" /\ Writes("part") /\ Noticed
    /\ UNCHANGED <<imgfs, open>>

\* Of the last bytes only fclose says whether they are written, and its result
\* is not looked at.
Write ==
    /\ at = "write"
    /\ \E as \in {"whole", "lost at fclose"} : Writes(as)
    /\ Exit("NONE")
    /\ UNCHANGED <<imgfs, open>>

-----------------------------------------------------------------------------

Step ==
    \/ MainEnds
    \/ CreateStarts \/ MaxFilesOption
    \/ ResolutionOption("-thumb_res", MAX_THUMB_RES)
    \/ ResolutionOption("-small_res", MAX_SMALL_RES)
    \/ OtherOption \/ CreateFile
    \/ Misused \/ Open
    \/ ListCall \/ CallFails \/ DeleteCall \/ ReadCall
    \/ ReadImageFails \/ ReadImage \/ InsertCall
    \/ NoNameOrFile \/ WriteFails \/ Write

Next == (\E line \in Lines : Start(line)) \/ Step

Spec == Init /\ [][Next]_vars

-----------------------------------------------------------------------------
(* What the usage text says, from the parts of a line.                      *)

Value(token, max) ==
    token \in DOMAIN Numeral /\ Numeral[token] \in 1 .. max

OptionAcceptable(p) ==
    \/ p[1] = "-max_files" /\ Len(p) = 2 /\ Value(p[2], Width32 - 1)
    \/ /\ p[1] = "-thumb_res" /\ Len(p) = 3
       /\ Value(p[2], MAX_THUMB_RES) /\ Value(p[3], MAX_THUMB_RES)
    \/ /\ p[1] = "-small_res" /\ Len(p) = 3
       /\ Value(p[2], MAX_SMALL_RES) /\ Value(p[3], MAX_SMALL_RES)

Acceptable(line) ==
    LET p == line.parts IN
    CASE line.command = "help" -> TRUE
      [] line.command = "list" -> Len(p) = 1
      [] line.command = "create" ->
            p # <<>> /\ \A k \in 2 .. Len(p) : OptionAcceptable(p[k])
      [] line.command = "delete" -> Len(p) >= 2 /\ p[2][1] \notin {"", "too long"}
      [] line.command = "read" ->
            Len(p) = 2 \/ (Len(p) = 3 /\ p[3][1] \in RES)
      [] line.command = "insert" -> Len(p) = 3
      [] OTHER -> FALSE

\* "Only the last value is valid."
Last(line, option, values, default) ==
    LET given == {k \in 2 .. Len(line.parts) : line.parts[k][1] = option}
    IN IF given = {} THEN default
       ELSE values[CHOOSE k \in given : \A j \in given : j <= k]

Wanted(line) ==
    LET p == line.parts
        one == [k \in DOMAIN p |-> Numeral[p[k][2]]]
        two == [k \in DOMAIN p |-> <<Numeral[p[k][2]], Numeral[p[k][3]]>>]
    IN [max_files |-> Last(line, "-max_files", one, Default.max_files),
        thumb |-> Last(line, "-thumb_res", two, Default.thumb),
        small |-> Last(line, "-small_res", two, Default.small)]

-----------------------------------------------------------------------------
(* Properties.                                                              *)

Places == {"idle", "nothing", "unknown", "help", "create", "options", "list",
           "delete", "read", "insert", "do_list", "do_delete", "do_read",
           "read_disk_image", "do_insert", "write"}

HeaderOK(header) ==
    /\ header.max_files \in 1 .. Width32 - 1
    /\ \A k \in 1 .. 2 : /\ header.thumb[k] \in 1 .. MAX_THUMB_RES
                         /\ header.small[k] \in 1 .. MAX_SMALL_RES

\* Every variable has its type; no imgFS file has a size of zero or one above
\* the maximum the library and libvips are given it for.
TypeOK ==
    /\ typed \in Lines \cup {NoLine}
    /\ at \in Places
    /\ HeaderOK(newfile) /\ HeaderOK(imgfs.header) /\ imgfs.formed \in BOOLEAN
    /\ open \in {"closed", "open", "left"}
    /\ written.as \in {"none", "part", "whole", "lost at fclose"}

ArgumentErrors == {"NOT_ENOUGH_ARGUMENTS", "INVALID_COMMAND", "INVALID_ARGUMENT",
                   "MAX_FILES", "RESOLUTIONS", "INVALID_IMGID"}

Ended == at = "idle" /\ typed # NoLine

\* A command line is refused exactly if the usage text does not allow it: no
\* value wraps into its range, no option swallows the next, and a line is not
\* judged by the values a later option replaces.
AsUsage == Ended => (code \in ArgumentErrors <=> ~Acceptable(typed))

\* The imgFS file is touched for an acceptable command line only: create has
\* seen all its options before fopen empties the file.
ChangesAsked ==
    [][imgfs' # imgfs => /\ typed.command \in {"create", "insert", "delete"}
                         /\ Acceptable(typed)]_vars

\* A create that answers ERR_NONE has made an empty imgFS file with what the
\* line asked for: the last value of each option, the default for the others.
CreatedAsAsked ==
    Ended /\ typed.command = "create" /\ code = "NONE" =>
        imgfs = Formed(Wanted(typed), {})

\* A read that answers ERR_NONE has written, under the name asked for, the
\* whole of an image file once inserted, unless only fclose knew better or the
\* file had 2^32 bytes or more.
RoundTrip ==
    Ended /\ typed.command = "read" /\ code = "NONE" =>
        /\ written.as \in {"whole", "lost at fclose"}
        /\ written.id = typed.parts[2][1]
        /\ written.image.file \in DOMAIN ImageFiles
        /\ \/ written.image.bytes = ImageFiles[written.image.file]
           \/ ImageFiles[written.image.file] >= Width32

\* Every command that has opened the imgFS file has closed it when it ends, and
\* before it writes an image file.
Closed == at \in {"idle", "write"} => open # "open"

=============================================================================
