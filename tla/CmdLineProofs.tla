--------------------------- MODULE CmdLineProofs ----------------------------
(***************************************************************************)
(* The command line, for any lines, image files and widths of the integer  *)
(* types: no imgFS file is made with a size out of range, and every file   *)
(* that is opened is closed; a line is refused exactly if the usage text   *)
(* does not allow it, and what it makes, changes and reads back is what it *)
(* asked for.                                                              *)
(*                                                                         *)
(* IInv says where a command is while its file is open. Asked says that    *)
(* the loop over the options is at the end of a part of the line, and has  *)
(* what the parts before it ask for. Carried says that every image in the  *)
(* file, in memory or written out was once in an image file.               *)
(***************************************************************************)
EXTENDS CmdLine, WellFoundedInduction, TLAPS

Thumb == (1 .. MAX_THUMB_RES) \X (1 .. MAX_THUMB_RES)
Small == (1 .. MAX_SMALL_RES) \X (1 .. MAX_SMALL_RES)
Headers == [max_files : 1 .. Width32 - 1, thumb : Thumb, small : Small]

\* The header under construction and the one of the file have their ranges at
\* every step of the loop over the options.
InRange ==
    /\ newfile \in Headers /\ imgfs.header \in Headers /\ imgfs.formed \in BOOLEAN
    /\ imgfs = [formed |-> imgfs.formed, header |-> imgfs.header, images |-> imgfs.images]

Calls == {"do_list", "do_delete", "do_read", "read_disk_image", "do_insert"}

\* The imgFS file is open during the calls, and at no other place.
OpenInCalls == open = "open" => at \in Calls

IInv ==
    /\ typed \in Lines \cup {NoLine} /\ at \in Places
    /\ written.as \in {"none", "part", "whole", "lost at fclose"}
    /\ open \in {"closed", "open", "left"}
    /\ InRange /\ OpenInCalls

-----------------------------------------------------------------------------

LEMMA DefaultOK == Default \in Headers
BY WidthAssumption DEF Default, Headers, Thumb, Small, MAX_THUMB_RES, MAX_SMALL_RES

\* What the conversions let through has its range.
LEMMA UnsignedRange ==
    ASSUME NEW token, NEW width \in Nat, Unsigned(token, width) # 0
    PROVE  Unsigned(token, width) \in 1 .. width - 1
BY NumeralAssumption DEF Unsigned

LEMMA HeadersOK == ASSUME NEW header \in Headers PROVE HeaderOK(header)
BY DEF Headers, Thumb, Small, HeaderOK

LEMMA InitInv == Init => IInv
BY DefaultOK DEF Init, IInv, InRange, OpenInCalls, Unusable, Places, NoLine, NotWritten

\* The end of a process: the header under construction is forgotten.
LEMMA RefuseKeeps ==
    ASSUME IInv, NEW err, Refuse(err), at \notin Calls
    PROVE  IInv'
<1>1. open' # "open"
  BY DEF Refuse, IInv, OpenInCalls
<1>2. QED
  BY <1>1, DefaultOK DEF IInv, InRange, OpenInCalls, Refuse, Exit, Places

-----------------------------------------------------------------------------
(* main and the loop over the options.                                      *)

LEMMA StartKeeps == ASSUME IInv, NEW line \in Lines, Start(line) PROVE IInv'
<1>1. line.command \in Places
  BY LinesAssumption DEF Places
<1>2. QED
  BY <1>1 DEF IInv, InRange, OpenInCalls, Start, NotWritten

LEMMA MainEndsKeeps == ASSUME IInv, MainEnds PROVE IInv'
BY RefuseKeeps DEF MainEnds, Calls

LEMMA CreateStartsKeeps == ASSUME IInv, CreateStarts PROVE IInv'
<1>1. CASE argv = <<>>
  BY <1>1, RefuseKeeps DEF CreateStarts, Calls
<1>2. CASE argv # <<>>
  BY <1>2 DEF CreateStarts, Goes, IInv, InRange, OpenInCalls, Places, Calls
<1>3. QED
  BY <1>1, <1>2

\* A turn of the loop that takes an option leaves a header in range.
LEMMA TakesKeeps ==
    ASSUME IInv, NEW n, NEW header \in Headers, Takes(n, header), at = "options"
    PROVE  IInv'
BY DEF Takes, IInv, InRange, OpenInCalls

LEMMA MaxFilesOptionKeeps == ASSUME IInv, MaxFilesOption PROVE IInv'
<1> DEFINE value == Unsigned(argv[2], Width32)
           header == [newfile EXCEPT !.max_files = value]
<1>1. CASE \E err : Refuse(err)
  BY <1>1, RefuseKeeps DEF MaxFilesOption, Calls
<1>2. CASE value # 0 /\ Takes(2, header)
  <2>1. value \in 1 .. Width32 - 1
    <3>1. Width32 \in Nat
      BY WidthAssumption
    <3>2. QED
      BY <1>2, <3>1, UnsignedRange
  <2>2. header \in Headers
    BY <2>1 DEF IInv, InRange, Headers
  <2>3. QED
    BY <1>2, <2>2, TakesKeeps DEF MaxFilesOption
<1>3. QED
  BY <1>1, <1>2 DEF MaxFilesOption

LEMMA ThumbOptionKeeps ==
    ASSUME IInv, ResolutionOption("-thumb_res", MAX_THUMB_RES) PROVE IInv'
<1>1. CASE \E err : Refuse(err)
  BY <1>1, RefuseKeeps DEF ResolutionOption, Calls
<1>2. CASE /\ Fits(Pair, MAX_THUMB_RES)
           /\ Takes(3, Sized(newfile, "-thumb_res"))
  <2>1. Pair \in Thumb
    BY <1>2 DEF Fits, Pair, Thumb
  <2>2. Sized(newfile, "-thumb_res") \in Headers
    BY <2>1 DEF Sized, IInv, InRange, Headers
  <2>3. QED
    BY <1>2, <2>2, TakesKeeps DEF ResolutionOption
<1>3. QED
  BY <1>1, <1>2 DEF ResolutionOption

LEMMA SmallOptionKeeps ==
    ASSUME IInv, ResolutionOption("-small_res", MAX_SMALL_RES) PROVE IInv'
<1>1. CASE \E err : Refuse(err)
  BY <1>1, RefuseKeeps DEF ResolutionOption, Calls
<1>2. CASE /\ Fits(Pair, MAX_SMALL_RES)
           /\ Takes(3, Sized(newfile, "-small_res"))
  <2>1. Pair \in Small
    BY <1>2 DEF Fits, Pair, Small
  <2>2. Sized(newfile, "-small_res") \in Headers
    BY <2>1 DEF Sized, IInv, InRange, Headers
  <2>3. QED
    BY <1>2, <2>2, TakesKeeps DEF ResolutionOption
<1>3. QED
  BY <1>1, <1>2 DEF ResolutionOption

LEMMA OtherOptionKeeps == ASSUME IInv, OtherOption PROVE IInv'
BY RefuseKeeps DEF OtherOption, Calls

LEMMA CreateFileKeeps == ASSUME IInv, CreateFile PROVE IInv'
<1>1. open # "open" /\ open' # "open" /\ open' \in {"closed", "open", "left"}
  BY DEF CreateFile, IInv, OpenInCalls, Calls, Exit
<1>2. imgfs'.formed \in BOOLEAN /\ imgfs'.header \in Headers
      /\ imgfs' = [formed |-> imgfs'.formed, header |-> imgfs'.header,
                   images |-> imgfs'.images]
  <2>1. CASE imgfs' = Formed(newfile, {})
    BY <2>1 DEF IInv, InRange, Formed
  <2>2. CASE imgfs' = Unusable
    BY <2>2, DefaultOK DEF Unusable
  <2>3. CASE imgfs' = imgfs
    BY <2>3 DEF IInv, InRange
  <2>4. QED
    BY <2>1, <2>2, <2>3 DEF CreateFile
<1>3. \E err : Exit(err)
  BY DEF CreateFile
<1>4. QED
  BY <1>1, <1>2, <1>3, DefaultOK
     DEF CreateFile, IInv, InRange, OpenInCalls, Exit, Places

-----------------------------------------------------------------------------
(* The other commands.                                                      *)

LEMMA MisusedKeeps == ASSUME IInv, Misused PROVE IInv'
<1>1. at \notin Calls
  BY DEF Misused, Opening, Called, Calls
<1>2. QED
  BY <1>1, RefuseKeeps DEF Misused

LEMMA OpenKeeps == ASSUME IInv, Open PROVE IInv'
<1>1. at \notin Calls /\ Called[at] \in Calls
  BY DEF Open, Opening, Called, Calls
<1>2. open # "open"
  BY <1>1 DEF IInv, OpenInCalls
<1>3. CASE Goes(Called[at]) /\ open' = "open" /\ UNCHANGED <<argv, newfile, image>>
  BY <1>1, <1>3 DEF Open, Goes, IInv, InRange, OpenInCalls, Places, Calls
<1>4. CASE Exit("IO") /\ UNCHANGED open
  BY <1>2, <1>4, DefaultOK DEF Open, Exit, IInv, InRange, OpenInCalls, Places
<1>5. CASE Exit("IO") /\ open' = "left"
  BY <1>5, DefaultOK DEF Open, Exit, IInv, InRange, OpenInCalls, Places
<1>6. QED
  BY <1>3, <1>4, <1>5 DEF Open

\* A call that ends the process: the library leaves the header of the file
\* alone, and the file is closed.
LEMMA CallEnds ==
    ASSUME IInv, NEW err, Exit(err), Closes, UNCHANGED written,
           NEW images, imgfs' = [imgfs EXCEPT !.images = images]
    PROVE  IInv'
<1>1. imgfs' = [formed |-> imgfs.formed, header |-> imgfs.header, images |-> images]
  BY DEF IInv, InRange
<1>2. QED
  BY <1>1, DefaultOK DEF IInv, InRange, OpenInCalls, Exit, Closes, Places

LEMMA CallKeeps ==
    ASSUME IInv, NEW err, Exit(err), Closes, UNCHANGED <<imgfs, written>>
    PROVE  IInv'
BY DefaultOK DEF IInv, InRange, OpenInCalls, Exit, Closes, Places

LEMMA ListKeeps == ASSUME IInv, ListCall PROVE IInv'
BY CallKeeps DEF ListCall

LEMMA FailureKeeps == ASSUME IInv, CallFails PROVE IInv'
BY CallKeeps DEF CallFails

LEMMA DeleteKeeps == ASSUME IInv, DeleteCall PROVE IInv'
<1>1. PICK i \in Stored :
        imgfs' = [imgfs EXCEPT !.images =
                     (imgfs.images \ {i}) \cup {Entry(i.id, i.image, FALSE)}]
  BY DEF DeleteCall
<1>2. QED
  BY <1>1, CallEnds DEF DeleteCall

LEMMA ReadKeeps == ASSUME IInv, ReadCall PROVE IInv'
BY DEF ReadCall, Goes, Closes, IInv, InRange, OpenInCalls, Places

LEMMA ReadImageFailsKeeps == ASSUME IInv, ReadImageFails PROVE IInv'
BY CallKeeps DEF ReadImageFails, ClosesUnread

LEMMA ReadImageKeeps == ASSUME IInv, ReadImage PROVE IInv'
BY DEF ReadImage, Goes, IInv, InRange, OpenInCalls, Places, Calls

LEMMA InsertKeeps == ASSUME IInv, InsertCall PROVE IInv'
<1>1. imgfs' = [imgfs EXCEPT !.images =
                   imgfs.images \cup {Entry(argv[2], image, TRUE)}]
  BY DEF InsertCall
<1>2. QED
  BY <1>1, CallEnds DEF InsertCall

LEMMA NoNameOrFileKeeps == ASSUME IInv, NoNameOrFile PROVE IInv'
BY DefaultOK
   DEF NoNameOrFile, Exit, IInv, InRange, OpenInCalls, Places, Calls

LEMMA WriteKeeps == ASSUME IInv, WriteFails \/ Write PROVE IInv'
<1>1. \E err : Exit(err)
  BY DEF WriteFails, Write, Noticed
<1>2. written'.as \in {"none", "part", "whole", "lost at fclose"}
  <2>1. PICK as \in {"part", "whole", "lost at fclose"} : Writes(as)
    BY DEF WriteFails, Write
  <2>2. written'.as = as
    BY <2>1 DEF Writes
  <2>3. QED
    BY <2>2
<1>3. at = "write" /\ UNCHANGED <<imgfs, open>>
  BY DEF WriteFails, Write
<1>4. QED
  BY <1>1, <1>2, <1>3, DefaultOK
     DEF Exit, IInv, InRange, OpenInCalls, Places, Calls

-----------------------------------------------------------------------------

LEMMA StepInv == IInv /\ [Next]_vars => IInv'
<1> SUFFICES ASSUME IInv, [Next]_vars PROVE IInv'
  OBVIOUS
<1>1. CASE \E line \in Lines : Start(line)
  BY <1>1, StartKeeps
<1>2. CASE Step
  BY <1>2, MainEndsKeeps, CreateStartsKeeps, MaxFilesOptionKeeps,
     ThumbOptionKeeps, SmallOptionKeeps, OtherOptionKeeps, CreateFileKeeps,
     MisusedKeeps, OpenKeeps, ListKeeps, FailureKeeps, DeleteKeeps, ReadKeeps,
     ReadImageFailsKeeps, ReadImageKeeps, InsertKeeps, NoNameOrFileKeeps,
     WriteKeeps
     DEF Step
<1>3. CASE UNCHANGED vars
  BY <1>3 DEF vars, IInv, InRange, OpenInCalls
<1>4. QED
  BY <1>1, <1>2, <1>3 DEF Next

\* The invariant holds in every state of every run of commands.
THEOREM LineInvariant == Spec => []IInv
<1>1. QED
  BY InitInv, StepInv, PTL DEF Spec

\* Whatever a user types, no imgFS file is made with a maximum number of files
\* of zero or a resolution out of its range: do_create_cmd checks each value
\* after its conversion.
THEOREM SizesInRange == Spec => []TypeOK
<1>1. IInv => TypeOK
  BY HeadersOK DEF IInv, InRange, TypeOK
<1>2. QED
  BY <1>1, LineInvariant, PTL

\* A command that has opened the imgFS file closes it on every path, before it
\* ends and before do_read_cmd writes the image out.
THEOREM EveryFileClosed == Spec => []Closed
<1>1. IInv => Closed
  BY DEF IInv, OpenInCalls, Closed, Calls
<1>2. QED
  BY <1>1, LineInvariant, PTL

-----------------------------------------------------------------------------
(* The arguments of a line and its parts.                                   *)

\* A set of numbers has a least one.
LEMMA Least ==
    ASSUME NEW S, S \subseteq Nat, S # {}
    PROVE  \E n \in S : \A k \in S : n <= k
<1> DEFINE R == {ss \in Nat \X Nat : ss[1] < ss[2]}
<1>1. IsWellFoundedOn(R, Nat)
  BY NatLessThanWellFounded DEF OpToRel
<1>2. PICK x \in S : \A y \in S : ~ (<<y, x>> \in R)
  BY <1>1, WFMin
<1>3. \A y \in S : ~(y < x)
  BY <1>2
<1> QED
  BY <1>3

\* Induction, for a set of numbers.
LEMMA SetInduction ==
    ASSUME NEW S, 0 \in S, \A n \in Nat : n \in S => n + 1 \in S
    PROVE  Nat \subseteq S
<1> SUFFICES ASSUME Nat \ S # {} PROVE FALSE
  OBVIOUS
<1>1. PICK n \in Nat \ S : \A k \in Nat \ S : n <= k
  BY Least
<1>2. n - 1 \in Nat /\ n - 1 \in S
  BY <1>1
<1> QED
  BY <1>1, <1>2

\* What a sequence put together from two has at each place.
LEMMA Appended ==
    ASSUME NEW T, NEW s \in Seq(T), NEW t \in Seq(T)
    PROVE  /\ s \o t \in Seq(T)
           /\ Len(s \o t) = Len(s) + Len(t)
           /\ \A i \in 1 .. Len(s) : (s \o t)[i] = s[i]
           /\ \A i \in 1 .. Len(t) : (s \o t)[Len(s) + i] = t[i]
OBVIOUS

\* A sequence put together from two, without the first.
LEMMA Dropped ==
    ASSUME NEW T, NEW s \in Seq(T), NEW n \in 0 .. Len(s)
    PROVE  /\ SubSeq(s, n + 1, Len(s)) \in Seq(T)
           /\ Len(SubSeq(s, n + 1, Len(s))) = Len(s) - n
           /\ \A i \in 1 .. Len(s) - n : SubSeq(s, n + 1, Len(s))[i] = s[n + i]
OBVIOUS

\* The arguments up to each part.
Upto(parts) ==
    LET to[n \in 0 .. Len(parts)] == IF n = 0 THEN <<>> ELSE to[n - 1] \o parts[n]
    IN to

\* The arguments of a line are those of all its parts.
LEMMA JoinedIsUpto == \A parts : Joined(parts) = Upto(parts)[Len(parts)]
BY DEF Joined, Upto

\* There is such a function.
LEMMA UptoExists ==
    ASSUME NEW parts \in Seq(Seq(STRING))
    PROVE  \E to : to = [n \in 0 .. Len(parts) |->
                            IF n = 0 THEN <<>> ELSE to[n - 1] \o parts[n]]
<1> DEFINE Is(f, m) == f = [n \in 0 .. m |-> IF n = 0 THEN <<>> ELSE f[n - 1] \o parts[n]]
           S == {m \in Nat : \E f : Is(f, m)}
<1>1. 0 \in S
  <2> DEFINE f == [n \in 0 .. 0 |-> <<>>]
  <2>1. Is(f, 0)
    OBVIOUS
  <2> HIDE DEF f
  <2> QED
    BY <2>1
<1>2. ASSUME NEW m \in Nat, m \in S PROVE m + 1 \in S
  <2>1. PICK f : Is(f, m)
    BY <1>2
  <2> DEFINE g == [n \in 0 .. m + 1 |-> IF n = m + 1 THEN f[m] \o parts[m + 1] ELSE f[n]]
             h == [n \in 0 .. m + 1 |-> IF n = 0 THEN <<>> ELSE g[n - 1] \o parts[n]]
  <2>2. ASSUME NEW n \in 0 .. m + 1 PROVE g[n] = h[n]
    <3>1. CASE n = 0
      BY <2>1, <3>1
    <3>2. CASE n = m + 1
      <4>1. m \in 0 .. m + 1 /\ m # m + 1 /\ n - 1 = m
        BY <3>2
      <4>2. g[n - 1] = f[m]
        BY <4>1
      <4>3. h[n] = g[n - 1] \o parts[n]
        <5>1. n # 0
          BY <3>2
        <5> HIDE DEF g
        <5> QED
          BY <5>1
      <4>4. g[n] = f[m] \o parts[m + 1]
        BY <3>2
      <4> QED
        BY <3>2, <4>2, <4>3, <4>4
    <3>3. CASE n \in 1 .. m
      <4>1. n - 1 \in 0 .. m + 1 /\ n - 1 # m + 1 /\ n \in 0 .. m /\ n # 0
        BY <3>3
      <4>2. g[n - 1] = f[n - 1] /\ g[n] = f[n]
        BY <3>3, <4>1
      <4>3. f[n] = f[n - 1] \o parts[n]
        BY <2>1, <4>1
      <4>4. h[n] = g[n - 1] \o parts[n]
        BY <4>1
      <4> QED
        BY <4>2, <4>3, <4>4
    <3> QED
      BY <3>1, <3>2, <3>3
  <2>3. g = h
    BY <2>2
  <2>4. Is(g, m + 1)
    BY <2>3
  <2> HIDE DEF g, h, Is
  <2> QED
    BY <2>4
<1>3. Nat \subseteq S
  <2> HIDE DEF S
  <2> QED
    BY <1>1, <1>2, SetInduction
<1>4. Len(parts) \in S
  <2> HIDE DEF S
  <2> QED
    BY <1>3
<1> QED
  BY <1>4

\* One part more.
LEMMA UptoStep ==
    ASSUME NEW parts \in Seq(Seq(STRING))
    PROVE  /\ Upto(parts)[0] = <<>>
           /\ \A n \in 0 .. Len(parts) - 1 :
                 Upto(parts)[n + 1] = Upto(parts)[n] \o parts[n + 1]
<1> DEFINE Is(to) == to = [n \in 0 .. Len(parts) |->
                              IF n = 0 THEN <<>> ELSE to[n - 1] \o parts[n]]
<1>1. \E to : Is(to)
  BY UptoExists
<1>2. Upto(parts) = CHOOSE to : Is(to)
  BY DEF Upto
<1>3. Is(Upto(parts))
  <2> HIDE DEF Is
  <2> QED
    BY <1>1, <1>2
<1> HIDE DEF Is
<1>4. Upto(parts) = [n \in 0 .. Len(parts) |->
                        IF n = 0 THEN <<>> ELSE Upto(parts)[n - 1] \o parts[n]]
  BY <1>3 DEF Is
<1> DEFINE up == Upto(parts)
<1> HIDE DEF up
<1>5. up = [n \in 0 .. Len(parts) |-> IF n = 0 THEN <<>> ELSE up[n - 1] \o parts[n]]
  BY <1>4 DEF up
<1>6. up[0] = <<>>
  BY <1>5
<1>7. ASSUME NEW n \in 0 .. Len(parts) - 1 PROVE up[n + 1] = up[n] \o parts[n + 1]
  <2> DEFINE len == Len(parts)
             m == n + 1
  <2>1. m \in 0 .. len /\ m # 0 /\ m - 1 = n
    OBVIOUS
  <2>2. up = [k \in 0 .. len |-> IF k = 0 THEN <<>> ELSE up[k - 1] \o parts[k]]
    BY <1>5
  <2> HIDE DEF m, len
  <2>3. up[m] = up[m - 1] \o parts[m]
    BY <2>1, <2>2
  <2>4. up[m] = up[n] \o parts[m]
    BY <2>1, <2>3
  <2> QED
    BY <2>4 DEF m
<1> QED
  BY <1>6, <1>7 DEF up

\* Each is a sequence of arguments, and begins those after it.
LEMMA UptoType ==
    ASSUME NEW parts \in Seq(Seq(STRING))
    PROVE  \A n \in 0 .. Len(parts) : Upto(parts)[n] \in Seq(STRING)
<1> DEFINE S == {n \in Nat : n <= Len(parts) => Upto(parts)[n] \in Seq(STRING)}
<1>1. 0 \in S
  <2>1. Upto(parts)[0] = <<>>
    BY UptoStep
  <2>2. <<>> \in Seq(STRING)
    OBVIOUS
  <2> QED
    BY <2>1, <2>2
<1>2. ASSUME NEW n \in Nat, n \in S PROVE n + 1 \in S
  <2> SUFFICES ASSUME n + 1 <= Len(parts) PROVE Upto(parts)[n + 1] \in Seq(STRING)
    OBVIOUS
  <2>1. /\ Upto(parts)[n] \in Seq(STRING) /\ n + 1 \in 1 .. Len(parts)
        /\ n \in 0 .. Len(parts) - 1
    BY <1>2
  <2>2. parts[n + 1] \in Seq(STRING)
    BY <2>1
  <2>3. Upto(parts)[n + 1] = Upto(parts)[n] \o parts[n + 1]
    BY <2>1, UptoStep
  <2> QED
    BY <2>1, <2>2, <2>3
<1>3. Nat \subseteq S
  <2> HIDE DEF S
  <2> QED
    BY <1>1, <1>2, SetInduction
<1> QED
  <2> HIDE DEF S
  <2>1. \A n \in 0 .. Len(parts) : n \in S
    BY <1>3
  <2> QED
    BY <2>1 DEF S

\* The arguments of the first parts are where they are in all of them.
LEMMA UptoPrefix ==
    ASSUME NEW parts \in Seq(Seq(STRING)), NEW k \in 0 .. Len(parts)
    PROVE  \A n \in k .. Len(parts) :
              /\ Len(Upto(parts)[k]) <= Len(Upto(parts)[n])
              /\ \A i \in 1 .. Len(Upto(parts)[k]) : Upto(parts)[n][i] = Upto(parts)[k][i]
<1> DEFINE up == Upto(parts)
           Begins(n) == /\ Len(up[k]) <= Len(up[n])
                        /\ \A i \in 1 .. Len(up[k]) : up[n][i] = up[k][i]
           S == {n \in Nat : k <= n /\ n <= Len(parts) => Begins(n)}
<1>0. \A n \in 0 .. Len(parts) : up[n] \in Seq(STRING)
  BY UptoType
<1>4. \A n \in 0 .. Len(parts) - 1 : up[n + 1] = up[n] \o parts[n + 1]
  BY UptoStep
<1> HIDE DEF up
<1>1. 0 \in S
  BY <1>0
<1>2. ASSUME NEW n \in Nat, n \in S PROVE n + 1 \in S
  <2> SUFFICES ASSUME k <= n + 1, n + 1 <= Len(parts) PROVE Begins(n + 1)
    OBVIOUS
  <2>1. CASE k = n + 1
    BY <1>0, <2>1
  <2>2. CASE k <= n
    <3>1. Begins(n) /\ up[n] \in Seq(STRING) /\ up[k] \in Seq(STRING)
      BY <1>0, <1>2, <2>2
    <3>2. n \in 0 .. Len(parts) - 1 /\ parts[n + 1] \in Seq(STRING)
      OBVIOUS
    <3>3. up[n + 1] = up[n] \o parts[n + 1]
      BY <1>4, <3>2
    <3> DEFINE next == up[n + 1]
    <3>4. next = up[n] \o parts[n + 1]
      BY <3>3
    <3> HIDE DEF next
    <3>5. /\ Len(next) = Len(up[n]) + Len(parts[n + 1])
          /\ \A i \in 1 .. Len(up[n]) : next[i] = up[n][i]
      BY <3>1, <3>2, <3>4, Appended
    <3> DEFINE a == up[k]
               b == up[n]
    <3>6. /\ a \in Seq(STRING) /\ b \in Seq(STRING) /\ Len(a) <= Len(b)
          /\ \A i \in 1 .. Len(a) : b[i] = a[i]
      BY <3>1
    <3>7. /\ Len(next) = Len(b) + Len(parts[n + 1])
          /\ \A i \in 1 .. Len(b) : next[i] = b[i]
      BY <3>5
    <3> HIDE DEF a, b
    <3>8. Len(a) <= Len(next) /\ \A i \in 1 .. Len(a) : next[i] = a[i]
      BY <3>2, <3>6, <3>7
    <3> QED
      BY <3>8 DEF next, a
  <2> QED
    BY <2>1, <2>2
<1>3. Nat \subseteq S
  <2> HIDE DEF S
  <2> QED
    BY <1>1, <1>2, SetInduction
<1>5. \A n \in k .. Len(parts) : n \in S
  <2> HIDE DEF S
  <2> QED
    BY <1>3
<1> QED
  BY <1>5 DEF up

\* What is left of the arguments after k parts.
Left(parts, k) ==
    SubSeq(Joined(parts), Len(Upto(parts)[k]) + 1, Len(Joined(parts)))

\* What is left behind a part, and how it begins.
LEMMA LeftAll ==
    ASSUME NEW parts \in Seq(Seq(STRING)), NEW k \in 0 .. Len(parts)
    PROVE  /\ Joined(parts) \in Seq(STRING)
           /\ Left(parts, k) \in Seq(STRING)
           /\ Left(parts, Len(parts)) = <<>>
           /\ Left(parts, 0) = Joined(parts)
           /\ k < Len(parts) =>
                /\ Len(Left(parts, k)) = Len(parts[k + 1]) + Len(Left(parts, k + 1))
                /\ \A i \in 1 .. Len(parts[k + 1]) : Left(parts, k)[i] = parts[k + 1][i]
                /\ \A i \in 1 .. Len(Left(parts, k + 1)) :
                      Left(parts, k)[Len(parts[k + 1]) + i] = Left(parts, k + 1)[i]
                /\ SubSeq(Left(parts, k), Len(parts[k + 1]) + 1, Len(Left(parts, k)))
                     = Left(parts, k + 1)
<1> DEFINE up == Upto(parts)
           all == Joined(parts)
           len == Len(parts)
<1>1. /\ len \in Nat /\ all = up[len]
      /\ \A n \in 0 .. len : up[n] \in Seq(STRING)
  BY JoinedIsUpto, UptoType
<1>2. ASSUME NEW n \in 0 .. len
      PROVE  /\ Len(up[n]) <= Len(all)
             /\ \A i \in 1 .. Len(up[n]) : all[i] = up[n][i]
  <2>1. len \in n .. len
    BY <1>1
  <2> QED
    BY <1>1, <2>1, UptoPrefix
<1>3. /\ \A n \in 0 .. len : Left(parts, n) = SubSeq(all, Len(up[n]) + 1, Len(all))
      /\ up[0] = <<>>
      /\ \A n \in 0 .. len - 1 : up[n + 1] = up[n] \o parts[n + 1]
  BY UptoStep DEF Left
<1> HIDE DEF up, all
<1>4. all \in Seq(STRING)
  BY <1>1
<1>5. ASSUME NEW n \in 0 .. len
      PROVE  /\ Left(parts, n) \in Seq(STRING)
             /\ Len(Left(parts, n)) = Len(all) - Len(up[n])
             /\ \A i \in 1 .. Len(all) - Len(up[n]) : Left(parts, n)[i] = all[Len(up[n]) + i]
  <2> DEFINE u == up[n]
  <2>1. u \in Seq(STRING) /\ Len(u) <= Len(all)
        /\ Left(parts, n) = SubSeq(all, Len(u) + 1, Len(all))
    BY <1>1, <1>2, <1>3
  <2> HIDE DEF u
  <2>2. /\ Left(parts, n) \in Seq(STRING)
        /\ Len(Left(parts, n)) = Len(all) - Len(u)
        /\ \A i \in 1 .. Len(all) - Len(u) : Left(parts, n)[i] = all[Len(u) + i]
    BY <1>4, <2>1
  <2> QED
    BY <2>2 DEF u
<1>6. Left(parts, len) = <<>>
  <2>1. Left(parts, len) \in Seq(STRING) /\ Len(Left(parts, len)) = 0
    BY <1>1, <1>4, <1>5
  <2> QED
    BY <2>1
<1>7. Left(parts, 0) = all
  <2>1. 0 \in 0 .. len /\ Len(up[0]) + 1 = 1
    BY <1>1, <1>3
  <2>2. Left(parts, 0) = SubSeq(all, Len(up[0]) + 1, Len(all))
    BY <1>3, <2>1
  <2>3. Left(parts, 0) = SubSeq(all, 1, Len(all))
    BY <2>1, <2>2
  <2> QED
    BY <1>4, <2>3
<1>8. ASSUME k < len
      PROVE  /\ Len(Left(parts, k)) = Len(parts[k + 1]) + Len(Left(parts, k + 1))
             /\ \A i \in 1 .. Len(parts[k + 1]) : Left(parts, k)[i] = parts[k + 1][i]
             /\ \A i \in 1 .. Len(Left(parts, k + 1)) :
                   Left(parts, k)[Len(parts[k + 1]) + i] = Left(parts, k + 1)[i]
             /\ SubSeq(Left(parts, k), Len(parts[k + 1]) + 1, Len(Left(parts, k)))
                  = Left(parts, k + 1)
  <2> DEFINE m == k + 1
             p == parts[m]
             a == Left(parts, k)
             b == Left(parts, m)
             u == up[k]
             v == up[m]
  <2>1. m \in 0 .. len /\ k \in 0 .. len - 1 /\ k \in 0 .. len
    BY <1>1, <1>8
  <2>2. v = u \o p /\ p \in Seq(STRING) /\ u \in Seq(STRING)
    <3>1. v = u \o p
      BY <1>3, <2>1
    <3>2. m \in 1 .. len
      BY <1>1, <1>8
    <3>3. p \in Seq(STRING)
      BY <3>2
    <3> QED
      BY <1>1, <2>1, <3>1, <3>3
  <2> HIDE DEF m
  <2>3. /\ v \in Seq(STRING)
        /\ Len(v) <= Len(all)
        /\ \A i \in 1 .. Len(v) : all[i] = v[i]
    BY <1>1, <1>2, <2>1
  <2>4. /\ a \in Seq(STRING) /\ b \in Seq(STRING)
        /\ Len(a) = Len(all) - Len(u) /\ Len(b) = Len(all) - Len(v)
        /\ \A i \in 1 .. Len(all) - Len(u) : a[i] = all[Len(u) + i]
        /\ \A i \in 1 .. Len(all) - Len(v) : b[i] = all[Len(v) + i]
    BY <1>5, <2>1
  <2> HIDE DEF p, a, b, u, v
  <2>5. Len(v) = Len(u) + Len(p) /\ \A i \in 1 .. Len(p) : v[Len(u) + i] = p[i]
    BY <2>2
  <2>6. Len(a) = Len(p) + Len(b)
    BY <1>4, <2>2, <2>3, <2>4, <2>5
  <2>7. ASSUME NEW i \in 1 .. Len(p) PROVE a[i] = p[i]
    <3> DEFINE j == Len(u) + i
    <3>1. j \in 1 .. Len(v) /\ i \in 1 .. Len(all) - Len(u)
      BY <1>4, <2>2, <2>3, <2>5
    <3>2. a[i] = all[j] /\ v[j] = p[i]
      BY <2>4, <2>5, <3>1
    <3> HIDE DEF j
    <3>3. all[j] = v[j]
      BY <2>3, <3>1
    <3> QED
      BY <3>2, <3>3
  <2>8. ASSUME NEW i \in 1 .. Len(b) PROVE a[Len(p) + i] = b[i]
    <3> DEFINE j == Len(p) + i
    <3>1. /\ j \in 1 .. Len(all) - Len(u) /\ i \in 1 .. Len(all) - Len(v)
          /\ Len(u) + j = Len(v) + i
      BY <1>4, <2>2, <2>3, <2>4, <2>5
    <3> HIDE DEF j
    <3>2. a[j] = all[Len(u) + j] /\ b[i] = all[Len(v) + i]
      BY <2>4, <3>1
    <3> QED
      BY <3>1, <3>2 DEF j
  <2>9. SubSeq(a, Len(p) + 1, Len(a)) = b
    <3>1. /\ SubSeq(a, Len(p) + 1, Len(a)) \in Seq(STRING)
          /\ Len(SubSeq(a, Len(p) + 1, Len(a))) = Len(b)
          /\ \A i \in 1 .. Len(b) : SubSeq(a, Len(p) + 1, Len(a))[i] = a[Len(p) + i]
      <4>1. Len(p) \in 0 .. Len(a) /\ Len(a) - Len(p) = Len(b)
        BY <2>2, <2>4, <2>6
      <4> QED
        BY <2>4, <4>1, Dropped
    <3> QED
      BY <2>4, <2>8, <3>1
  <2> QED
    BY <2>6, <2>7, <2>8, <2>9 DEF a, b, p, m
<1> QED
  BY <1>4, <1>5, <1>6, <1>7, <1>8 DEF all

\* Before the first part all arguments are left, after the last none.
LEMMA LeftEnds ==
    ASSUME NEW parts \in Seq(Seq(STRING))
    PROVE  /\ Joined(parts) \in Seq(STRING)
           /\ Left(parts, Len(parts)) = <<>>
           /\ Left(parts, 0) = Joined(parts)
<1>1. 0 \in 0 .. Len(parts)
  OBVIOUS
<1> QED
  BY <1>1, LeftAll

\* What is left is a sequence of arguments.
LEMMA LeftType ==
    ASSUME NEW parts \in Seq(Seq(STRING)), NEW k \in 0 .. Len(parts)
    PROVE  Left(parts, k) \in Seq(STRING)
BY LeftAll

\* What is left begins with the next part.
LEMMA LeftBegins ==
    ASSUME NEW parts \in Seq(Seq(STRING)), NEW k \in 0 .. Len(parts),
           NEW m \in 0 .. Len(parts), m = k + 1
    PROVE  /\ Len(Left(parts, k)) = Len(parts[m]) + Len(Left(parts, m))
           /\ \A i \in 1 .. Len(parts[m]) : Left(parts, k)[i] = parts[m][i]
           /\ \A i \in 1 .. Len(Left(parts, m)) :
                 Left(parts, k)[Len(parts[m]) + i] = Left(parts, m)[i]
           /\ SubSeq(Left(parts, k), Len(parts[m]) + 1, Len(Left(parts, k))) = Left(parts, m)
<1>1. k < Len(parts)
  OBVIOUS
<1> QED
  BY <1>1, LeftAll

-----------------------------------------------------------------------------
(* What the parts of a line say of its arguments.                           *)

\* Parts of one argument each are the arguments.
LEMMA Singles ==
    ASSUME NEW parts \in Seq(Seq(STRING)), \A k \in DOMAIN parts : Len(parts[k]) = 1
    PROVE  /\ Len(Joined(parts)) = Len(parts)
           /\ \A k \in 1 .. Len(parts) : Joined(parts)[k] = parts[k][1]
<1> DEFINE up == Upto(parts)
           len == Len(parts)
           Single(s, n) == Len(s) = n /\ \A k \in 1 .. n : s[k] = parts[k][1]
           S == {n \in Nat : n <= len => Single(up[n], n)}
<1>0. /\ up[0] = <<>> /\ \A n \in 0 .. len - 1 : up[n + 1] = up[n] \o parts[n + 1]
      /\ \A n \in 0 .. len : up[n] \in Seq(STRING)
      /\ Joined(parts) = up[len] /\ len \in Nat
  <2>1. up[0] = <<>> /\ \A n \in 0 .. len - 1 : up[n + 1] = up[n] \o parts[n + 1]
    BY UptoStep
  <2>2. \A n \in 0 .. len : up[n] \in Seq(STRING)
    BY UptoType
  <2>3. Joined(parts) = up[len] /\ len \in Nat
    BY JoinedIsUpto
  <2> QED
    BY <2>1, <2>2, <2>3
<1> HIDE DEF up
<1>1. 0 \in S
  BY <1>0
<1>2. ASSUME NEW n \in Nat, n \in S PROVE n + 1 \in S
  <2> SUFFICES ASSUME n + 1 <= len PROVE Single(up[n + 1], n + 1)
    OBVIOUS
  <2> DEFINE s == up[n]
             m == n + 1
             t == parts[m]
             next == up[m]
  <2>1. n \in 0 .. len - 1 /\ m \in 1 .. len /\ n \in 0 .. len
    BY <1>0
  <2>2. s \in Seq(STRING) /\ Single(s, n) /\ next = s \o t
    <3>1. Single(s, n)
      BY <1>2, <2>1
    <3>2. next = s \o t
      BY <1>0, <2>1
    <3> QED
      BY <1>0, <2>1, <3>1, <3>2
  <2>3. m = n + 1
    OBVIOUS
  <2> HIDE DEF m
  <2>4. t \in Seq(STRING) /\ Len(t) = 1
    BY <2>1
  <2> HIDE DEF s, t, next
  <2>5. /\ Len(next) = n + 1
        /\ \A i \in 1 .. n : next[i] = s[i]
        /\ next[n + 1] = t[1]
    <3>0. s \in Seq(STRING) /\ t \in Seq(STRING) /\ next = s \o t
      BY <2>2, <2>4
    <3>1. /\ Len(next) = Len(s) + Len(t)
          /\ \A i \in 1 .. Len(s) : next[i] = s[i]
          /\ \A i \in 1 .. Len(t) : next[Len(s) + i] = t[i]
      BY <3>0, Appended
    <3>2. Len(s) = n /\ 1 \in 1 .. Len(t)
      BY <2>2, <2>4
    <3> QED
      BY <2>4, <3>1, <3>2
  <2>6. ASSUME NEW i \in 1 .. m PROVE next[i] = parts[i][1]
    <3>1. CASE i = m
      BY <2>3, <2>5, <3>1 DEF t
    <3>2. CASE i # m
      <4>1. i \in 1 .. n
        BY <2>3, <3>2
      <4> QED
        BY <2>2, <2>5, <4>1
    <3> QED
      BY <3>1, <3>2
  <2>7. Single(next, m)
    BY <2>3, <2>5, <2>6
  <2> QED
    BY <2>7 DEF next, m
<1>3. len \in S
  <2> HIDE DEF S, len
  <2> QED
    BY <1>0, <1>1, <1>2, SetInduction
<1> QED
  BY <1>0, <1>3

\* The commands that take their arguments one by one refuse what the usage text
\* does not allow.
LEMMA RefusalsAsUsage ==
    ASSUME NEW line \in Lines, at = line.command, argv = Joined(line.parts), Opening
    PROVE  /\ Refusals = {} <=> Acceptable(line)
           /\ Refusals \subseteq ArgumentErrors
<1> DEFINE p == line.parts
<1>1. p \in Seq(Seq(STRING)) /\ Parted(line)
  BY LinesAssumption, PartsAssumption
<1>2. line.command # "create" /\ at \in {"list", "delete", "read", "insert"}
  BY DEF Opening, Called
<1>3. \A k \in DOMAIN p : Len(p[k]) = 1
  BY <1>1, <1>2 DEF Parted
<1>4. Len(argv) = Len(p) /\ \A k \in 1 .. Len(p) : argv[k] = p[k][1]
  BY <1>1, <1>3, Singles
<1>5. Len(p) \in Nat
  BY <1>1
<1> HIDE DEF p
<1>6. /\ Len(p) >= 2 => argv[2] = p[2][1]
      /\ Len(p) >= 3 => argv[3] = p[3][1]
  BY <1>4, <1>5
<1>7. CASE at = "list"
  <2>1. Acceptable(line) <=> Len(p) = 1
    BY <1>7 DEF Acceptable, p
  <2>2. CASE Acceptable(line)
    <3>1. Refusals = {}
      BY <1>4, <1>5, <1>7, <2>1, <2>2 DEF Refusals
    <3> QED
      BY <2>2, <3>1
  <2>3. CASE ~Acceptable(line)
    <3>1. \E err \in {"INVALID_ARGUMENT", "INVALID_COMMAND"} : Refusals = {err}
      BY <1>4, <1>5, <1>7, <2>1, <2>3 DEF Refusals
    <3> QED
      BY <2>3, <3>1 DEF ArgumentErrors
  <2> QED
    BY <2>2, <2>3
<1>8. CASE at = "delete"
  <2> DEFINE name == p[2][1]
             bad == {"", "too long"}
  <2>1. Acceptable(line) <=> Len(p) >= 2 /\ name \notin bad
    BY <1>8 DEF Acceptable, p
  <2>2. Refusals = IF Len(argv) < 2 THEN {"NOT_ENOUGH_ARGUMENTS"}
                   ELSE IF argv[2] \in bad THEN {"INVALID_IMGID"} ELSE {}
    BY <1>8 DEF Refusals
  <2>3. Len(argv) >= 2 => argv[2] = name
    BY <1>4, <1>6
  <2>4. "NOT_ENOUGH_ARGUMENTS" \in ArgumentErrors /\ "INVALID_IMGID" \in ArgumentErrors
    BY DEF ArgumentErrors
  <2> HIDE DEF bad, name
  <2>5. CASE Len(p) < 2
    BY <1>4, <1>5, <2>1, <2>2, <2>4, <2>5
  <2>6. CASE Len(p) >= 2
    <3>1. Refusals = IF name \in bad THEN {"INVALID_IMGID"} ELSE {}
      BY <1>4, <1>5, <2>2, <2>3, <2>6
    <3> QED
      BY <2>1, <2>4, <2>6, <3>1
  <2> QED
    BY <1>5, <2>5, <2>6
<1>9. CASE at = "read"
  <2>1. Acceptable(line) <=> Len(p) = 2 \/ (Len(p) = 3 /\ p[3][1] \in RES)
    BY <1>9 DEF Acceptable, p
  <2>2. CASE Acceptable(line)
    <3>1. Refusals = {}
      BY <1>4, <1>5, <1>6, <1>9, <2>1, <2>2 DEF Refusals
    <3> QED
      BY <2>2, <3>1
  <2>3. CASE ~Acceptable(line)
    <3>1. \E err \in {"NOT_ENOUGH_ARGUMENTS", "RESOLUTIONS"} : Refusals = {err}
      BY <1>4, <1>5, <1>6, <1>9, <2>1, <2>3 DEF Refusals
    <3> QED
      BY <2>3, <3>1 DEF ArgumentErrors
  <2> QED
    BY <2>2, <2>3
<1>10. CASE at = "insert"
  <2>1. Acceptable(line) <=> Len(p) = 3
    BY <1>10 DEF Acceptable, p
  <2>2. CASE Acceptable(line)
    <3>1. Refusals = {}
      BY <1>4, <1>5, <1>10, <2>1, <2>2 DEF Refusals
    <3> QED
      BY <2>2, <3>1
  <2>3. CASE ~Acceptable(line)
    <3>1. \E err \in {"NOT_ENOUGH_ARGUMENTS"} : Refusals = {err}
      BY <1>4, <1>5, <1>10, <2>1, <2>3 DEF Refusals
    <3> QED
      BY <2>3, <3>1 DEF ArgumentErrors
  <2> QED
    BY <2>2, <2>3
<1> QED
  BY <1>2, <1>7, <1>8, <1>9, <1>10

\* The second argument of a line that is no create is its second part.
LEMMA SecondArgument ==
    ASSUME NEW line \in Lines, line.command # "create", argv = Joined(line.parts),
           Len(argv) >= 2
    PROVE  argv[2] = line.parts[2][1]
<1>1. line.parts \in Seq(Seq(STRING)) /\ \A k \in DOMAIN line.parts : Len(line.parts[k]) = 1
  BY LinesAssumption, PartsAssumption DEF Parted
<1>2. /\ Len(argv) = Len(line.parts)
      /\ \A k \in 1 .. Len(line.parts) : argv[k] = line.parts[k][1]
  BY <1>1, Singles
<1>3. 2 \in 1 .. Len(line.parts)
  BY <1>1, <1>2
<1> QED
  BY <1>2, <1>3

-----------------------------------------------------------------------------
(* The loop over the options.                                               *)

LastUpto(line, option, values, default, n) ==
    LET given == {k \in 2 .. n : line.parts[k][1] = option}
    IN IF given = {} THEN default
       ELSE values[CHOOSE k \in given : \A j \in given : j <= k]

\* What the first n parts of a create ask for.
WantedUpto(line, n) ==
    LET p == line.parts
        one == [k \in DOMAIN p |-> Numeral[p[k][2]]]
        two == [k \in DOMAIN p |-> <<Numeral[p[k][2]], Numeral[p[k][3]]>>]
    IN [max_files |-> LastUpto(line, "-max_files", one, Default.max_files, n),
        thumb |-> LastUpto(line, "-thumb_res", two, Default.thumb, n),
        small |-> LastUpto(line, "-small_res", two, Default.small, n)]

\* What a line wants is what all its parts want.
LEMMA WantedWhole == \A line : Wanted(line) = WantedUpto(line, Len(line.parts))
BY DEF Wanted, WantedUpto, Last, LastUpto

\* The name of the file asks for no header field.
LEMMA WantedNone == \A line : WantedUpto(line, 1) = Default
BY DEF WantedUpto, LastUpto, Default

\* The last value of an option is the one that counts.
LEMMA LastStep ==
    ASSUME NEW line, NEW option, NEW values, NEW default,
           NEW n \in Nat \ {0}, NEW m \in Nat, m = n + 1
    PROVE  LastUpto(line, option, values, default, m) =
              IF line.parts[m][1] = option THEN values[m]
              ELSE LastUpto(line, option, values, default, n)
<1> DEFINE Given(k) == {j \in 2 .. k : line.parts[j][1] = option}
           Of(given) == IF given = {} THEN default
                        ELSE values[CHOOSE k \in given : \A j \in given : j <= k]
<1>1. /\ m \in 2 .. m /\ \A k \in 2 .. m : k <= m /\ (k = m \/ k \in 2 .. n)
      /\ \A k \in 2 .. n : k \in 2 .. m
  OBVIOUS
<1>2. \A k : LastUpto(line, option, values, default, k) = Of(Given(k))
  BY DEF LastUpto
<1>3. CASE line.parts[m][1] = option
  <2>1. m \in Given(m) /\ \A k \in Given(m) : k <= m /\ k \in Nat
    BY <1>1, <1>3
  <2>2. (CHOOSE k \in Given(m) : \A j \in Given(m) : j <= k) = m
    <3> HIDE DEF Given
    <3>1. \A k \in Given(m) : (\A j \in Given(m) : j <= k) => k = m
      BY <2>1
    <3> QED
      BY <2>1, <3>1
  <2>3. Given(m) # {}
    BY <2>1
  <2> HIDE DEF Given
  <2>4. Of(Given(m)) = values[m]
    BY <2>2, <2>3
  <2> HIDE DEF Of
  <2> QED
    BY <1>2, <1>3, <2>4
<1>4. CASE line.parts[m][1] # option
  <2>1. Given(m) = Given(n)
    BY <1>1, <1>4
  <2> HIDE DEF Given, Of
  <2> QED
    BY <1>2, <1>4, <2>1
<1> QED
  BY <1>3, <1>4

\* One option more changes the field it names, and no other.
LEMMA WantedStep ==
    ASSUME NEW line, NEW n \in Nat \ {0}, NEW m \in DOMAIN line.parts, m = n + 1
    PROVE  LET q == line.parts[m] IN
           /\ q[1] = "-max_files" =>
                WantedUpto(line, m) =
                   [WantedUpto(line, n) EXCEPT !.max_files = Numeral[q[2]]]
           /\ q[1] = "-thumb_res" =>
                WantedUpto(line, m) =
                   [WantedUpto(line, n) EXCEPT !.thumb = <<Numeral[q[2]], Numeral[q[3]]>>]
           /\ q[1] = "-small_res" =>
                WantedUpto(line, m) =
                   [WantedUpto(line, n) EXCEPT !.small = <<Numeral[q[2]], Numeral[q[3]]>>]
<1> DEFINE p == line.parts
           q == p[m]
           one == [k \in DOMAIN p |-> Numeral[p[k][2]]]
           two == [k \in DOMAIN p |-> <<Numeral[p[k][2]], Numeral[p[k][3]]>>]
           Files(k) == LastUpto(line, "-max_files", one, Default.max_files, k)
           Thumbs(k) == LastUpto(line, "-thumb_res", two, Default.thumb, k)
           Smalls(k) == LastUpto(line, "-small_res", two, Default.small, k)
           At(k) == [max_files |-> Files(k), thumb |-> Thumbs(k), small |-> Smalls(k)]
<1>1. WantedUpto(line, n) = At(n) /\ WantedUpto(line, m) = At(m)
  BY DEF WantedUpto
<1>2. one[m] = Numeral[q[2]] /\ two[m] = <<Numeral[q[2]], Numeral[q[3]]>>
  OBVIOUS
<1>0. m \in Nat
  OBVIOUS
<1> HIDE DEF one, two
<1>3. Files(m) = IF q[1] = "-max_files" THEN one[m] ELSE Files(n)
  BY <1>0, LastStep
<1>4. Thumbs(m) = IF q[1] = "-thumb_res" THEN two[m] ELSE Thumbs(n)
  BY <1>0, LastStep
<1>5. Smalls(m) = IF q[1] = "-small_res" THEN two[m] ELSE Smalls(n)
  BY <1>0, LastStep
<1> HIDE DEF q, Files, Thumbs, Smalls
<1>6. /\ q[1] = "-max_files" => At(m) = [At(n) EXCEPT !.max_files = Numeral[q[2]]]
      /\ q[1] = "-thumb_res" =>
           At(m) = [At(n) EXCEPT !.thumb = <<Numeral[q[2]], Numeral[q[3]]>>]
      /\ q[1] = "-small_res" =>
           At(m) = [At(n) EXCEPT !.small = <<Numeral[q[2]], Numeral[q[3]]>>]
  BY <1>2, <1>3, <1>4, <1>5
<1> QED
  BY <1>1, <1>6 DEF q

\* What the loop finds: the next part, and behind an option that lacks a value
\* nothing, or no number.
LEMMA NextPart ==
    ASSUME NEW line \in Lines, line.command = "create",
           NEW k \in 1 .. Len(line.parts), argv = Left(line.parts, k), argv # <<>>
    PROVE  LET q == line.parts[k + 1] IN
           /\ k + 1 \in 2 .. Len(line.parts)
           /\ q \in Seq(STRING) /\ Len(q) >= 1 /\ Len(argv) >= Len(q)
           /\ argv \in Seq(STRING)
           /\ \A i \in 1 .. Len(q) : argv[i] = q[i]
           /\ q[1] = "-max_files" => Len(q) <= 2
           /\ q[1] \in {"-thumb_res", "-small_res"} => Len(q) <= 3
           /\ Incomplete(q) /\ Len(argv) > Len(q) => argv[Len(q) + 1] \notin DOMAIN Numeral
           /\ SubSeq(argv, Len(q) + 1, Len(argv)) = Left(line.parts, k + 1)
<1> DEFINE p == line.parts
           m == k + 1
           q == p[m]
           b == Left(p, m)
<1>1. p \in Seq(Seq(STRING)) /\ Parted(line)
  BY LinesAssumption, PartsAssumption
<1>2. k # Len(p) /\ k \in 0 .. Len(p) /\ Len(p) \in Nat
  <2>1. Left(p, Len(p)) = <<>>
    BY <1>1, LeftEnds
  <2> QED
    BY <1>1, <2>1
<1>3. m = k + 1 /\ m \in 2 .. Len(p) /\ m \in 0 .. Len(p) /\ m \in 1 .. Len(p) /\ k < Len(p)
  BY <1>2
<1> HIDE DEF m
<1>5. q \in Seq(STRING) /\ b \in Seq(STRING)
  BY <1>1, <1>3, LeftType
<1>4. /\ argv \in Seq(STRING)
      /\ Len(argv) = Len(q) + Len(b)
      /\ \A i \in 1 .. Len(q) : argv[i] = q[i]
      /\ \A i \in 1 .. Len(b) : argv[Len(q) + i] = b[i]
      /\ SubSeq(argv, Len(q) + 1, Len(argv)) = b
  BY <1>1, <1>2, <1>3, LeftType, LeftBegins
<1>6. /\ q # <<>>
      /\ q[1] = "-max_files" => Len(q) <= 2
      /\ q[1] \in {"-thumb_res", "-small_res"} => Len(q) <= 3
      /\ Incomplete(q) /\ m < Len(p) => p[m + 1][1] \notin DOMAIN Numeral
  BY <1>1, <1>3 DEF Parted
<1>7. ASSUME Incomplete(q), Len(b) > 0 PROVE b[1] \notin DOMAIN Numeral
  <2>1. b # <<>>
    BY <1>5, <1>7
  <2>2. m < Len(p)
    <3>1. CASE m = Len(p)
      BY <1>1, <2>1, <3>1, LeftEnds
    <3> QED
      BY <1>3, <3>1
  <2> DEFINE n == m + 1
  <2>3. n = m + 1 /\ n \in 2 .. Len(p)
    BY <1>2, <1>3, <2>2
  <2>4. \A i \in 1 .. Len(p[n]) : b[i] = p[n][i]
    <3>1. n \in 0 .. Len(p)
      BY <2>3
    <3> HIDE DEF n
    <3> QED
      BY <1>1, <1>3, <2>3, <3>1, LeftBegins
  <2> HIDE DEF n
  <2>5. p[n] \in Seq(STRING) /\ p[n] # <<>>
    BY <1>1, <2>3 DEF Parted
  <2>6. b[1] = p[n][1]
    BY <2>4, <2>5
  <2> QED
    BY <1>6, <1>7, <2>2, <2>3, <2>6
<1> HIDE DEF q, b
<1>8. Incomplete(q) /\ Len(argv) > Len(q) => argv[Len(q) + 1] \notin DOMAIN Numeral
  <2> SUFFICES ASSUME Incomplete(q), Len(argv) > Len(q)
               PROVE  argv[Len(q) + 1] \notin DOMAIN Numeral
    OBVIOUS
  <2>1. Len(b) > 0 /\ 1 \in 1 .. Len(b)
    <3>1. Len(q) \in Nat /\ Len(b) \in Nat
      BY <1>5
    <3> QED
      BY <1>4, <3>1
  <2> QED
    BY <1>4, <1>7, <2>1
<1>9. Len(q) >= 1 /\ Len(argv) >= Len(q)
  <2>1. Len(q) \in Nat /\ Len(b) \in Nat /\ Len(q) # 0
    BY <1>5, <1>6
  <2> QED
    BY <1>4, <2>1
<1> QED
  BY <1>3, <1>4, <1>5, <1>6, <1>8, <1>9 DEF m, q, b

-----------------------------------------------------------------------------
(* The loop over the options, part by part.                                 *)

\* The lengths an option with one or two values may have.
LEMMA SmallLength ==
    ASSUME NEW q \in Seq(STRING), Len(q) >= 1
    PROVE  /\ Len(q) <= 2 => Len(q) = 1 \/ Len(q) = 2
           /\ Len(q) <= 3 => Len(q) = 1 \/ Len(q) = 2 \/ Len(q) = 3
<1> DEFINE n == Len(q)
<1>1. n \in Nat /\ n >= 1
  OBVIOUS
<1> HIDE DEF n
<1>2. /\ n <= 2 => n = 1 \/ n = 2
      /\ n <= 3 => n = 1 \/ n = 2 \/ n = 3
  BY <1>1
<1> QED
  BY <1>2 DEF n

\* No argument is left only behind the last part.
LEMMA LoopEnds ==
    ASSUME NEW line \in Lines, line.command = "create",
           NEW k \in 1 .. Len(line.parts), Left(line.parts, k) = <<>>
    PROVE  k = Len(line.parts)
<1> DEFINE p == line.parts
           m == k + 1
<1>1. p \in Seq(Seq(STRING)) /\ Parted(line)
  BY LinesAssumption, PartsAssumption
<1> SUFFICES ASSUME k # Len(p) PROVE FALSE
  OBVIOUS
<1>2. m = k + 1 /\ m \in 2 .. Len(p) /\ m \in 0 .. Len(p) /\ k \in 0 .. Len(p)
  BY <1>1
<1> HIDE DEF m
<1>3. Len(<<>>) = Len(p[m]) + Len(Left(p, m))
  BY <1>1, <1>2, LeftBegins
<1>4. p[m] \in Seq(STRING) /\ p[m] # <<>> /\ Left(p, m) \in Seq(STRING)
  BY <1>1, <1>2, LeftType DEF Parted
<1> DEFINE a == p[m]
           b == Left(p, m)
<1>5. Len(a) \in Nat /\ Len(b) \in Nat /\ Len(a) # 0
  BY <1>4
<1>6. Len(<<>>) = 0
  OBVIOUS
<1>7. Len(a) + Len(b) = 0
  BY <1>3, <1>6
<1> DEFINE u == Len(a)
           v == Len(b)
<1>8. u \in Nat /\ v \in Nat /\ u # 0 /\ u + v = 0
  BY <1>5, <1>7
<1> HIDE DEF u, v
<1> QED
  BY <1>8

\* When the usage text allows a create.
LEMMA AcceptableCreate ==
    ASSUME NEW line, line.command = "create"
    PROVE  Acceptable(line) <=> /\ line.parts # <<>>
                                /\ \A k \in 2 .. Len(line.parts) : OptionAcceptable(line.parts[k])
BY DEF Acceptable

\* Values that are accepted are those that the conversion lets through.
LEMMA ValueIsUnsigned ==
    ASSUME NEW token, NEW width \in Nat, NEW max \in Nat, max < width
    PROVE  /\ Value(token, max) <=> Unsigned(token, width) \in 1 .. max
           /\ Value(token, max) => Unsigned(token, width) = Numeral[token]
BY NumeralAssumption DEF Value, Unsigned

-----------------------------------------------------------------------------
(* The command as the usage text has it.                                    *)

Commands == {"nothing", "unknown", "help", "create", "list", "delete", "read", "insert"}

Waiting ==
    at \in Commands =>
        /\ typed \in Lines /\ at = typed.command
        /\ argv = Joined(typed.parts) /\ newfile = Default

\* The options taken so far are acceptable, and are what the header has.
InOptions ==
    at = "options" =>
        /\ typed \in Lines /\ typed.command = "create"
        /\ \E k \in 1 .. Len(typed.parts) :
              /\ argv = Left(typed.parts, k)
              /\ \A j \in 2 .. k : OptionAcceptable(typed.parts[j])
              /\ newfile = WantedUpto(typed, k)

Caller == [do_list |-> "list", do_delete |-> "delete", do_read |-> "read",
           write |-> "read", read_disk_image |-> "insert", do_insert |-> "insert"]

InCall ==
    at \in DOMAIN Caller =>
        /\ typed \in Lines /\ Acceptable(typed) /\ typed.command = Caller[at]
        /\ argv = Joined(typed.parts)

Answered ==
    at = "idle" =>
        /\ newfile = Default
        /\ typed # NoLine =>
             /\ typed \in Lines
             /\ code \in ArgumentErrors <=> ~Acceptable(typed)
             /\ typed.command = "create" /\ code = "NONE" => imgfs = Formed(Wanted(typed), {})

Asked == Waiting /\ InOptions /\ InCall /\ Answered

\* The invariant says of a command that has ended what the runs check.
LEMMA AskedEnough == Asked => AsUsage /\ CreatedAsAsked
BY DEF Asked, Answered, AsUsage, CreatedAsAsked, Ended

\* No command has started.
LEMMA AskedInit == Init => Asked
BY DEF Init, Asked, Waiting, InOptions, InCall, Answered, Commands, Caller

\* A command ends, with the answer the usage text has for its line.
LEMMA ExitAsked ==
    ASSUME NEW err, Exit(err), typed \in Lines,
           err \in ArgumentErrors <=> ~Acceptable(typed),
           typed.command = "create" /\ err = "NONE" => imgfs' = Formed(Wanted(typed), {})
    PROVE  Asked'
<1>1. at' = "idle" /\ code' = err /\ newfile' = Default /\ typed' = typed
  BY DEF Exit
<1>2. Acceptable(typed)' = Acceptable(typed) /\ Wanted(typed)' = Wanted(typed)
  BY <1>1
<1>3. Answered'
  BY <1>1, <1>2 DEF Answered
<1> QED
  BY <1>1, <1>3 DEF Asked, Waiting, InOptions, InCall, Commands, Caller

\* A process starts with all its arguments ahead of it.
LEMMA StartAsked == ASSUME NEW line \in Lines, Asked, Start(line) PROVE Asked'
<1>1. /\ at' = line.command /\ typed' = line /\ argv' = Joined(line.parts)
      /\ line.command \in Commands /\ newfile' = Default
  BY LinesAssumption DEF Start, Commands, Asked, Answered
<1>2. at' \notin {"idle", "options"} /\ at' \notin DOMAIN Caller
  BY <1>1 DEF Commands, Caller
<1>3. Waiting'
  BY <1>1 DEF Waiting
<1> QED
  BY <1>2, <1>3 DEF Asked, InOptions, InCall, Answered

\* main answers without a command.
LEMMA MainEndsAsked == ASSUME Asked, MainEnds PROVE Asked'
<1>1. /\ at \in {"nothing", "unknown", "help"} /\ typed \in Lines /\ at = typed.command
  BY DEF MainEnds, Asked, Waiting, Commands
<1>2. Acceptable(typed) <=> at = "help"
  BY <1>1 DEF Acceptable
<1>3. PICK err \in {"NOT_ENOUGH_ARGUMENTS", "INVALID_COMMAND", "NONE"} :
        Refuse(err) /\ (err = "NONE" <=> at = "help")
  BY DEF MainEnds
<1>4. Exit(err) /\ (err \in ArgumentErrors <=> ~Acceptable(typed)) /\ typed.command # "create"
  BY <1>1, <1>2, <1>3 DEF Refuse, ArgumentErrors
<1> QED
  BY <1>1, <1>4, ExitAsked

\* A create that is refused: one of its options is not acceptable.
LEMMA RefuseCreate ==
    ASSUME NEW err \in ArgumentErrors, Refuse(err), typed \in Lines, typed.command = "create",
           NEW k \in 2 .. Len(typed.parts), ~OptionAcceptable(typed.parts[k])
    PROVE  Asked'
<1>1. ~Acceptable(typed)
  BY AcceptableCreate
<1>2. Exit(err) /\ err # "NONE"
  BY DEF Refuse, ArgumentErrors
<1> QED
  BY <1>1, <1>2, ExitAsked

\* do_create_cmd takes the name of the file first.
LEMMA CreateStartsAsked == ASSUME Asked, CreateStarts PROVE Asked'
<1> DEFINE p == typed.parts
<1>1. /\ at = "create" /\ typed \in Lines /\ typed.command = "create"
      /\ argv = Joined(p) /\ newfile = Default
  BY DEF CreateStarts, Asked, Waiting, Commands
<1>2. p \in Seq(Seq(STRING)) /\ (p # <<>> => Len(p[1]) = 1)
  BY <1>1, LinesAssumption, PartsAssumption DEF Parted
<1>3. argv = Left(p, 0) /\ argv \in Seq(STRING) /\ Left(p, Len(p)) = <<>>
  BY <1>1, <1>2, LeftEnds
<1>4. ASSUME p # <<>>
      PROVE  argv # <<>> /\ Tail(argv) = Left(p, 1) /\ 1 \in 1 .. Len(p)
  <2>1. 0 \in 0 .. Len(p) /\ 1 \in 0 .. Len(p) /\ 1 = 0 + 1 /\ 1 \in 1 .. Len(p)
    BY <1>2, <1>4
  <2>2. /\ Len(Left(p, 0)) = Len(p[1]) + Len(Left(p, 1))
        /\ SubSeq(Left(p, 0), Len(p[1]) + 1, Len(Left(p, 0))) = Left(p, 1)
    BY <1>2, <2>1, LeftBegins
  <2>3. Left(p, 1) \in Seq(STRING)
    BY <1>2, <2>1, LeftType
  <2> DEFINE rest == Left(p, 1)
             w == Len(p[1])
  <2>4. w = 1
    BY <1>2, <1>4
  <2>5. rest \in Seq(STRING) /\ Left(p, 1) = rest
    BY <2>3
  <2>6. Len(argv) = w + Len(rest) /\ SubSeq(argv, w + 1, Len(argv)) = rest
    BY <1>3, <2>2
  <2> HIDE DEF rest, w
  <2>7. Len(argv) = 1 + Len(rest) /\ SubSeq(argv, 2, Len(argv)) = rest
    BY <2>4, <2>6
  <2>8. argv # <<>> /\ Tail(argv) = rest
    BY <1>3, <2>5, <2>7
  <2> QED
    BY <2>1, <2>5, <2>8
<1>5. CASE argv = <<>>
  <2>1. ~Acceptable(typed)
    BY <1>1, <1>4, <1>5, AcceptableCreate
  <2>2. Exit("NOT_ENOUGH_ARGUMENTS") /\ "NOT_ENOUGH_ARGUMENTS" \in ArgumentErrors
    BY <1>5 DEF CreateStarts, Refuse, ArgumentErrors
  <2> QED
    BY <1>1, <2>1, <2>2, ExitAsked
<1>6. CASE argv # <<>>
  <2>1. p # <<>>
    <3>1. p = <<>> => Len(p) = 0
      OBVIOUS
    <3> QED
      BY <1>3, <1>6, <3>1
  <2>2. /\ argv' = Tail(argv) /\ at' = "options" /\ typed' = typed /\ newfile' = newfile
    BY <1>6 DEF CreateStarts, Goes
  <2>3. WantedUpto(typed, 1) = newfile
    BY <1>1, WantedNone
  <2>4. InOptions'
    <3>1. /\ argv' = Left(p, 1) /\ 1 \in 1 .. Len(p) /\ newfile' = WantedUpto(typed, 1)
          /\ \A j \in 2 .. 1 : OptionAcceptable(p[j])
      BY <1>4, <2>1, <2>2, <2>3
    <3> QED
      BY <1>1, <2>2, <3>1 DEF InOptions
  <2> QED
    BY <2>2, <2>4 DEF Asked, Waiting, InCall, Answered, Commands, Caller
<1> QED
  BY <1>5, <1>6

\* An option that is taken is acceptable, and is in the header.
LEMMA TakesAsked ==
    ASSUME typed \in Lines, typed.command = "create", at = "options",
           NEW k \in 1 .. Len(typed.parts), NEW m \in 2 .. Len(typed.parts), m = k + 1,
           \A j \in 2 .. k : OptionAcceptable(typed.parts[j]),
           OptionAcceptable(typed.parts[m]),
           NEW n, NEW header, Takes(n, header),
           SubSeq(argv, n + 1, Len(argv)) = Left(typed.parts, m),
           header = WantedUpto(typed, m)
    PROVE  Asked'
<1>1. argv' = Left(typed.parts, m) /\ newfile' = WantedUpto(typed, m) /\ UNCHANGED <<typed, at>>
  BY DEF Takes
<1>2. m \in 1 .. Len(typed.parts) /\ \A j \in 2 .. m : OptionAcceptable(typed.parts[j])
  <2>1. \A j \in 2 .. m : j = m \/ j \in 2 .. k
    OBVIOUS
  <2> QED
    BY <2>1
<1>3. InOptions'
  BY <1>1, <1>2 DEF InOptions
<1> QED
  BY <1>1, <1>3 DEF Asked, Waiting, InCall, Answered, Commands, Caller

\* -max_files takes one value, or refuses it.
LEMMA MaxFilesAsked == ASSUME Asked, MaxFilesOption PROVE Asked'
<1>1. typed \in Lines /\ typed.command = "create" /\ at = "options" /\ argv # <<>>
  BY DEF MaxFilesOption, Asked, InOptions
<1>2. PICK k \in 1 .. Len(typed.parts) :
        /\ argv = Left(typed.parts, k)
        /\ \A j \in 2 .. k : OptionAcceptable(typed.parts[j])
        /\ newfile = WantedUpto(typed, k)
  BY <1>1 DEF Asked, InOptions
<1> DEFINE m == k + 1
           q == typed.parts[m]
<1>3. /\ m \in 2 .. Len(typed.parts)
      /\ q \in Seq(STRING) /\ Len(q) >= 1 /\ Len(argv) >= Len(q) /\ argv \in Seq(STRING)
      /\ \A i \in 1 .. Len(q) : argv[i] = q[i]
      /\ q[1] = "-max_files" => Len(q) <= 2
      /\ Incomplete(q) /\ Len(argv) > Len(q) => argv[Len(q) + 1] \notin DOMAIN Numeral
      /\ SubSeq(argv, Len(q) + 1, Len(argv)) = Left(typed.parts, m)
  BY <1>1, <1>2, NextPart
<1>4. q[1] = "-max_files"
  BY <1>3 DEF MaxFilesOption
<1>5. Width32 \in Nat /\ Width32 - 1 \in Nat /\ Width32 - 1 < Width32
  BY WidthAssumption
<1>0. m = k + 1 /\ m \in DOMAIN typed.parts /\ k \in Nat \ {0}
  BY <1>1, <1>3, LinesAssumption
<1> HIDE DEF m, q
<1>6. Len(q) = 1 \/ Len(q) = 2
  BY <1>3, <1>4, SmallLength
<1>7. CASE Len(q) = 1
  <2>1. ~OptionAcceptable(q)
    BY <1>4, <1>7 DEF OptionAcceptable
  <2>2. Len(argv) >= 2 => Unsigned(argv[2], Width32) = 0
    BY <1>3, <1>4, <1>7 DEF Incomplete, Unsigned
  <2>3. \E err \in {"NOT_ENOUGH_ARGUMENTS", "MAX_FILES"} : Refuse(err)
    BY <2>2 DEF MaxFilesOption
  <2> QED
    BY <1>1, <1>3, <2>1, <2>3, RefuseCreate DEF ArgumentErrors, q
<1>8. CASE Len(q) = 2
  <2>1. argv[2] = q[2] /\ Len(argv) >= 2
    BY <1>3, <1>8
  <2>2. OptionAcceptable(q) <=> Value(q[2], Width32 - 1)
    BY <1>4, <1>8 DEF OptionAcceptable
  <2>3. CASE Unsigned(argv[2], Width32) = 0
    <3>1. ~Value(q[2], Width32 - 1)
      BY <1>5, <2>1, <2>3, ValueIsUnsigned
    <3>2. Refuse("MAX_FILES")
      BY <1>3, <2>1, <2>3 DEF MaxFilesOption
    <3> QED
      BY <1>1, <1>3, <2>2, <3>1, <3>2, RefuseCreate DEF ArgumentErrors, q
  <2>4. CASE Unsigned(argv[2], Width32) # 0
    <3>1. Unsigned(argv[2], Width32) \in 1 .. Width32 - 1
      BY <1>5, <2>4, UnsignedRange
    <3>2. Value(q[2], Width32 - 1) /\ Unsigned(argv[2], Width32) = Numeral[q[2]]
      BY <1>5, <2>1, <3>1, ValueIsUnsigned
    <3>3. Takes(2, [newfile EXCEPT !.max_files = Numeral[q[2]]])
      BY <1>3, <2>1, <2>4, <3>2 DEF MaxFilesOption
    <3>4. WantedUpto(typed, m) = [newfile EXCEPT !.max_files = Numeral[q[2]]]
      BY <1>0, <1>2, <1>4, WantedStep DEF q
    <3>5. SubSeq(argv, 2 + 1, Len(argv)) = Left(typed.parts, m)
      BY <1>3, <1>8
    <3> QED
      BY <1>0, <1>1, <1>2, <1>3, <2>2, <3>2, <3>3, <3>4, <3>5, TakesAsked DEF q
  <2> QED
    BY <2>3, <2>4
<1> QED
  BY <1>6, <1>7, <1>8

\* -thumb_res and -small_res take two values, or refuse them.
LEMMA ResolutionAsked ==
    ASSUME Asked, NEW option, NEW max,
           \/ option = "-thumb_res" /\ max = MAX_THUMB_RES
           \/ option = "-small_res" /\ max = MAX_SMALL_RES,
           ResolutionOption(option, max)
    PROVE  Asked'
<1>1. typed \in Lines /\ typed.command = "create" /\ at = "options" /\ argv # <<>>
  BY DEF ResolutionOption, Asked, InOptions
<1>2. PICK k \in 1 .. Len(typed.parts) :
        /\ argv = Left(typed.parts, k)
        /\ \A j \in 2 .. k : OptionAcceptable(typed.parts[j])
        /\ newfile = WantedUpto(typed, k)
  BY <1>1 DEF Asked, InOptions
<1> DEFINE m == k + 1
           q == typed.parts[m]
<1>3. /\ m \in 2 .. Len(typed.parts)
      /\ q \in Seq(STRING) /\ Len(q) >= 1 /\ Len(argv) >= Len(q) /\ argv \in Seq(STRING)
      /\ \A i \in 1 .. Len(q) : argv[i] = q[i]
      /\ q[1] \in {"-thumb_res", "-small_res"} => Len(q) <= 3
      /\ Incomplete(q) /\ Len(argv) > Len(q) => argv[Len(q) + 1] \notin DOMAIN Numeral
      /\ SubSeq(argv, Len(q) + 1, Len(argv)) = Left(typed.parts, m)
  BY <1>1, <1>2, NextPart
<1>4. q[1] = option /\ option \in {"-thumb_res", "-small_res"}
  BY <1>3 DEF ResolutionOption
<1>5. Width16 \in Nat /\ max \in Nat /\ max < Width16
  BY WidthAssumption DEF MAX_THUMB_RES, MAX_SMALL_RES
<1>0. m = k + 1 /\ m \in DOMAIN typed.parts /\ k \in Nat \ {0}
  BY <1>1, <1>3, LinesAssumption
<1> HIDE DEF m, q
<1>6. Len(q) = 1 \/ Len(q) = 2 \/ Len(q) = 3
  BY <1>3, <1>4, SmallLength
<1>a. OptionAcceptable(q) <=> Len(q) = 3 /\ Value(q[2], max) /\ Value(q[3], max)
  BY <1>4 DEF OptionAcceptable
<1>7. CASE Len(q) = 1 \/ Len(q) = 2
  <2>1. ~OptionAcceptable(q)
    BY <1>7, <1>a
  <2>2. ASSUME Len(argv) >= 3 PROVE ~Fits(Pair, max)
    <3>1. Incomplete(q)
      <4>1. Len(q) < 3
        <5> DEFINE n == Len(q)
        <5>1. n = 1 \/ n = 2
          BY <1>7
        <5> HIDE DEF n
        <5>2. n < 3
          BY <5>1
        <5> QED
          BY <5>2 DEF n
      <4> QED
        BY <1>4, <4>1 DEF Incomplete
    <3>2. Len(argv) \in Nat
      BY <1>3
    <3> DEFINE a == Len(argv)
               n == Len(q)
    <3>a. a \in Nat /\ a >= 3 /\ (n = 1 \/ n = 2)
      BY <1>7, <2>2, <3>2
    <3> HIDE DEF a, n
    <3>b. a > n
      BY <3>a
    <3>3. Len(argv) > Len(q)
      BY <3>b DEF a, n
    <3>4. argv[Len(q) + 1] \notin DOMAIN Numeral
      BY <1>3, <3>1, <3>3
    <3>5. argv[2] \notin DOMAIN Numeral \/ argv[3] \notin DOMAIN Numeral
      <4>1. Len(q) = 1 => argv[1 + 1] \notin DOMAIN Numeral
        BY <3>4
      <4>2. Len(q) = 2 => argv[2 + 1] \notin DOMAIN Numeral
        BY <3>4
      <4> QED
        BY <1>7, <4>1, <4>2
    <3> QED
      BY <1>5, <3>5 DEF Fits, Pair, Unsigned
  <2>3. \E err \in {"NOT_ENOUGH_ARGUMENTS", "RESOLUTIONS"} : Refuse(err)
    BY <2>2 DEF ResolutionOption
  <2> QED
    BY <1>1, <1>3, <2>1, <2>3, RefuseCreate DEF ArgumentErrors, q
<1>8. CASE Len(q) = 3
  <2>1. argv[2] = q[2] /\ argv[3] = q[3] /\ Len(argv) >= 3
    BY <1>3, <1>8
  <2>2. /\ Value(q[2], max) <=> Unsigned(q[2], Width16) \in 1 .. max
        /\ Value(q[3], max) <=> Unsigned(q[3], Width16) \in 1 .. max
        /\ Value(q[2], max) => Unsigned(q[2], Width16) = Numeral[q[2]]
        /\ Value(q[3], max) => Unsigned(q[3], Width16) = Numeral[q[3]]
    BY <1>5, ValueIsUnsigned
  <2>3. Pair = <<Unsigned(q[2], Width16), Unsigned(q[3], Width16)>>
    BY <2>1 DEF Pair
  <2>4. Fits(Pair, max) <=> OptionAcceptable(q)
    BY <1>8, <1>a, <2>2, <2>3 DEF Fits
  <2>5. CASE ~Fits(Pair, max)
    <3>1. Refuse("RESOLUTIONS")
      BY <1>3, <2>1, <2>5 DEF ResolutionOption
    <3> QED
      BY <1>1, <1>3, <2>4, <2>5, <3>1, RefuseCreate DEF ArgumentErrors, q
  <2>6. CASE Fits(Pair, max)
    <3>1. Takes(3, Sized(newfile, option))
      BY <1>3, <2>1, <2>6 DEF ResolutionOption
    <3>2. Pair = <<Numeral[q[2]], Numeral[q[3]]>>
      BY <1>a, <2>2, <2>3, <2>4, <2>6
    <3>3. WantedUpto(typed, m) = Sized(newfile, option)
      <4>1. typed.parts[m][1] = option /\ newfile = WantedUpto(typed, k)
        BY <1>2, <1>4 DEF q
      <4>2. CASE option = "-thumb_res"
        <5>1. WantedUpto(typed, m)
                = [newfile EXCEPT !.thumb = <<Numeral[q[2]], Numeral[q[3]]>>]
          BY <1>0, <4>1, <4>2, WantedStep DEF q
        <5> QED
          BY <3>2, <4>2, <5>1 DEF Sized
      <4>3. CASE option = "-small_res"
        <5>1. WantedUpto(typed, m)
                = [newfile EXCEPT !.small = <<Numeral[q[2]], Numeral[q[3]]>>]
          BY <1>0, <4>1, <4>3, WantedStep DEF q
        <5> QED
          BY <3>2, <4>3, <5>1 DEF Sized
      <4> QED
        BY <1>4, <4>2, <4>3
    <3>4. SubSeq(argv, 3 + 1, Len(argv)) = Left(typed.parts, m)
      BY <1>3, <1>8
    <3> QED
      BY <1>0, <1>1, <1>2, <1>3, <2>4, <2>6, <3>1, <3>3, <3>4, TakesAsked DEF q
  <2> QED
    BY <2>5, <2>6
<1> QED
  BY <1>6, <1>7, <1>8

\* An option nobody knows is refused.
LEMMA OtherOptionAsked == ASSUME Asked, OtherOption PROVE Asked'
<1>1. typed \in Lines /\ typed.command = "create" /\ at = "options" /\ argv # <<>>
  BY DEF OtherOption, Asked, InOptions
<1>2. PICK k \in 1 .. Len(typed.parts) : argv = Left(typed.parts, k)
  BY <1>1 DEF Asked, InOptions
<1> DEFINE m == k + 1
           q == typed.parts[m]
<1>3. /\ m \in 2 .. Len(typed.parts)
      /\ q \in Seq(STRING) /\ Len(q) >= 1
      /\ \A i \in 1 .. Len(q) : argv[i] = q[i]
  BY <1>1, <1>2, NextPart
<1>4. ~OptionAcceptable(q)
  BY <1>3 DEF OtherOption, OptionAcceptable
<1>5. Refuse("INVALID_ARGUMENT") /\ "INVALID_ARGUMENT" \in ArgumentErrors
  BY DEF OtherOption, ArgumentErrors
<1> HIDE DEF m
<1> QED
  BY <1>1, <1>3, <1>4, <1>5, RefuseCreate

\* At the end of the loop all options are acceptable.
LEMMA OptionsTaken ==
    ASSUME Asked, at = "options", argv = <<>>
    PROVE  /\ typed \in Lines /\ typed.command = "create" /\ Acceptable(typed)
           /\ newfile = Wanted(typed)
<1>1. PICK k \in 1 .. Len(typed.parts) :
        /\ argv = Left(typed.parts, k)
        /\ \A j \in 2 .. k : OptionAcceptable(typed.parts[j])
        /\ newfile = WantedUpto(typed, k)
  BY DEF Asked, InOptions
<1>2. typed \in Lines /\ typed.command = "create"
  BY DEF Asked, InOptions
<1>3. k = Len(typed.parts)
  BY <1>1, <1>2, LoopEnds
<1>4. typed.parts # <<>>
  BY <1>1
<1> QED
  BY <1>1, <1>2, <1>3, <1>4, AcceptableCreate, WantedWhole

\* do_create answers for an acceptable line.
LEMMA CreateFileAsked == ASSUME Asked, CreateFile PROVE Asked'
<1>1. /\ typed \in Lines /\ typed.command = "create" /\ Acceptable(typed)
      /\ newfile = Wanted(typed)
  BY OptionsTaken DEF CreateFile
<1>2. \E err \in {"NONE", "IO", "OUT_OF_MEMORY"} :
         Exit(err) /\ (err = "NONE" => imgfs' = Formed(newfile, {}))
  BY DEF CreateFile
<1> QED
  BY <1>1, <1>2, ExitAsked DEF ArgumentErrors

-----------------------------------------------------------------------------

\* The other commands refuse the lines that the usage text does not allow.
LEMMA MisusedAsked == ASSUME Asked, Misused PROVE Asked'
<1>1. /\ typed \in Lines /\ at = typed.command /\ argv = Joined(typed.parts)
      /\ Opening /\ at # "create"
  BY DEF Misused, Opening, Called, Asked, Waiting, Commands
<1>2. PICK err \in Refusals : Refuse(err)
  BY DEF Misused
<1>3. ~Acceptable(typed) /\ err \in ArgumentErrors
  BY <1>1, <1>2, RefusalsAsUsage
<1> QED
  BY <1>1, <1>2, <1>3, ExitAsked DEF Refuse

\* They open the file for the lines that it allows.
LEMMA OpenAsked == ASSUME Asked, Open PROVE Asked'
<1>1. /\ typed \in Lines /\ at = typed.command /\ argv = Joined(typed.parts)
      /\ Opening /\ at # "create"
  BY DEF Open, Opening, Called, Asked, Waiting, Commands
<1>2. Acceptable(typed)
  BY <1>1, RefusalsAsUsage DEF Open
<1>3. CASE Goes(Called[at]) /\ UNCHANGED argv
  <2>1. at' = Called[at] /\ typed' = typed /\ argv' = argv
    BY <1>3 DEF Goes
  <2>2. at' \in DOMAIN Caller /\ Caller[at'] = at
    BY <1>1, <2>1 DEF Opening, Called, Caller
  <2>3. InCall'
    <3>1. Acceptable(typed)' = Acceptable(typed)
      BY <2>1
    <3> QED
      BY <1>1, <1>2, <2>1, <2>2, <3>1 DEF InCall
  <2> QED
    BY <2>2, <2>3 DEF Asked, Waiting, InOptions, Answered, Commands, Caller
<1>4. CASE Exit("IO")
  BY <1>1, <1>2, <1>4, ExitAsked DEF ArgumentErrors
<1> QED
  BY <1>3, <1>4 DEF Open

\* Behind do_open no answer is about the arguments.
LEMMA CallAsked ==
    ASSUME Asked, \/ ListCall \/ CallFails \/ DeleteCall \/ ReadCall
                  \/ ReadImageFails \/ ReadImage \/ InsertCall
                  \/ NoNameOrFile \/ WriteFails \/ Write
    PROVE  Asked'
<1>1. at \in DOMAIN Caller
  BY DEF ListCall, CallFails, DeleteCall, ReadCall, ReadImageFails, ReadImage, InsertCall,
         NoNameOrFile, WriteFails, Write, Caller
<1>2. /\ typed \in Lines /\ Acceptable(typed) /\ typed.command = Caller[at]
      /\ argv = Joined(typed.parts)
  BY <1>1 DEF Asked, InCall
<1>3. CASE ReadCall \/ ReadImage
  <2>1. /\ UNCHANGED <<argv, typed>>
        /\ \/ at = "do_read" /\ at' = "write"
           \/ at = "read_disk_image" /\ at' = "do_insert"
    BY <1>3 DEF ReadCall, ReadImage, Goes
  <2>2. at' \in DOMAIN Caller /\ Caller[at'] = Caller[at]
    BY <2>1 DEF Caller
  <2>3. InCall'
    <3>1. Acceptable(typed)' = Acceptable(typed)
      BY <2>1
    <3> QED
      BY <1>2, <2>1, <2>2, <3>1 DEF InCall
  <2> QED
    BY <2>1, <2>3 DEF Asked, Waiting, InOptions, Answered, Commands
<1>4. CASE ~(ReadCall \/ ReadImage)
  <2>1. \E err \in {"NONE", "LIBRARY", "IO", "OUT_OF_MEMORY"} : Exit(err)
    BY <1>4 DEF ListCall, CallFails, DeleteCall, ReadImageFails, InsertCall,
                NoNameOrFile, WriteFails, Write, Noticed
  <2>2. typed.command # "create"
    BY <1>1, <1>2 DEF Caller
  <2> QED
    BY <1>2, <2>1, <2>2, ExitAsked DEF ArgumentErrors
<1> QED
  BY <1>3, <1>4

\* Every step keeps the invariant.
LEMMA AskedStep == Asked /\ [Next]_vars => Asked'
<1> SUFFICES ASSUME Asked, [Next]_vars PROVE Asked'
  OBVIOUS
<1>1. CASE \E line \in Lines : Start(line)
  BY <1>1, StartAsked
<1>2. CASE Step
  BY <1>2, MainEndsAsked, CreateStartsAsked, MaxFilesAsked, ResolutionAsked,
     OtherOptionAsked, CreateFileAsked, MisusedAsked, OpenAsked, CallAsked
     DEF Step
<1>3. CASE UNCHANGED vars
  BY <1>3 DEF vars, Asked, Waiting, InOptions, InCall, Answered
<1> QED
  BY <1>1, <1>2, <1>3 DEF Next

\* Every behaviour has it.
LEMMA AskedAlways == Spec => []Asked
BY AskedInit, AskedStep, PTL DEF Spec

\* For any command lines, numerals and widths: a command is refused for its
\* arguments exactly if the usage text does not allow its line.
THEOREM RefusedAsUsage == Spec => []AsUsage
BY AskedAlways, AskedEnough, PTL

\* For any command lines: a create that succeeds made the file its line asked for.
THEOREM MadeAsAsked == Spec => []CreatedAsAsked
BY AskedAlways, AskedEnough, PTL

\* For any command lines: the imgFS file changes only for a line that asks for it
\* and that the usage text allows.
THEOREM OnlyAskedChanges == Spec => ChangesAsked
<1>1. ASSUME Asked, Next, imgfs' # imgfs
      PROVE  typed.command \in {"create", "insert", "delete"} /\ Acceptable(typed)
  <2>1. CreateFile \/ DeleteCall \/ InsertCall
    BY <1>1 DEF Next, Step, Start, MainEnds, CreateStarts, MaxFilesOption, ResolutionOption,
       OtherOption, Misused, Open, ListCall, CallFails, ReadCall, ReadImageFails, ReadImage,
       NoNameOrFile, WriteFails, Write, Refuse, Takes
  <2>2. CASE CreateFile
    <3>1. at = "options" /\ argv = <<>>
      BY <2>2 DEF CreateFile
    <3>2. typed.command = "create" /\ Acceptable(typed)
      BY <1>1, <3>1, OptionsTaken
    <3> QED
      BY <3>2
  <2>3. CASE DeleteCall \/ InsertCall
    <3>1. at = "do_delete" \/ at = "do_insert"
      BY <2>3 DEF DeleteCall, InsertCall
    <3>2. at \in DOMAIN Caller /\ Caller[at] \in {"delete", "insert"}
      BY <3>1 DEF Caller
    <3> QED
      BY <1>1, <3>2 DEF Asked, InCall
  <2> QED
    BY <2>1, <2>2, <2>3
<1>2. Asked /\ [Next]_vars =>
        [imgfs' # imgfs => /\ typed.command \in {"create", "insert", "delete"}
                           /\ Acceptable(typed)]_vars
  BY <1>1
<1> QED
  BY <1>2, AskedAlways, PTL DEF Spec, ChangesAsked

-----------------------------------------------------------------------------
(* What a read brings back.                                                 *)

\* The image file it once was, with its length in 32 bits.
Kept(img) == img.file \in DOMAIN ImageFiles /\ img.bytes = ImageFiles[img.file] % Width32

\* The images of the file, the image on its way to it or from it, and the image
\* file that a read has written.
ImagesKept == \A i \in imgfs.images : Kept(i.image)
CarriedKept == at \in {"do_insert", "write"} => Kept(image)
WrittenKept ==
    Ended /\ typed.command = "read" /\ code = "NONE" =>
        /\ written.as \in {"whole", "lost at fclose"}
        /\ written.id = typed.parts[2][1] /\ Kept(written.image)

Carried == ImagesKept /\ CarriedKept /\ WrittenKept

\* A length in 32 bits is the length, or the file had 2^32 bytes or more.
LEMMA CarriedEnough == Carried => RoundTrip
<1> SUFFICES ASSUME Carried, Ended, typed.command = "read", code = "NONE"
             PROVE  /\ written.as \in {"whole", "lost at fclose"}
                    /\ written.id = typed.parts[2][1]
                    /\ written.image.file \in DOMAIN ImageFiles
                    /\ \/ written.image.bytes = ImageFiles[written.image.file]
                       \/ ImageFiles[written.image.file] >= Width32
  BY DEF RoundTrip
<1>1. /\ written.as \in {"whole", "lost at fclose"}
      /\ written.id = typed.parts[2][1] /\ Kept(written.image)
  BY DEF Carried, WrittenKept
<1> DEFINE size == ImageFiles[written.image.file]
<1>2. size \in Nat /\ written.image.bytes = size % Width32
  BY <1>1, ImageFilesAssumption DEF Kept
<1> HIDE DEF size
<1>3. size < Width32 => size % Width32 = size
  BY <1>2, WidthAssumption
<1>4. size < Width32 \/ size >= Width32
  BY <1>2, WidthAssumption
<1> QED
  BY <1>1, <1>2, <1>3, <1>4 DEF Kept, size

\* There is no imgFS file and no image.
LEMMA CarriedInit == Init => Carried
BY DEF Init, Carried, ImagesKept, CarriedKept, WrittenKept, Ended, Unusable, NoLine

\* A step that adds no image and ends no read that succeeds.
LEMMA CarriedAway ==
    ASSUME Carried, imgfs'.images \subseteq imgfs.images,
           at' \notin {"do_insert", "write"},
           at' = "idle" => typed'.command # "read" \/ code' # "NONE"
    PROVE  Carried'
<1>1. ImagesKept' /\ CarriedKept'
  BY DEF Carried, ImagesKept, CarriedKept, Kept
<1>2. WrittenKept'
  BY DEF WrittenKept, Ended
<1> QED
  BY <1>1, <1>2 DEF Carried

\* The steps before the library is called.
LEMMA EarlyCarried ==
    ASSUME IInv, Asked, Carried,
           \/ \E line \in Lines : Start(line)
           \/ MainEnds \/ CreateStarts \/ MaxFilesOption
           \/ ResolutionOption("-thumb_res", MAX_THUMB_RES)
           \/ ResolutionOption("-small_res", MAX_SMALL_RES)
           \/ OtherOption \/ CreateFile \/ Misused \/ Open
    PROVE  Carried'
<1>1. CASE \E line \in Lines : Start(line)
  <2>1. /\ imgfs' = imgfs
        /\ at' \in {"nothing", "unknown", "help", "create", "list", "delete", "read", "insert"}
    BY <1>1, LinesAssumption DEF Start
  <2> QED
    BY <2>1, CarriedAway
<1>2. CASE MainEnds
  <2>1. at \in {"nothing", "unknown", "help"} /\ typed.command = at
    BY <1>2 DEF MainEnds, Asked, Waiting, Commands
  <2>2. imgfs' = imgfs /\ at' = "idle" /\ typed' = typed
    BY <1>2 DEF MainEnds, Refuse, Exit
  <2> QED
    BY <2>1, <2>2, CarriedAway
<1>3. CASE CreateStarts
  <2>1. typed.command = "create"
    BY <1>3 DEF CreateStarts, Asked, Waiting, Commands
  <2>2. imgfs' = imgfs /\ at' \in {"idle", "options"} /\ typed' = typed
    BY <1>3 DEF CreateStarts, Refuse, Exit, Goes
  <2> QED
    BY <2>1, <2>2, CarriedAway
<1>4. CASE \/ MaxFilesOption \/ OtherOption
           \/ ResolutionOption("-thumb_res", MAX_THUMB_RES)
           \/ ResolutionOption("-small_res", MAX_SMALL_RES)
  <2>1. at = "options"
    BY <1>4 DEF MaxFilesOption, OtherOption, ResolutionOption
  <2>2. typed.command = "create"
    BY <2>1 DEF Asked, InOptions
  <2>3. imgfs' = imgfs /\ at' \in {"idle", "options"} /\ typed' = typed
    BY <1>4, <2>1 DEF MaxFilesOption, OtherOption, ResolutionOption, Refuse, Exit, Takes
  <2> QED
    BY <2>2, <2>3, CarriedAway
<1>5. CASE CreateFile
  <2>1. typed.command = "create"
    BY <1>5 DEF CreateFile, Asked, InOptions
  <2>2. at' = "idle" /\ typed' = typed
    BY <1>5 DEF CreateFile, Exit
  <2>3. imgfs' = imgfs \/ imgfs' = Unusable \/ imgfs' = Formed(newfile, {})
    BY <1>5 DEF CreateFile
  <2>4. imgfs'.images \subseteq imgfs.images
    BY <2>3 DEF Unusable, Formed
  <2> QED
    BY <2>1, <2>2, <2>4, CarriedAway
<1>6. CASE Misused
  <2>1. imgfs' = imgfs /\ at' = "idle" /\ \E err \in Refusals : code' = err
    BY <1>6 DEF Misused, Refuse, Exit
  <2>2. "NONE" \notin Refusals
    BY <1>6 DEF Misused, Opening, Called, Refusals
  <2> QED
    BY <2>1, <2>2, CarriedAway
<1>7. CASE Open
  <2>1. imgfs' = imgfs
    BY <1>7 DEF Open
  <2>2. at' \in {"do_list", "do_delete", "do_read", "read_disk_image"} \/ code' = "IO"
    BY <1>7 DEF Open, Opening, Called, Goes, Exit
  <2>3. at' \in {"do_list", "do_delete", "do_read", "read_disk_image", "idle"}
    BY <1>7 DEF Open, Opening, Called, Goes, Exit
  <2> QED
    BY <2>1, <2>2, <2>3, CarriedAway
<1> QED
  BY <1>1, <1>2, <1>3, <1>4, <1>5, <1>6, <1>7

\* The calls of the library, and what becomes of the image file.
LEMMA ListFailCarried ==
    ASSUME Asked, Carried, ListCall \/ CallFails \/ ReadImageFails \/ NoNameOrFile \/ WriteFails
    PROVE  Carried'
<1>1. imgfs' = imgfs /\ at' = "idle" /\ typed' = typed
  BY DEF ListCall, CallFails, ReadImageFails, NoNameOrFile, WriteFails, Noticed, Exit
<1>2. at = "do_list" \/ code' # "NONE"
  BY DEF ListCall, CallFails, ReadImageFails, NoNameOrFile, WriteFails, Noticed, Exit
<1>3. at = "do_list" => typed.command = "list"
  BY DEF Asked, InCall, Caller
<1> QED
  BY <1>1, <1>2, <1>3, CarriedAway

\* A deleted image keeps its content.
LEMMA DeleteCarried == ASSUME IInv, Asked, Carried, DeleteCall PROVE Carried'
<1>1. PICK i \in Stored : imgfs' = [imgfs EXCEPT !.images =
                                      (@ \ {i}) \cup {Entry(i.id, i.image, FALSE)}]
  BY DEF DeleteCall
<1>2. imgfs'.images = (imgfs.images \ {i}) \cup {Entry(i.id, i.image, FALSE)}
  BY <1>1 DEF IInv, InRange
<1>3. ImagesKept /\ i \in imgfs.images
  BY DEF Carried, Stored
<1>4. \A e \in imgfs'.images : e \in imgfs.images \/ e.image = i.image
  BY <1>2 DEF Entry
<1>5. ImagesKept'
  BY <1>3, <1>4 DEF ImagesKept, Kept
<1>6. at' = "idle" /\ typed' = typed /\ typed.command = "delete"
  BY DEF DeleteCall, Exit, Asked, InCall, Caller
<1> QED
  BY <1>5, <1>6 DEF Carried, CarriedKept, WrittenKept

\* do_read hands out an image of the file.
LEMMA ReadCarried == ASSUME Carried, ReadCall PROVE Carried'
<1>1. \E i \in imgfs.images : image' = i.image
  BY DEF ReadCall
<1>2. imgfs' = imgfs /\ at' = "write"
  BY DEF ReadCall, Goes
<1>3. Kept(image)'
  BY <1>1 DEF Carried, ImagesKept, Kept
<1>4. ImagesKept'
  BY <1>2 DEF Carried, ImagesKept, Kept
<1> QED
  BY <1>2, <1>3, <1>4 DEF Carried, CarriedKept, WrittenKept, Ended

\* read_disk_image takes an image file, its length cut to 32 bits.
LEMMA ReadImageCarried == ASSUME Carried, ReadImage PROVE Carried'
<1>1. imgfs' = imgfs /\ at' = "do_insert"
  BY DEF ReadImage, Goes
<1>2. Kept(image)'
  BY DEF ReadImage, Kept
<1>3. ImagesKept'
  BY <1>1 DEF Carried, ImagesKept, Kept
<1> QED
  BY <1>1, <1>2, <1>3 DEF Carried, CarriedKept, WrittenKept, Ended

\* do_insert adds the image that was read.
LEMMA InsertCarried == ASSUME IInv, Asked, Carried, InsertCall PROVE Carried'
<1>1. imgfs'.images = imgfs.images \cup {Entry(argv[2], image, TRUE)}
  BY DEF InsertCall, IInv, InRange
<1>2. Kept(image) /\ ImagesKept
  BY DEF InsertCall, Carried, CarriedKept
<1>3. \A e \in imgfs'.images : e \in imgfs.images \/ e.image = image
  BY <1>1 DEF Entry
<1>4. ImagesKept'
  BY <1>2, <1>3 DEF ImagesKept, Kept
<1>5. at' = "idle" /\ typed' = typed /\ typed.command = "insert"
  BY DEF InsertCall, Exit, Asked, InCall, Caller
<1> QED
  BY <1>4, <1>5 DEF Carried, CarriedKept, WrittenKept

\* write_disk_image writes the image that do_read handed out.
LEMMA WriteCarried == ASSUME Asked, Carried, Write PROVE Carried'
<1>1. /\ at = "write" /\ imgfs' = imgfs /\ at' = "idle" /\ typed' = typed
      /\ written'.as \in {"whole", "lost at fclose"}
      /\ written'.id = argv[2] /\ written'.image = image
  <2>1. at = "write" /\ imgfs' = imgfs /\ at' = "idle" /\ typed' = typed
    BY DEF Write, Exit
  <2>2. PICK as \in {"whole", "lost at fclose"} : Writes(as)
    BY DEF Write
  <2>3. written' = [id |-> argv[2], res |-> Suffix, image |-> image, as |-> as]
    BY <2>2 DEF Writes
  <2> QED
    BY <2>1, <2>3
<1>2. /\ typed \in Lines /\ Acceptable(typed) /\ typed.command = "read"
      /\ argv = Joined(typed.parts)
  BY <1>1 DEF Asked, InCall, Caller
<1>3. Len(typed.parts) = 2 \/ Len(typed.parts) = 3
  BY <1>2 DEF Acceptable
<1>4. Len(argv) >= 2
  <2>1. \A k \in DOMAIN typed.parts : Len(typed.parts[k]) = 1
    BY <1>2, PartsAssumption DEF Parted
  <2>2. Len(argv) = Len(typed.parts)
    BY <1>2, <2>1, LinesAssumption, Singles
  <2> DEFINE n == Len(argv)
  <2>3. n = 2 \/ n = 3
    BY <1>3, <2>2
  <2> HIDE DEF n
  <2>4. n >= 2
    BY <2>3
  <2> QED
    BY <2>4 DEF n
<1>5. argv[2] = typed.parts[2][1]
  BY <1>2, <1>4, SecondArgument
<1>6. Kept(written.image)'
  BY <1>1 DEF Carried, CarriedKept, Kept
<1>7. ImagesKept'
  BY <1>1 DEF Carried, ImagesKept, Kept
<1> QED
  BY <1>1, <1>5, <1>6, <1>7 DEF Carried, CarriedKept, WrittenKept

\* Every step keeps the invariant.
LEMMA CarriedStep == IInv /\ Asked /\ Carried /\ [Next]_vars => Carried'
<1> SUFFICES ASSUME IInv, Asked, Carried, [Next]_vars PROVE Carried'
  OBVIOUS
<1>1. CASE Next
  BY <1>1, EarlyCarried, ListFailCarried, DeleteCarried, ReadCarried, ReadImageCarried,
     InsertCarried, WriteCarried
     DEF Next, Step
<1>2. CASE UNCHANGED vars
  BY <1>2 DEF vars, Carried, ImagesKept, CarriedKept, WrittenKept, Kept, Ended
<1> QED
  BY <1>1, <1>2

\* For any image files and any widths: a read that succeeds has written the whole
\* image of the name asked for, as it once was in the file it was inserted from,
\* but for the losses that RoundTrip names.
THEOREM WrittenAsInserted == Spec => []RoundTrip
<1>1. Spec => []Carried
  BY CarriedInit, CarriedStep, LineInvariant, AskedAlways, PTL DEF Spec
<1> QED
  BY <1>1, CarriedEnough, PTL

=============================================================================
