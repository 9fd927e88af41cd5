------------------------------ MODULE OpenFile ------------------------------
(***************************************************************************)
(* trio.open_file(), trio.Path.open() and trio.wrap_file() as              *)
(* trio-stubs/__init__.pyi overloads them: mypy gives a call the class of  *)
(* the first overload that takes its arguments, the program runs, io.open  *)
(* makes a file object, and the program uses Trio's wrapper of that object *)
(* as the class mypy gave it.  What io.open makes of its arguments and     *)
(* which methods its classes have is external.                             *)
(***************************************************************************)
EXTENDS Naturals

CONSTANT BufferSizes  \* the sizes a buffering argument may have at run time

ASSUME OpenFileAssumption == {"0", "1", "-1"} \subseteq BufferSizes

VARIABLES
  call,    \* the call in the program
  static,  \* the class mypy gives its result, "error" if it rejects the call
  file,    \* the class of the object Trio wraps
  pc       \* "written", "checked", "open", "detached" or "ValueError"

vars == <<call, static, file, pc>>

\* One mode for each class io.open may make; every other differs from one of
\* these in ways that no overload and no class depends on.
TextModes == {"r", "w", "r+"}
BinaryModes == {"rb", "wb", "r+b"}

\* An argument that is left out, one that is not a constant, or the constant.
ModeArgs == {"omitted", "str"} \cup TextModes \cup BinaryModes
BufferingArgs == {"omitted", "int"} \cup BufferSizes
EncodingArgs == {"omitted", "None", "str"}

Calls == [of : {"open_file", "Path.open", "wrap_file"},
          mode : ModeArgs, buffering : BufferingArgs, encoding : EncodingArgs]

-----------------------------------------------------------------------------
(* The overloads, in order: what each takes and returns. *)

Overload(mode, buffering, encoding, returns) ==
  [mode |-> mode, buffering |-> buffering, encoding |-> encoding, returns |-> returns]

NoEncoding == {"omitted", "None"}
BufferingGiven == BufferingArgs \ {"omitted"}

TextMode == Overload({"omitted"} \cup TextModes, BufferingArgs, EncodingArgs, "AsyncTextFileIO")
Unbuffered == Overload(BinaryModes, {"0"}, NoEncoding, "AsyncFileIO")
Buffered == Overload(BinaryModes, {"omitted", "-1", "1"}, NoEncoding, "AsyncBufferedFileIO")
Undetermined == Overload(BinaryModes, BufferingGiven, NoEncoding, "AsyncFileIO")
ModeUnknown == Overload(ModeArgs \ {"omitted"}, BufferingArgs, EncodingArgs, "AsyncIO")

\* Mutant: a buffering that is no constant is taken to be none of 0.
OpenFileNeverRaw ==
  <<TextMode, Unbuffered, Buffered,
    Overload(BinaryModes, BufferingGiven, NoEncoding, "AsyncBufferedFileIO"), ModeUnknown>>

OpenFileOverloads == <<TextMode, Unbuffered, Buffered, Undetermined, ModeUnknown>>

\* Mutant: the overload for any buffering comes before those for constants.
PathOpenUndeterminedFirst == <<TextMode, Undetermined, Unbuffered, Buffered, ModeUnknown>>

PathOpenOverloads == <<TextMode, Unbuffered, Buffered, Undetermined, ModeUnknown>>

\* What builtins.open returns in the program that wraps a file, and the classes
\* it is a subclass of.
BuiltinOpenClass(c) ==
  CASE c.mode \in {"omitted"} \cup TextModes -> "TextIOWrapper"
    [] c.mode = "str" \/ (c.mode \in BinaryModes /\ c.encoding = "str") -> "IO"
    [] c.mode \in BinaryModes /\ c.encoding # "str" ->
         IF c.buffering = "0" THEN "FileIO"
         ELSE IF c.buffering \in {"omitted", "-1", "1"} THEN "Buffered"
         ELSE "BinaryIO"

Superclasses ==
  [TextIOWrapper |-> {"TextIO", "TextIOBase", "IO", "IOBase"},
   FileIO |-> {"RawIOBase", "BinaryIO", "IO", "IOBase"},
   Buffered |-> {"BufferedIOBase", "BinaryIO", "IO", "IOBase"},
   BinaryIO |-> {"BinaryIO", "IO"},
   IO |-> {"IO"}]

WrapFileOverloads ==
  <<[takes |-> {"TextIO", "TextIOBase"}, returns |-> "AsyncTextIO"],
    [takes |-> {"BinaryIO", "BufferedIOBase"}, returns |-> "AsyncBinaryIO"],
    [takes |-> {"RawIOBase"}, returns |-> "AsyncBinaryIO"],
    [takes |-> {"IO", "IOBase"}, returns |-> "AsyncIO"]>>

Takes(overload, c) ==
  /\ c.mode \in overload.mode
  /\ c.buffering \in overload.buffering
  /\ c.encoding \in overload.encoding

\* What the first of the overloads returns whose indices are in "taking".
FirstOf(overloads, taking) ==
  overloads[CHOOSE i \in taking : \A j \in taking : i <= j].returns

OpenOverloads(c) == IF c.of = "open_file" THEN OpenFileOverloads ELSE PathOpenOverloads

StaticClass(c) ==
  IF c.of = "wrap_file"
  THEN FirstOf(WrapFileOverloads,
         {i \in DOMAIN WrapFileOverloads :
            WrapFileOverloads[i].takes \cap Superclasses[BuiltinOpenClass(c)] # {}})
  ELSE FirstOf(OpenOverloads(c),
         {i \in DOMAIN OpenOverloads(c) : Takes(OpenOverloads(c)[i], c)})

-----------------------------------------------------------------------------
(* The classes at run time, and the methods in which they differ. *)

Buffers == [r |-> "BufferedReader", w |-> "BufferedWriter", rw |-> "BufferedRandom"]
BufferedClasses == {Buffers[b] : b \in DOMAIN Buffers}
FileClasses == {"FileIO", "TextIOWrapper"} \cup BufferedClasses

BufferFor(mode) ==
  CASE mode \in {"r", "rb"} -> Buffers.r
    [] mode \in {"w", "wb"} -> Buffers.w
    [] mode \in {"r+", "r+b"} -> Buffers.rw

\* What io.open makes of its arguments.
Opened(mode, buffering, encoding) ==
  CASE mode \in TextModes -> IF buffering = "0" THEN "ValueError" ELSE "TextIOWrapper"
    [] mode \in BinaryModes ->
         IF encoding = "str" THEN "ValueError"
         ELSE IF buffering = "0" THEN "FileIO"
         ELSE BufferFor(mode)

BufferedIOBaseMethods == {"detach", "read1", "readinto", "readinto1"}

RuntimeMethods ==
  [class \in FileClasses |->
     CASE class = "FileIO" -> {"readall", "readinto"}
       [] class = "TextIOWrapper" -> {"detach", "encoding", "errors", "newlines"}
       [] class = "BufferedWriter" -> BufferedIOBaseMethods
       [] class \in {"BufferedReader", "BufferedRandom"} -> BufferedIOBaseMethods \cup {"peek"}]

\* The methods the stub declares, its base classes' included.
AsyncFileIOMethods == {"readall", "readinto"}
AsyncTextIOMethods == {"encoding", "errors", "newlines"}

StaticMethods ==
  [AsyncIO |-> {}, AsyncBinaryIO |-> {},
   AsyncTextIO |-> AsyncTextIOMethods,
   AsyncFileIO |-> AsyncFileIOMethods,
   AsyncBufferedFileIO |-> AsyncFileIOMethods \cup {"detach", "readinto1", "read1", "peek"},
   AsyncTextFileIO |-> AsyncTextIOMethods \cup {"detach"}]

-----------------------------------------------------------------------------
(* The program. *)

Init ==
  /\ call \in Calls
  /\ static = "unknown"
  /\ file = "none"
  /\ pc = "written"

Check ==
  /\ pc = "written"
  /\ static' = StaticClass(call)
  /\ pc' = "checked"
  /\ UNCHANGED <<call, file>>

\* The arguments have the values of their constants, their defaults, or any.
ModesOf(arg) ==
  CASE arg = "omitted" -> {"r"}
    [] arg = "str" -> TextModes \cup BinaryModes
    [] OTHER -> {arg}

BufferingsOf(arg) ==
  CASE arg = "omitted" -> {"-1"}
    [] arg = "int" -> BufferSizes
    [] OTHER -> {arg}

Open ==
  /\ pc = "checked"
  /\ \E mode \in ModesOf(call.mode), buffering \in BufferingsOf(call.buffering) :
       LET opened == Opened(mode, buffering, call.encoding)
       IN  IF opened = "ValueError"
           THEN pc' = "ValueError" /\ UNCHANGED file
           ELSE pc' = "open" /\ file' = opened
  /\ UNCHANGED <<call, static>>

\* Mutant: what is left after detach() is still the file that was opened.
DetachKeepsFile ==
  /\ pc = "open"
  /\ "detach" \in StaticMethods[static]
  /\ pc' = "detached"
  /\ static' = "AsyncBinaryIO"
  /\ UNCHANGED <<call, file>>

\* await file.detach(), where the class has it: the object beneath, wrapped.
Detach ==
  /\ pc = "open"
  /\ "detach" \in StaticMethods[static]
  /\ pc' = "detached"
  /\ static' = "AsyncBinaryIO"
  /\ IF file = "TextIOWrapper" THEN file' \in BufferedClasses ELSE file' = "FileIO"
  /\ UNCHANGED call

\* Any other method the class has.
Use ==
  /\ pc \in {"open", "detached"}
  /\ \E method \in StaticMethods[static] \ {"detach"} :
       pc' = IF method \in RuntimeMethods[file] THEN pc ELSE "AttributeError"
  /\ UNCHANGED <<call, static, file>>

Next == Check \/ Open \/ Detach \/ Use

Spec == Init /\ [][Next]_vars

-----------------------------------------------------------------------------
(***************************************************************************)
(* Properties.                                                             *)
(***************************************************************************)

\* A call is of one of the stub's classes once it is checked, and after detach()
\* there is a file beneath the one that was opened.
TypeOK ==
  /\ call \in Calls
  /\ IF pc = "written" THEN static = "unknown" ELSE static \in DOMAIN StaticMethods
  /\ pc \in {"written", "checked", "open", "detached", "ValueError", "AttributeError"}
  /\ IF pc \in {"written", "checked", "ValueError"} THEN file = "none" ELSE file \in FileClasses
  /\ pc = "detached" => file # "TextIOWrapper"

\* The file objects that each class of the stub stands for.
Represents ==
  [AsyncIO |-> FileClasses,
   AsyncBinaryIO |-> FileClasses \ {"TextIOWrapper"},
   AsyncTextIO |-> {"TextIOWrapper"},
   AsyncFileIO |-> FileClasses \ {"TextIOWrapper"},
   AsyncBufferedFileIO |-> BufferedClasses,
   AsyncTextFileIO |-> {"TextIOWrapper"}]

\* Whatever the arguments turn out to be, the file is one that the class mypy
\* chose stands for: no overload that comes first claims more than is known
\* (lines 556-632 and 659-703).
ClassSound == file \in FileClasses => file \in Represents[static]

\* The class is the most specific one when mode and buffering are left out or
\* are among the constants the stubs name, as README.rst has it (lines 132-136).
NamedConstants(c) ==
  /\ c.of # "wrap_file"
  /\ c.mode # "str" /\ c.buffering \in {"omitted", "0", "1", "-1"}

MostSpecific(class) ==
  CASE class = "TextIOWrapper" -> "AsyncTextFileIO"
    [] class = "FileIO" -> "AsyncFileIO"
    [] class \in BufferedClasses -> "AsyncBufferedFileIO"

ConstantsInferred ==
  (pc = "open" /\ NamedConstants(call)) => static = MostSpecific(file)

\* What the comment in lines 489-492 says of the classes: they replicate the
\* hierarchy of the objects that Trio's wrappers forward their methods to.
MethodsForwarded == pc # "AttributeError"

=============================================================================
