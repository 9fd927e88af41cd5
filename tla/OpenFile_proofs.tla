--------------------------- MODULE OpenFile_proofs ---------------------------
(***************************************************************************)
(* Proofs about OpenFile, for every set of buffer sizes: the class that    *)
(* mypy gives a call is one the opened file belongs to, also after         *)
(* detach(), and the most specific one for constant arguments.             *)
(***************************************************************************)
EXTENDS OpenFile, TLAPS

USE OpenFileAssumption

\* The class chosen at the check stays that of the call until the file is opened.
IInv ==
  /\ TypeOK
  /\ pc = "checked" => static = StaticClass(call)
  /\ ClassSound
  /\ ConstantsInferred

-----------------------------------------------------------------------------
(* The choice among the overloads. *)

\* The overload at n is chosen when it takes the call and none before it does.
LEMMA FirstIs ==
  ASSUME NEW overloads, NEW taking \in SUBSET Nat, NEW n \in taking,
         \A j \in taking : n <= j
  PROVE  FirstOf(overloads, taking) = overloads[n].returns
<1>1. \A m \in taking : (\A j \in taking : m <= j) => m = n
  OBVIOUS
<1> QED
  BY <1>1 DEF FirstOf

\* What open_file() and Path.open() are declared to return, read off the
\* arguments alone.
OpenClass(c) ==
  IF c.mode \in {"omitted"} \cup TextModes THEN "AsyncTextFileIO"
  ELSE IF c.mode = "str" \/ c.encoding = "str" THEN "AsyncIO"
  ELSE IF c.buffering \in {"omitted", "-1", "1"} THEN "AsyncBufferedFileIO"
  ELSE "AsyncFileIO"

\* The same for wrap_file() of what builtins.open returns.
WrapClass(c) ==
  IF c.mode \in {"omitted"} \cup TextModes THEN "AsyncTextIO"
  ELSE IF c.mode = "str" \/ c.encoding = "str" THEN "AsyncIO"
  ELSE "AsyncBinaryIO"

LEMMA OpenClassChosen ==
  ASSUME NEW c \in Calls, c.of # "wrap_file"
  PROVE  StaticClass(c) = OpenClass(c)
<1> DEFINE overloads == <<TextMode, Unbuffered, Buffered, Undetermined, ModeUnknown>>
           taking    == {i \in DOMAIN overloads : Takes(overloads[i], c)}
<1>1. StaticClass(c) = FirstOf(overloads, taking)
  BY DEF StaticClass, OpenOverloads, OpenFileOverloads, PathOpenOverloads
<1>2. /\ c.mode \in ModeArgs /\ c.buffering \in BufferingArgs
      /\ c.encoding \in EncodingArgs
  BY DEF Calls
<1>3. /\ DOMAIN overloads = 1..5
      /\ overloads[1] = TextMode /\ overloads[2] = Unbuffered /\ overloads[3] = Buffered
      /\ overloads[4] = Undetermined /\ overloads[5] = ModeUnknown
  OBVIOUS
<1> HIDE DEF overloads
<1>4. /\ 1 \in taking <=> Takes(TextMode, c)
      /\ 2 \in taking <=> Takes(Unbuffered, c)
      /\ 3 \in taking <=> Takes(Buffered, c)
      /\ 4 \in taking <=> Takes(Undetermined, c)
      /\ 5 \in taking <=> Takes(ModeUnknown, c)
      /\ taking \subseteq 1..5
  BY <1>3
<1>5. /\ overloads[1].returns = "AsyncTextFileIO"
      /\ overloads[2].returns = "AsyncFileIO"
      /\ overloads[3].returns = "AsyncBufferedFileIO"
      /\ overloads[4].returns = "AsyncFileIO"
      /\ overloads[5].returns = "AsyncIO"
  BY <1>3 DEF TextMode, Unbuffered, Buffered, Undetermined, ModeUnknown, Overload
<1> HIDE DEF taking
<1>6. taking \in SUBSET Nat
  BY <1>4
<1> USE DEF Takes, Overload, ModeArgs, TextModes, BinaryModes, BufferingArgs, EncodingArgs,
            NoEncoding, BufferingGiven
<1>7. CASE c.mode \in {"omitted"} \cup TextModes
  <2>1. 1 \in taking
    BY <1>2, <1>4, <1>7 DEF TextMode
  <2> QED
    BY <1>1, <1>4, <1>5, <1>6, <1>7, <2>1, FirstIs DEF OpenClass
<1>8. CASE c.mode = "str" \/ (c.mode \in BinaryModes /\ c.encoding = "str")
  <2>1. taking = {5}
    <3>1. 1 \notin taking
      BY <1>4, <1>8 DEF TextMode
    <3>2. 2 \notin taking
      BY <1>4, <1>8 DEF Unbuffered
    <3>3. 3 \notin taking
      BY <1>4, <1>8 DEF Buffered
    <3>4. 4 \notin taking
      BY <1>4, <1>8 DEF Undetermined
    <3>5. 5 \in taking
      BY <1>2, <1>4, <1>8 DEF ModeUnknown
    <3>6. \A i \in 1..5 : i \in {1, 2, 3, 4} \/ i = 5
      OBVIOUS
    <3> QED
      BY <1>4, <3>1, <3>2, <3>3, <3>4, <3>5, <3>6
  <2> QED
    BY <1>1, <1>5, <1>6, <1>8, <2>1, FirstIs DEF OpenClass
<1>9. CASE c.mode \in BinaryModes /\ c.encoding # "str"
  <2>1. 1 \notin taking
    BY <1>4, <1>9 DEF TextMode
  <2>2. CASE c.buffering \in {"omitted", "-1", "1"}
    <3>1. 2 \notin taking
      BY <1>4, <2>2 DEF Unbuffered
    <3>2. 3 \in taking
      BY <1>2, <1>4, <1>9, <2>2 DEF Buffered
    <3>3. \A j \in taking : 3 <= j
      BY <1>4, <2>1, <3>1
    <3> QED
      BY <1>1, <1>5, <1>6, <1>9, <2>2, <3>2, <3>3, FirstIs DEF OpenClass
  <2>3. CASE c.buffering \notin {"omitted", "-1", "1"}
    <3>1. 3 \notin taking
      BY <1>4, <2>3 DEF Buffered
    <3>2. 4 \in taking
      BY <1>2, <1>4, <1>9, <2>3 DEF Undetermined
    <3>3. CASE 2 \in taking
      <4>1. \A j \in taking : 2 <= j
        BY <1>4, <2>1
      <4> QED
        BY <1>1, <1>5, <1>6, <1>9, <2>3, <3>3, <4>1, FirstIs DEF OpenClass
    <3>4. CASE 2 \notin taking
      <4>1. \A j \in taking : 4 <= j
        BY <1>4, <2>1, <3>1, <3>4
      <4> QED
        BY <1>1, <1>5, <1>6, <1>9, <2>3, <3>2, <4>1, FirstIs DEF OpenClass
    <3> QED
      BY <3>3, <3>4
  <2> QED
    BY <2>2, <2>3
<1> QED
  BY <1>2, <1>7, <1>8, <1>9

LEMMA WrapClassChosen ==
  ASSUME NEW c \in Calls, c.of = "wrap_file"
  PROVE  StaticClass(c) = WrapClass(c)
<1> DEFINE of     == Superclasses[BuiltinOpenClass(c)]
           taking == {i \in DOMAIN WrapFileOverloads : WrapFileOverloads[i].takes \cap of # {}}
<1>1. StaticClass(c) = FirstOf(WrapFileOverloads, taking)
  BY DEF StaticClass
<1>2. c.mode \in ModeArgs /\ c.encoding \in EncodingArgs
  BY DEF Calls
<1>3. /\ DOMAIN WrapFileOverloads = 1..4
      /\ WrapFileOverloads[1].takes = {"TextIO", "TextIOBase"}
      /\ WrapFileOverloads[2].takes = {"BinaryIO", "BufferedIOBase"}
      /\ WrapFileOverloads[3].takes = {"RawIOBase"}
      /\ WrapFileOverloads[4].takes = {"IO", "IOBase"}
  BY DEF WrapFileOverloads
<1>4. /\ WrapFileOverloads[1].returns = "AsyncTextIO"
      /\ WrapFileOverloads[2].returns = "AsyncBinaryIO"
      /\ WrapFileOverloads[4].returns = "AsyncIO"
  BY DEF WrapFileOverloads
<1>5. /\ 1 \in taking <=> "TextIO" \in of \/ "TextIOBase" \in of
      /\ 2 \in taking <=> "BinaryIO" \in of \/ "BufferedIOBase" \in of
      /\ 3 \in taking <=> "RawIOBase" \in of
      /\ 4 \in taking <=> "IO" \in of \/ "IOBase" \in of
      /\ taking \subseteq 1..4
  <2> HIDE DEF of
  <2> QED
    BY <1>3
<1>6. taking \in SUBSET Nat
  BY <1>5
<1> HIDE DEF taking
<1>7. CASE c.mode \in {"omitted"} \cup TextModes
  <2>1. BuiltinOpenClass(c) = "TextIOWrapper"
    BY <1>7 DEF BuiltinOpenClass, TextModes, BinaryModes
  <2>2. 1 \in taking
    BY <1>5, <2>1 DEF Superclasses
  <2> QED
    BY <1>1, <1>4, <1>5, <1>6, <1>7, <2>2, FirstIs DEF WrapClass
<1>8. CASE c.mode = "str" \/ (c.mode \in BinaryModes /\ c.encoding = "str")
  <2>1. BuiltinOpenClass(c) = "IO"
    BY <1>8 DEF BuiltinOpenClass, TextModes, BinaryModes
  <2>2. of = {"IO"}
    BY <2>1 DEF Superclasses
  <2> HIDE DEF of
  <2>3. 1 \notin taking /\ 2 \notin taking /\ 3 \notin taking /\ 4 \in taking
    BY <1>5, <2>2
  <2>4. \A j \in taking : 4 <= j
    BY <1>5, <2>3
  <2> QED
    BY <1>1, <1>4, <1>6, <1>8, <2>3, <2>4, FirstIs DEF WrapClass, TextModes, BinaryModes
<1>9. CASE c.mode \in BinaryModes /\ c.encoding # "str"
  <2>1. BuiltinOpenClass(c) \in {"FileIO", "Buffered", "BinaryIO"}
    BY <1>9 DEF BuiltinOpenClass, TextModes, BinaryModes
  <2>2. "BinaryIO" \in of /\ "TextIO" \notin of /\ "TextIOBase" \notin of
    BY <2>1 DEF Superclasses
  <2> HIDE DEF of
  <2>3. 2 \in taking /\ 1 \notin taking
    BY <1>5, <2>2
  <2>4. \A j \in taking : 2 <= j
    BY <1>5, <2>3
  <2> QED
    BY <1>1, <1>4, <1>6, <1>9, <2>3, <2>4, FirstIs DEF WrapClass, TextModes, BinaryModes
<1> QED
  BY <1>2, <1>7, <1>8, <1>9 DEF ModeArgs

-----------------------------------------------------------------------------
(* Opening. *)

\* The class of a call represents what its arguments may open, whatever those
\* that are no constants turn out to be, and is the best one for constants.
LEMMA OpenedRepresented ==
  ASSUME NEW c \in Calls,
         NEW mode \in ModesOf(c.mode), NEW buffering \in BufferingsOf(c.buffering),
         Opened(mode, buffering, c.encoding) # "ValueError"
  PROVE  LET opened == Opened(mode, buffering, c.encoding)
         IN  /\ opened \in FileClasses
             /\ StaticClass(c) \in DOMAIN StaticMethods
             /\ opened \in Represents[StaticClass(c)]
             /\ NamedConstants(c) => StaticClass(c) = MostSpecific(opened)
<1> DEFINE opened == Opened(mode, buffering, c.encoding)
<1>1. /\ c.mode \in ModeArgs /\ c.buffering \in BufferingArgs
      /\ c.encoding \in EncodingArgs
  BY DEF Calls
<1>2. /\ BufferedClasses = {"BufferedReader", "BufferedWriter", "BufferedRandom"}
      /\ FileClasses = {"FileIO", "TextIOWrapper"} \cup BufferedClasses
  BY DEF BufferedClasses, FileClasses, Buffers
<1>3. /\ c.mode \in {"omitted"} \cup TextModes => mode \in TextModes
      /\ c.mode \in BinaryModes => mode \in BinaryModes
      /\ mode \in TextModes \cup BinaryModes
  BY <1>1 DEF ModesOf, ModeArgs, TextModes, BinaryModes
<1>4. mode \in TextModes => opened = "TextIOWrapper"
  BY DEF Opened, TextModes, BinaryModes
<1>5. mode \in BinaryModes =>
        /\ c.encoding # "str"
        /\ buffering = "0" => opened = "FileIO"
        /\ buffering # "0" => opened \in BufferedClasses
  BY <1>2 DEF Opened, BufferFor, Buffers, TextModes, BinaryModes
<1>6. /\ c.buffering \in {"omitted", "-1", "1"} => buffering # "0"
      /\ c.buffering = "0" => buffering = "0"
  BY DEF BufferingsOf
<1>7. opened \in FileClasses
  BY <1>2, <1>3, <1>4, <1>5
<1>8. TextModes \cap BinaryModes = {} /\ "str" \notin TextModes \cup BinaryModes
  BY DEF TextModes, BinaryModes
<1>9. DOMAIN StaticMethods = {"AsyncIO", "AsyncBinaryIO", "AsyncTextIO", "AsyncFileIO",
                              "AsyncBufferedFileIO", "AsyncTextFileIO"}
  BY DEF StaticMethods
<1> HIDE DEF opened
<1>10. CASE c.of # "wrap_file"
  <2>1. StaticClass(c) = OpenClass(c)
    BY <1>10, OpenClassChosen
  <2>2. CASE c.mode \in {"omitted"} \cup TextModes
    BY <1>2, <1>3, <1>4, <1>9, <2>1, <2>2 DEF OpenClass, Represents, MostSpecific, opened
  <2>3. CASE c.mode = "str"
    BY <1>7, <1>9, <2>1, <2>3 DEF OpenClass, Represents, NamedConstants, opened, TextModes
  <2>4. CASE c.mode \in BinaryModes
    <3>1. mode \in BinaryModes /\ c.encoding # "str"
      BY <1>3, <1>5, <2>4
    <3>2. CASE c.buffering \in {"omitted", "-1", "1"}
      <4>1. StaticClass(c) = "AsyncBufferedFileIO" /\ opened \in BufferedClasses
        BY <1>5, <1>6, <1>8, <2>1, <2>4, <3>1, <3>2 DEF OpenClass, BinaryModes, TextModes
      <4> QED
        BY <1>2, <1>7, <1>9, <4>1 DEF Represents, MostSpecific, opened
    <3>3. CASE c.buffering \notin {"omitted", "-1", "1"}
      <4>1. StaticClass(c) = "AsyncFileIO" /\ opened \in {"FileIO"} \cup BufferedClasses
        BY <1>5, <1>8, <2>1, <2>4, <3>1, <3>3 DEF OpenClass, BinaryModes, TextModes
      <4>2. NamedConstants(c) => opened = "FileIO"
        BY <1>5, <1>6, <3>1, <3>3 DEF NamedConstants
      <4> QED
        BY <1>2, <1>7, <1>9, <4>1, <4>2 DEF Represents, MostSpecific, opened
    <3> QED
      BY <3>2, <3>3
  <2> QED
    BY <1>1, <2>2, <2>3, <2>4 DEF ModeArgs
<1>11. CASE c.of = "wrap_file"
  <2>1. StaticClass(c) = WrapClass(c) /\ ~ NamedConstants(c)
    BY <1>11, WrapClassChosen DEF NamedConstants
  <2>2. CASE c.mode \in {"omitted"} \cup TextModes
    BY <1>2, <1>3, <1>4, <1>9, <2>1, <2>2 DEF WrapClass, Represents, opened
  <2>3. CASE c.mode = "str"
    BY <1>7, <1>9, <2>1, <2>3 DEF WrapClass, Represents, opened, TextModes
  <2>4. CASE c.mode \in BinaryModes
    <3>1. mode \in BinaryModes /\ c.encoding # "str"
      BY <1>3, <1>5, <2>4
    <3>2. StaticClass(c) = "AsyncBinaryIO" /\ opened \in {"FileIO"} \cup BufferedClasses
      BY <1>5, <2>1, <2>4, <3>1 DEF WrapClass, BinaryModes, TextModes
    <3> QED
      BY <1>2, <1>7, <1>9, <2>1, <3>2 DEF Represents, opened
  <2> QED
    BY <1>1, <2>2, <2>3, <2>4 DEF ModeArgs
<1> QED
  BY <1>10, <1>11

\* Every call is of one of the stub's classes.
LEMMA ClassDeclared ==
  ASSUME NEW c \in Calls
  PROVE  StaticClass(c) \in DOMAIN StaticMethods
<1>1. OpenClass(c) \in DOMAIN StaticMethods /\ WrapClass(c) \in DOMAIN StaticMethods
  BY DEF OpenClass, WrapClass, StaticMethods
<1> QED
  BY <1>1, OpenClassChosen, WrapClassChosen

-----------------------------------------------------------------------------
(* The inductive invariant. *)

LEMMA InitInv == Init => IInv
BY DEF Init, IInv, TypeOK, ClassSound, ConstantsInferred, FileClasses, BufferedClasses, Buffers

LEMMA StepInv == IInv /\ [Next]_vars => IInv'
<1> SUFFICES ASSUME IInv, [Next]_vars PROVE IInv'
  OBVIOUS
<1>0. TypeOK /\ ClassSound /\ ConstantsInferred
  BY DEF IInv
<1>f. FileClasses = {"FileIO", "TextIOWrapper", "BufferedReader", "BufferedWriter",
                     "BufferedRandom"}
  BY DEF FileClasses, BufferedClasses, Buffers
<1>1. CASE Check
  <2>1. StaticClass(call) \in DOMAIN StaticMethods
    BY <1>0, ClassDeclared DEF TypeOK
  <2> QED
    BY <1>0, <1>f, <1>1, <2>1 DEF Check, IInv, TypeOK, ClassSound, ConstantsInferred
<1>2. CASE Open
  <2>1. PICK mode \in ModesOf(call.mode), buffering \in BufferingsOf(call.buffering) :
          LET opened == Opened(mode, buffering, call.encoding)
          IN  IF opened = "ValueError"
              THEN pc' = "ValueError" /\ UNCHANGED file
              ELSE pc' = "open" /\ file' = opened
    BY <1>2 DEF Open
  <2>2. pc = "checked" /\ UNCHANGED <<call, static>> /\ static = StaticClass(call) /\ call \in Calls
    BY <1>2, <1>0 DEF Open, IInv, TypeOK
  <2> DEFINE opened == Opened(mode, buffering, call.encoding)
  <2>3. CASE opened = "ValueError"
    BY <1>0, <1>f, <2>1, <2>2, <2>3 DEF IInv, TypeOK, ClassSound, ConstantsInferred
  <2>4. CASE opened # "ValueError"
    <3>1. /\ opened \in FileClasses
          /\ opened \in Represents[static]
          /\ NamedConstants(call) => static = MostSpecific(opened)
      BY <2>2, <2>4, OpenedRepresented
    <3>2. pc' = "open" /\ file' = opened
      BY <2>1, <2>4
    <3> HIDE DEF opened
    <3>3. TypeOK'
      BY <1>0, <2>2, <3>1, <3>2 DEF TypeOK
    <3>4. ClassSound' /\ ConstantsInferred'
      BY <2>2, <3>1, <3>2 DEF ClassSound, ConstantsInferred, NamedConstants, MostSpecific
    <3> QED
      BY <3>2, <3>3, <3>4 DEF IInv
  <2> QED
    BY <2>3, <2>4
<1>3. CASE Detach
  <2>1. /\ pc = "open" /\ pc' = "detached" /\ static' = "AsyncBinaryIO" /\ call' = call
        /\ file' \in FileClasses \ {"TextIOWrapper"}
    BY <1>f, <1>3 DEF Detach, BufferedClasses, Buffers
  <2>2. "AsyncBinaryIO" \in DOMAIN StaticMethods
    BY DEF StaticMethods
  <2>3. Represents["AsyncBinaryIO"] = FileClasses \ {"TextIOWrapper"}
    BY DEF Represents
  <2> QED
    BY <1>0, <2>1, <2>2, <2>3 DEF IInv, TypeOK, ClassSound, ConstantsInferred
<1>4. CASE Use
  <2>1. pc \in {"open", "detached"} /\ pc' \in {pc, "AttributeError"} /\ UNCHANGED <<call, static, file>>
    BY <1>4 DEF Use
  <2> QED
    BY <1>0, <2>1 DEF IInv, TypeOK, ClassSound, ConstantsInferred, NamedConstants, MostSpecific
<1>5. CASE UNCHANGED vars
  BY <1>5 DEF vars, IInv, TypeOK, ClassSound, ConstantsInferred, NamedConstants, MostSpecific
<1> QED
  BY <1>1, <1>2, <1>3, <1>4, <1>5 DEF Next

-----------------------------------------------------------------------------
(* The theorems. *)

THEOREM OpenFileInvariant == Spec => []IInv
<1>1. Init => IInv
  BY InitInv
<1>2. IInv /\ [Next]_vars => IInv'
  BY StepInv
<1> QED
  BY <1>1, <1>2, PTL DEF Spec

\* Every call is of a declared class, and there is always a file beneath one that
\* was detached from.
THEOREM OpenFileTypeOK == Spec => []TypeOK
<1>1. IInv => TypeOK
  BY DEF IInv
<1> QED
  BY <1>1, OpenFileInvariant, PTL

\* The class mypy infers for a call of open_file(), Path.open() or wrap_file() is
\* one the file belongs to, whatever size and mode the arguments turn out to be,
\* also after detach() (trio-stubs/__init__.pyi lines 556-632 and 659-703).
THEOREM ClassesAreSound == Spec => []ClassSound
<1>1. IInv => ClassSound
  BY DEF IInv
<1> QED
  BY <1>1, OpenFileInvariant, PTL

\* For constant arguments the class is the most specific one (README.rst lines
\* 132-136), so no overload is hidden behind an earlier one.
THEOREM ConstantsAreInferred == Spec => []ConstantsInferred
<1>1. IInv => ConstantsInferred
  BY DEF IInv
<1> QED
  BY <1>1, OpenFileInvariant, PTL

=============================================================================
