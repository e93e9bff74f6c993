----------------------------- MODULE ValuePath -----------------------------
(***************************************************************************)
(* What becomes of a value between a data point and the memory of the PLC: *)
(*                                                                         *)
(*   Common::S7Utils      the S7 item that an address names                *)
(*   Transformations      the bytes of a WinCC OA value, most significant  *)
(*                        first as the PLC has them, and back              *)
(*   HWMapper, RAMS7200MS which addresses are polled, and under which name *)
(*   Constants, Logger    the debug level, which is written like a value   *)
(*                                                                         *)
(* A whole way is one step here: the steps of the threads on it are module *)
(* DataPath.  An address is what is written in it, not its characters, and *)
(* its device is the one that is modelled.  A float stands for the integer *)
(* that has its 32 bits.                                                   *)
(***************************************************************************)
EXTENDS Integers, Sequences, FiniteSets, SequencesExt

CONSTANTS
  Bits,         \* bits of a byte: 8, fewer in a small instance
  TextSize,     \* RAMS7200StringTrans::_size: 255
  MemSize,      \* bytes of the PLC's memory area V
  Memories,     \* what the PLC's program may have put there
  Configs,      \* the peripheral addresses that may be configured
  ValuesOf,     \* the values that WinCC OA writes, by transformation
  MaxConfigs,   \* bound: addresses configured at a time
  MaxWrites     \* bound: writes of WinCC OA

(* letter: first character of an address.  kind: the second, "bit" for a   *)
(* digit and "none" in an address of one character.  number: the digits    *)
(* after them.  suffix: those after the dot, <<>> without one.             *)
Address == [letter : {"V", "I", "E", "Q", "A", "M", "F", "T", "C", "Z", "other"},
            kind : {"B", "W", "D", "bit", "none"}, number : Nat, suffix : Seq(Nat)]
Types == {"bool", "uint8", "int16", "int32", "float", "string"}
Directions == {"out", "in", "inout"}

(* The text of a peripheral address: "plc" for IP$addr$poll, otherwise its *)
(* only part.  poll: the digits of a poll time, "05" has a zero before 5.  *)
PollText == [zeros : Nat, number : Nat]
Name == {"plc", "_DEBUGLVL", "other"}
Config == [name : Name, addr : Address, poll : PollText,
           type : Types \cup {"unsupported"}, dir : Directions]
SameVar(c, d) == c.name = "plc" /\ d.name = "plc" /\ c.addr = d.addr

ASSUME ValuePathAssumption ==
  /\ Bits \in 1..8 /\ TextSize \in Nat \ {0} /\ MemSize \in Nat
  /\ Configs \subseteq Config
  /\ \A c, d \in Configs : SameVar(c, d) /\ c.poll = d.poll => c = d
  /\ MaxConfigs \in Nat /\ MaxWrites \in Nat
  /\ \A m \in Memories : m \in [0..(MemSize - 1) -> 0..(2 ^ Bits - 1)]

VARIABLES
  configs,      \* the addresses in the base class's HWMapper
  objects,      \* those of them with an HWObject
  msVars,       \* RAMS7200MS::vars: poll time and _toPlc.pdata of each variable,
                \* with the address and the value it was made from; <<>> is null
  logLvl,       \* Logger::loggingLevel
  mem,          \* the PLC's memory
  dp,           \* the value each data point shows, <<>> before the first
  known,        \* the last value sent for each, while nothing has overwritten it
  writes        \* writes of WinCC OA so far

vars == <<configs, objects, msVars, logLvl, mem, dp, known, writes>>
-----------------------------------------------------------------------------
(* Common::S7Utils.                                                        *)
Invalid == -1
AddressGetArea(a) ==
  CASE a.kind = "none"         -> "invalid"
    [] a.letter = "V"          -> "DB"
    [] a.letter \in {"I", "E"} -> "PE"
    [] a.letter \in {"Q", "A"} -> "PA"
    [] a.letter \in {"M", "F"} -> "MK"
    [] a.letter = "T"          -> "TM"
    [] a.letter \in {"C", "Z"} -> "CT"
    [] OTHER                   -> "invalid"

AddressGetStart(a) ==
  IF a.kind = "none" \/ (a.kind = "bit" /\ a.suffix = <<>>) THEN Invalid ELSE a.number

AddressGetAmount(a) ==
  CASE a.kind = "none"                    -> Invalid
    [] a.kind = "B" /\ a.suffix # <<>>    -> a.suffix[1]
    [] OTHER                              -> 1

AddressGetBit(a) ==
  CASE a.kind = "none"                    -> Invalid
    [] a.kind = "bit" /\ a.suffix # <<>>  -> a.suffix[1]
    [] OTHER                              -> 0

DataSizeByte(kind) == [bit |-> 1, B |-> 1, W |-> 2, D |-> 4][kind]

AddressIsValid(a) ==
  /\ AddressGetArea(a) # "invalid" /\ a.kind # "none"
  /\ AddressGetAmount(a) # Invalid /\ AddressGetStart(a) # Invalid

(* TS7DataItemFromAddress: the position of a bit is counted in bits.       *)
ItemStartInBytes(a) == AddressGetStart(a) + AddressGetBit(a)
ItemStart(a) == IF a.kind = "bit" THEN AddressGetStart(a) * Bits + AddressGetBit(a)
                                  ELSE AddressGetStart(a)
ByteSize(a) == DataSizeByte(a.kind) * AddressGetAmount(a)
-----------------------------------------------------------------------------
(* Transformations.  Bytes of an integer in the order of the host, lowest  *)
(* first; a value that is too wide loses its highest bytes.                *)
Base == 2 ^ Bits
Byte == 0..(Base - 1)
Weight == <<1, Base, Base * Base, Base * Base * Base>>
HostBytesUncut(v, n) == [i \in 1..n |-> v \div Weight[i]]
HostBytes(v, n) == [i \in 1..n |-> (v \div Weight[i]) % Base]

Modulus(n) == Base * Weight[n]

(* WinCC OA's integers have four bytes, its texts have no zero in them.    *)
ASSUME ValuesAssumption ==
  /\ ValuesOf["bool"] \subseteq {0, 1}
  /\ \A type \in {"uint8", "int16", "int32", "float"} : \A v \in ValuesOf[type] :
       v \in Int /\ 2 * v \in -Modulus(4)..(Modulus(4) - 1)
  /\ ValuesOf["string"] \subseteq Seq(Byte \ {0})

Unsigned(b) ==
  CASE Len(b) = 1 -> b[1]
    [] Len(b) = 2 -> b[1] + b[2] * Weight[2]
    [] Len(b) = 4 -> b[1] + b[2] * Weight[2] + b[3] * Weight[3] + b[4] * Weight[4]
SignedAsUnsigned(b) == Unsigned(b)
Signed(b) == IF 2 * Unsigned(b) >= Modulus(Len(b)) THEN Unsigned(b) - Modulus(Len(b))
                                                   ELSE Unsigned(b)

(* Common::Utils::CopyNSwapBytes                                           *)
CopyNBytes(b) == b
CopyNSwapBytes(b) == Reverse(b)

ItemSize == [bool |-> 1, uint8 |-> 1, int16 |-> 2, int32 |-> 4, float |-> 4, string |-> TextSize]

(* toPeriph of each class, <<>> if it fails: the buffer has itemSize bytes. *)
(* Bytes of a buffer behind the end of a text are zero.                    *)
BoolToPeriph(v) == <<v>>
Uint8ToPeriph(v) == HostBytes(v, 1)
Int16ToPeriph(v) == CopyNSwapBytes(HostBytes(v, 2))
Int32ToPeriph(v) == CopyNSwapBytes(HostBytes(v, 4))
FloatToPeriph(bits) == CopyNSwapBytes(HostBytes(bits, 4))
StringToPeriph(text) ==
  IF Len(text) >= TextSize THEN <<>> ELSE text \o [i \in 1..(TextSize - Len(text)) |-> 0]

ToPeriph(type, v) ==
  CASE type = "bool"   -> BoolToPeriph(v)
    [] type = "uint8"  -> Uint8ToPeriph(v)
    [] type = "int16"  -> Int16ToPeriph(v)
    [] type = "int32"  -> Int32ToPeriph(v)
    [] type = "float"  -> FloatToPeriph(v)
    [] type = "string" -> StringToPeriph(v)

(* toVar of each class, <<>> for NULL: the item of subindex 0 is taken.    *)
WrongLength(b, type) == Len(b) % ItemSize[type] > 0 \/ Len(b) < ItemSize[type]
FirstItem(b, type) == SubSeq(b, 1, ItemSize[type])

BoolToVar(b) == IF b = <<>> THEN <<>> ELSE <<b[1]>>
Uint8ToVar(b) == IF WrongLength(b, "uint8") THEN <<>> ELSE <<b[1]>>
Int16ToVar(b) ==
  IF WrongLength(b, "int16") THEN <<>> ELSE <<Signed(CopyNSwapBytes(FirstItem(b, "int16")))>>
Int32ToVar(b) ==
  IF WrongLength(b, "int32") THEN <<>> ELSE <<Signed(CopyNSwapBytes(FirstItem(b, "int32")))>>
FloatToVar(b) ==
  IF WrongLength(b, "float") THEN <<>> ELSE <<Signed(CopyNSwapBytes(FirstItem(b, "float")))>>
StringToVar(b) ==
  LET end == SelectInSeq(b, LAMBDA x : x = 0)
  IN  <<IF end = 0 THEN b ELSE SubSeq(b, 1, end - 1)>>

ToVar(type, b) ==
  CASE type = "bool"   -> BoolToVar(b)
    [] type = "uint8"  -> Uint8ToVar(b)
    [] type = "int16"  -> Int16ToVar(b)
    [] type = "int32"  -> Int32ToVar(b)
    [] type = "float"  -> FloatToVar(b)
    [] type = "string" -> StringToVar(b)
-----------------------------------------------------------------------------
(* The PLC.  An item that is not all in its memory is answered by an error;*)
(* the memory behind other letters than V is left out.                     *)
Mem == 0..(MemSize - 1)
BitOf(byte, k) == (byte \div 2 ^ k) % 2
WithBit(byte, k, b) == byte + (b - BitOf(byte, k)) * 2 ^ k

InMemory(a) ==
  /\ AddressIsValid(a) /\ AddressGetArea(a) = "DB"
  /\ IF a.kind = "bit" THEN ItemStart(a) < MemSize * Bits
                       ELSE ItemStart(a) + ByteSize(a) <= MemSize

ItemBytes(a) ==
  IF a.kind = "bit" THEN <<BitOf(mem[ItemStart(a) \div Bits], ItemStart(a) % Bits)>>
                    ELSE [i \in 1..ByteSize(a) |-> mem[ItemStart(a) + i - 1]]

Stored(a, b) ==
  LET s == ItemStart(a) IN
  IF a.kind = "bit"
    THEN [mem EXCEPT ![s \div Bits] = WithBit(@, s % Bits, IF b[1] = 0 THEN 0 ELSE 1)]
    ELSE [i \in Mem |-> IF i \in s..(s + ByteSize(a) - 1) THEN b[i - s + 1] ELSE mem[i]]

(* The bits that an address names: a bit beyond the end of its byte, which *)
(* nothing refuses, is one of a byte behind it.                            *)
Covers(a) ==
  CASE ~AddressIsValid(a) -> {}
    [] a.kind = "bit"     -> {<<a.number + a.suffix[1] \div Bits, a.suffix[1] % Bits>>}
    [] OTHER              -> (a.number..(a.number + ByteSize(a) - 1)) \X (0..(Bits - 1))
-----------------------------------------------------------------------------
Init ==
  /\ configs = {} /\ objects = {} /\ msVars = <<>>
  /\ logLvl = 1
  /\ mem \in Memories
  /\ dp = [c \in Configs |-> <<>>] /\ known = [c \in Configs |-> <<>>]
  /\ writes = 0

(* The poll time of a variable is a number, whatever its digits were.      *)
Stoi(poll) == poll.number
to_string(n) == [zeros |-> 0, number |-> n]

(* addVar keeps the poll time of a variable that is there.                 *)
IsRead(c) == c.name = "plc" /\ c.dir \in {"in", "inout"}
WithVar(c) ==
  [a \in DOMAIN msVars \cup {c.addr} |->
     IF a \in DOMAIN msVars THEN msVars[a] ELSE [pollTime |-> Stoi(c.poll), toPlc |-> <<>>]]

(* addDpPa.  An address of an unknown type goes to the base class only; an *)
(* invalid one is refused when its HWObject is already in the list.        *)
AddDpPa(c) ==
  /\ c \notin configs /\ Cardinality(configs) < MaxConfigs
  /\ configs' = configs \cup {c}
  /\ objects' = IF c.type \in Types THEN objects \cup {c} ELSE objects
  /\ msVars' = IF c.type \in Types /\ IsRead(c) /\ AddressIsValid(c.addr)
                 THEN WithVar(c) ELSE msVars
  /\ UNCHANGED <<logLvl, mem, dp, known, writes>>

(* clrDpPa finds no HWObject for an unknown type and leaves such a config. *)
(* removeVar does not ask for the poll time.                               *)
WithoutVarIfIn(c) == Restrict(msVars, DOMAIN msVars \ (IF c.dir = "in" THEN {c.addr} ELSE {}))
WithoutVar(c) == Restrict(msVars, DOMAIN msVars \ (IF IsRead(c) THEN {c.addr} ELSE {}))
ClrDpPa(c) ==
  /\ c \in objects
  /\ configs' = configs \ {c} /\ objects' = objects \ {c}
  /\ msVars' = WithoutVar(c)
  /\ dp' = [dp EXCEPT ![c] = <<>>] /\ known' = [known EXCEPT ![c] = <<>>]
  /\ UNCHANGED <<logLvl, mem, writes>>

(* What a read of size bytes finds in a buffer: one that has fewer is read *)
(* past its end.                                                           *)
Read(b, size) ==
  {SubSeq(b \o junk, 1, size) : junk \in [1..(IF Len(b) < size THEN size - Len(b) ELSE 0) -> Byte]}

(* toPeriph and writeData.  Without a variable the value is lost, as is    *)
(* one that toPeriph refuses.  The debug level is two bytes, whatever type *)
(* its address has.                                                        *)
QueuePLCItem(c, v, b) ==
  /\ msVars' = IF c.addr \in DOMAIN msVars
                 THEN [msVars EXCEPT ![c.addr].toPlc = <<[by |-> c, value |-> v, data |-> b]>>]
                 ELSE msVars
  /\ UNCHANGED <<logLvl, known>>

SetLogLvl(c, v, b) ==
  /\ \E two \in Read(b, 2) : logLvl' = Signed(CopyNSwapBytes(two))
  /\ known' = [k \in Configs |-> IF k = c THEN <<v>> ELSE IF k.name = c.name THEN <<>> ELSE known[k]]
  /\ UNCHANGED msVars

WriteData(c, v) ==
  /\ c \in objects /\ c.dir \in {"out", "inout"} /\ writes < MaxWrites
  /\ writes' = writes + 1
  /\ LET b == ToPeriph(c.type, v) IN
       \/ c.name = "plc" /\ b # <<>> /\ QueuePLCItem(c, v, b)
       \/ c.name = "_DEBUGLVL" /\ b # <<>> /\ SetLogLvl(c, v, b)
       \/ (c.name = "other" \/ b = <<>>) /\ UNCHANGED <<msVars, logLvl, known>>
  /\ UNCHANGED <<configs, objects, mem, dp>>

(* WriteToPLC sends as many bytes as the item has.                         *)
Touching(a, b) == Covers(a) \cap Covers(b) # {}
NowKnown(a, w) ==
  [k \in Configs |-> IF k = w.by THEN <<w.value>>
                     ELSE IF k.name = "plc" /\ Touching(k.addr, a) THEN <<>> ELSE known[k]]

WriteToPLC(a) ==
  /\ a \in DOMAIN msVars /\ msVars[a].toPlc # <<>>
  /\ msVars' = [msVars EXCEPT ![a].toPlc = <<>>]
  /\ LET w == msVars[a].toPlc[1] IN
       IF InMemory(a) THEN /\ known' = NowKnown(a, w)
                           /\ \E b \in Read(w.data, ByteSize(a)) : mem' = Stored(a, b)
                      ELSE UNCHANGED <<known, mem>>
  /\ UNCHANGED <<configs, objects, logLvl, dp, writes>>

(* Poll and workProc: the HWObject is found by the text of its address, in *)
(* which Poll puts the poll time as it would write it.                     *)
ShownIn(a) ==
  {c \in objects : c.name = "plc" /\ c.addr = a /\ c.poll = to_string(msVars[a].pollTime)}

Poll(a) ==
  /\ a \in DOMAIN msVars /\ InMemory(a)
  /\ dp' = [c \in Configs |->
       LET v == ToVar(c.type, ItemBytes(a)) IN IF c \in ShownIn(a) /\ v # <<>> THEN v ELSE dp[c]]
  /\ UNCHANGED <<configs, objects, msVars, logLvl, mem, known, writes>>

Next ==
  \/ \E c \in Configs : AddDpPa(c) \/ ClrDpPa(c)
  \/ \E c \in Configs : c.type \in Types /\ \E v \in ValuesOf[c.type] : WriteData(c, v)
  \/ \E a \in DOMAIN msVars : WriteToPLC(a) \/ Poll(a)

Spec == Init /\ [][Next]_vars
-----------------------------------------------------------------------------
TypeOK ==
  /\ objects \subseteq configs /\ configs \subseteq Configs
  /\ DOMAIN msVars \subseteq Address
  /\ \A a \in DOMAIN msVars :
       LET w == msVars[a].toPlc IN w = <<>> \/ Range(w[1].data) \subseteq Byte
  /\ 2 * logLvl \in -(Base * Base)..(Base * Base - 1)
  /\ mem \in [Mem -> Byte]
  /\ writes \in 0..MaxWrites

(* The type that an address is meant to have, and the value the program in *)
(* the PLC has there: bits within their byte, numbers with the highest     *)
(* byte first and in two's complement, texts up to a zero.                 *)
Matching(c) ==
  /\ c.name = "plc" /\ InMemory(c.addr)
  /\ CASE c.addr.kind = "bit" -> c.type = "bool" /\ c.addr.suffix[1] < Bits
       [] c.addr.kind = "B"   -> c.type = IF c.addr.suffix = <<>> THEN "uint8" ELSE "string"
       [] c.addr.kind = "W"   -> c.type = "int16"
       [] c.addr.kind = "D"   -> c.type \in {"int32", "float"}

HighestFirst(i, n) ==
  LET top == IF mem[i] < Base \div 2 THEN mem[i] ELSE mem[i] - Base
      two == top * Base + mem[i + 1]
  IN  IF n = 2 THEN two ELSE (two * Base + mem[i + 2]) * Base + mem[i + 3]

UpToZero(chars) ==
  CHOOSE t \in {SubSeq(chars, 1, n) : n \in 0..Len(chars)} :
    0 \notin Range(t) /\ (t = chars \/ chars[Len(t) + 1] = 0)

PlcView(c) ==
  LET i == c.addr.number IN
  CASE c.type = "bool"   -> BitOf(mem[i], c.addr.suffix[1])
    [] c.type = "uint8"  -> mem[i]
    [] c.type = "string" -> UpToZero([k \in 1..c.addr.suffix[1] |-> mem[i + k - 1]])
    [] OTHER             -> HighestFirst(i, DataSizeByte(c.addr.kind))

(* What a written value is to become: one that fits stays, a wider number  *)
(* is taken modulo the range of the type, a longer text is cut.            *)
Kept(c, v) ==
  CASE c.type = "uint8"  -> CHOOSE r \in Byte : (v - r) % Base = 0
    [] c.type = "int16"  -> LET half == (Base * Base) \div 2
                            IN  CHOOSE r \in -half..(half - 1) : (v - r) % (2 * half) = 0
    [] c.type = "string" -> SubSeq(v, 1, IF Len(v) < c.addr.suffix[1] THEN Len(v) ELSE c.addr.suffix[1])
    [] OTHER             -> v

(* A value that WinCC OA has written is in the PLC for the PLC's program,  *)
(* at the address that was meant and in the PLC's own order of bytes, for  *)
(* as long as nothing overwrites it: not only for a driver that reads it   *)
(* back with the mistakes it wrote it with.  A debug level of two bytes is *)
(* the level that the driver has.                                          *)
PlcSeesWritten ==
  \A c \in Configs : known[c] # <<>> =>
    /\ Matching(c) => PlcView(c) = Kept(c, known[c][1])
    /\ c.name = "_DEBUGLVL" /\ c.type = "int16" => logLvl = Kept(c, known[c][1])

(* What is polled has a data point that shows it, and the data point of a  *)
(* variable with no other address is polled with its own poll time: what   *)
(* is added and removed by text is found by text, unless the poll time has *)
(* digits that nobody would write.                                         *)
Canonical(c) == c.poll.zeros = 0
PointsAreServed ==
  /\ \A a \in DOMAIN msVars :
       (\A c \in objects : c.name = "plc" /\ c.addr = a => Canonical(c)) => ShownIn(a) # {}
  /\ \A c \in objects :
       IsRead(c) /\ AddressIsValid(c.addr) /\ Canonical(c)
         /\ (\A d \in Configs : SameVar(c, d) => c = d) =>
           c.addr \in DOMAIN msVars /\ c \in ShownIn(c.addr)

(* A poll shows the value the program in the PLC has, with its sign and    *)
(* with no more text than there is, whoever has written it.                *)
PollShowsPlc ==
  [][\A c \in objects : Matching(c) /\ Poll(c.addr) /\ c \in ShownIn(c.addr)
       => dp'[c] = <<PlcView(c)>>]_vars

(* A write changes the bits its address names and no other, whatever type  *)
(* it was configured with: neither the other bits of a byte nor the        *)
(* variables before and behind it.                                         *)
NeighboursUntouched ==
  [][\A a \in DOMAIN msVars : WriteToPLC(a) =>
       \A i \in Mem, k \in 0..(Bits - 1) :
         <<i, k>> \notin Covers(a) => BitOf(mem'[i], k) = BitOf(mem[i], k)]_vars
=============================================================================
