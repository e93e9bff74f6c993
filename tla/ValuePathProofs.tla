--------------------------- MODULE ValuePathProofs ---------------------------
(* What is polled and what has a data point stay together, for any         *)
(* addresses and any sequence of additions and removals; what is written   *)
(* is what the PLC's program sees, what it has is what is shown, and a     *)
(* write leaves the rest of the PLC's memory alone, for any addresses that *)
(* touch and overlap, values of any width and memories of any size.        *)
EXTENDS ValuePath, SequenceTheorems, WellFoundedInduction, TLAPS

(* Each slot has the poll time of an address that is still configured: the *)
(* one it was added for, since the removal of any would have removed it.   *)
FromAnObject ==
  \A a \in DOMAIN msVars :
    \E c \in objects : IsRead(c) /\ c.addr = a /\ Stoi(c.poll) = msVars[a].pollTime

(* A variable with one address is polled as long as that is configured.    *)
OnlyAddress(c) == \A d \in Configs : SameVar(c, d) => c = d
ObjectsHaveVars ==
  \A c \in objects :
    IsRead(c) /\ AddressIsValid(c.addr) /\ OnlyAddress(c) => c.addr \in DOMAIN msVars

VarsAreRecords == \A a \in DOMAIN msVars : DOMAIN msVars[a] = {"pollTime", "toPlc"}

IInv == objects \subseteq Configs /\ VarsAreRecords /\ FromAnObject /\ ObjectsHaveVars

LEMMA InitInv == Init => IInv
<1> SUFFICES ASSUME Init PROVE IInv
  OBVIOUS
<1>1. DOMAIN msVars = {}
  BY DEF Init
<1> QED BY <1>1 DEF Init, IInv, VarsAreRecords, FromAnObject, ObjectsHaveVars

LEMMA AddDpPaInv == ASSUME IInv, NEW c \in Configs, AddDpPa(c) PROVE IInv'
<1> USE DEF IInv, AddDpPa
<1>1. CASE c.type \in Types /\ IsRead(c) /\ AddressIsValid(c.addr)
  <2>1. objects' = objects \cup {c} /\ msVars' = WithVar(c)
    BY <1>1
  <2>2. /\ DOMAIN msVars' = DOMAIN msVars \cup {c.addr}
        /\ \A a \in DOMAIN msVars : msVars'[a] = msVars[a]
        /\ c.addr \notin DOMAIN msVars =>
             msVars'[c.addr].pollTime = Stoi(c.poll)
             /\ DOMAIN msVars'[c.addr] = {"pollTime", "toPlc"}
    BY <2>1 DEF WithVar
  <2>3. FromAnObject'
    BY <1>1, <2>1, <2>2 DEF FromAnObject
  <2>4. ObjectsHaveVars'
    BY <2>1, <2>2 DEF ObjectsHaveVars
  <2>5. VarsAreRecords'
    BY <2>2 DEF VarsAreRecords
  <2> QED BY <2>1, <2>3, <2>4, <2>5
<1>2. CASE ~(c.type \in Types /\ IsRead(c) /\ AddressIsValid(c.addr))
  <2>1. /\ msVars' = msVars /\ objects \subseteq objects' /\ objects' \subseteq objects \cup {c}
        /\ c \in objects' => c.type \in Types \/ c \in objects
    BY <1>2
  <2> QED BY <1>2, <2>1 DEF VarsAreRecords, FromAnObject, ObjectsHaveVars
<1> QED BY <1>1, <1>2

LEMMA ClrDpPaInv == ASSUME IInv, NEW c \in Configs, ClrDpPa(c) PROVE IInv'
<1> USE DEF IInv, ClrDpPa
<1>1. /\ objects' = objects \ {c}
      /\ DOMAIN msVars' = DOMAIN msVars \ (IF IsRead(c) THEN {c.addr} ELSE {})
      /\ \A a \in DOMAIN msVars' : msVars'[a] = msVars[a]
  BY DEF WithoutVar, Restrict
<1>2. FromAnObject' /\ VarsAreRecords'
  BY <1>1 DEF FromAnObject, VarsAreRecords
<1>3. ObjectsHaveVars'
  <2> SUFFICES ASSUME NEW d \in objects', IsRead(d), AddressIsValid(d.addr), OnlyAddress(d)
               PROVE  d.addr \in DOMAIN msVars'
    BY DEF ObjectsHaveVars
  <2>1. d.addr \in DOMAIN msVars /\ d # c
    BY <1>1 DEF ObjectsHaveVars
  <2>2. IsRead(c) => c.addr # d.addr
    BY <2>1 DEF OnlyAddress, SameVar, IsRead
  <2> QED BY <1>1, <2>1, <2>2
<1> QED BY <1>1, <1>2, <1>3

(* A write, in the slot or on its way to the PLC, does not touch the poll  *)
(* times.                                                                  *)
LEMMA SlotFilled ==
  ASSUME VarsAreRecords, NEW a \in DOMAIN msVars, NEW w, msVars' = [msVars EXCEPT ![a].toPlc = w]
  PROVE  /\ DOMAIN msVars' = DOMAIN msVars
         /\ \A b \in DOMAIN msVars : /\ msVars'[b].pollTime = msVars[b].pollTime
                                     /\ DOMAIN msVars'[b] = DOMAIN msVars[b]
<1>1. DOMAIN msVars[a] = {"pollTime", "toPlc"}
  BY DEF VarsAreRecords
<1>2. msVars' = [msVars EXCEPT ![a] = [msVars[a] EXCEPT !.toPlc = w]]
  OBVIOUS
<1>3. /\ [msVars[a] EXCEPT !.toPlc = w].pollTime = msVars[a].pollTime
      /\ DOMAIN [msVars[a] EXCEPT !.toPlc = w] = DOMAIN msVars[a]
  BY <1>1
<1> QED BY <1>2, <1>3

LEMMA SlotInv ==
  ASSUME IInv, UNCHANGED objects, DOMAIN msVars' = DOMAIN msVars,
         \A a \in DOMAIN msVars : /\ msVars'[a].pollTime = msVars[a].pollTime
                                  /\ DOMAIN msVars'[a] = DOMAIN msVars[a]
  PROVE  IInv'
BY DEF IInv, VarsAreRecords, FromAnObject, ObjectsHaveVars

LEMMA StepInv == ASSUME IInv, [Next]_vars PROVE IInv'
<1>1. CASE \E c \in Configs : AddDpPa(c) \/ ClrDpPa(c)
  BY <1>1, AddDpPaInv, ClrDpPaInv
<1>2. ASSUME NEW c \in Configs, NEW v \in ValuesOf[c.type], WriteData(c, v) PROVE IInv'
  <2>1. UNCHANGED objects
    BY <1>2 DEF WriteData
  <2>2. \/ UNCHANGED msVars
        \/ \E w : /\ c.addr \in DOMAIN msVars
                 /\ msVars' = [msVars EXCEPT ![c.addr].toPlc = w]
    BY <1>2 DEF WriteData, QueuePLCItem, SetLogLvl
  <2>3. /\ DOMAIN msVars' = DOMAIN msVars
        /\ \A a \in DOMAIN msVars : /\ msVars'[a].pollTime = msVars[a].pollTime
                                    /\ DOMAIN msVars'[a] = DOMAIN msVars[a]
    BY <2>2, SlotFilled DEF IInv
  <2> QED BY <2>1, <2>3, SlotInv
<1>3. ASSUME NEW a \in DOMAIN msVars, WriteToPLC(a) \/ Poll(a) PROVE IInv'
  <2>1. UNCHANGED objects
    BY <1>3 DEF WriteToPLC, Poll
  <2>2. UNCHANGED msVars \/ msVars' = [msVars EXCEPT ![a].toPlc = <<>>]
    BY <1>3 DEF WriteToPLC, Poll
  <2>3. /\ DOMAIN msVars' = DOMAIN msVars
        /\ \A b \in DOMAIN msVars : /\ msVars'[b].pollTime = msVars[b].pollTime
                                    /\ DOMAIN msVars'[b] = DOMAIN msVars[b]
    BY <2>2, SlotFilled DEF IInv
  <2> QED BY <2>1, <2>3, SlotInv
<1>4. CASE UNCHANGED vars
  BY <1>4, SlotInv DEF vars
<1> QED BY <1>1, <1>2, <1>3, <1>4 DEF Next

(* Slots and configured addresses agree whatever is added and removed.     *)
THEOREM Inductive == Spec => []IInv
BY InitInv, StepInv, PTL DEF Spec

(* What is polled has a data point that shows it, and the only address of  *)
(* a variable is polled with its own poll time.                            *)
THEOREM Served == Spec => []PointsAreServed
<1>1. ASSUME NEW c \in Configs, Canonical(c) PROVE c.poll = to_string(Stoi(c.poll))
  BY <1>1, ValuePathAssumption DEF Config, PollText, Canonical, to_string, Stoi
<1>2. ASSUME IInv PROVE PointsAreServed
  <2> USE <1>2 DEF IInv
  <2>1. ASSUME NEW a \in DOMAIN msVars,
               \A c \in objects : c.name = "plc" /\ c.addr = a => Canonical(c)
        PROVE  ShownIn(a) # {}
    <3>1. PICK c \in objects : IsRead(c) /\ c.addr = a /\ Stoi(c.poll) = msVars[a].pollTime
      BY DEF FromAnObject
    <3> QED BY <1>1, <2>1, <3>1 DEF ShownIn, IsRead
  <2>2. ASSUME NEW c \in objects, IsRead(c), AddressIsValid(c.addr), Canonical(c), OnlyAddress(c)
        PROVE  c.addr \in DOMAIN msVars /\ c \in ShownIn(c.addr)
    <3>1. c.addr \in DOMAIN msVars
      BY <2>2 DEF ObjectsHaveVars
    <3>2. PICK d \in objects : IsRead(d) /\ d.addr = c.addr /\ Stoi(d.poll) = msVars[c.addr].pollTime
      BY <3>1 DEF FromAnObject
    <3>3. d = c
      BY <2>2, <3>2 DEF OnlyAddress, SameVar, IsRead
    <3> QED BY <1>1, <2>2, <3>1, <3>2, <3>3 DEF ShownIn, IsRead
  <2> QED BY <2>1, <2>2 DEF PointsAreServed, OnlyAddress
<1> QED BY <1>2, Inductive, PTL
-----------------------------------------------------------------------------
(* Powers of two.  A byte has at most eight bits, so a table is enough: no *)
(* induction over the exponent is needed.                                  *)
TableOf(k, p) ==
  <<k, p>> \in {<<0, 1>>, <<1, 2>>, <<2, 4>>, <<3, 8>>,
                <<4, 16>>, <<5, 32>>, <<6, 64>>, <<7, 128>>, <<8, 256>>}
Powers == {1, 2, 4, 8, 16, 32, 64, 128}
Bases == {2, 4, 8, 16, 32, 64, 128, 256}

LEMMA PowersTable == ASSUME NEW k \in 0..8 PROVE TableOf(k, 2 ^ k)
<1> USE DEF TableOf
<1>0. CASE k = 0
  BY <1>0
<1>1. CASE k = 1
  BY <1>1
<1>2. CASE k = 2
  BY <1>2
<1>3. CASE k = 3
  BY <1>3
<1>4. CASE k = 4
  BY <1>4
<1>5. CASE k = 5
  BY <1>5
<1>6. CASE k = 6
  BY <1>6
<1>7. CASE k = 7
  BY <1>7
<1>8. CASE k = 8
  BY <1>8
<1>9. k = 0 \/ k = 1 \/ k = 2 \/ k = 3 \/ k = 4 \/ k = 5 \/ k = 6 \/ k = 7 \/ k = 8
  OBVIOUS
<1> HIDE DEF TableOf
<1> QED BY <1>0, <1>1, <1>2, <1>3, <1>4, <1>5, <1>6, <1>7, <1>8, <1>9

LEMMA BitIsPower == ASSUME NEW k \in 0..7, NEW p, TableOf(k, p) PROVE p \in Powers
BY DEF TableOf, Powers

LEMMA PowOrder ==
  ASSUME NEW k, NEW p, TableOf(k, p), NEW j, NEW q, TableOf(j, q)
  PROVE  j < k => q < p
BY DEF TableOf

LEMMA PowLess == ASSUME NEW k \in Nat, k < Bits PROVE k \in 0..7 /\ 2 ^ k < Base
<1>0. Bits \in 0..8 /\ k \in 0..8 /\ k \in 0..7
  BY ValuePathAssumption
<1>1. TableOf(k, 2 ^ k) /\ TableOf(Bits, Base)
  BY <1>0, PowersTable DEF Base
<1>2. \A q : TableOf(k, q) => q < Base
  BY <1>1, PowOrder
<1>3. 2 ^ k < Base
  BY <1>1, <1>2, Zenon
<1> QED BY <1>0, <1>3

LEMMA BaseIs == Base \in Bases
<1>0. Bits \in 1..8 /\ Bits \in 0..8
  BY ValuePathAssumption
<1>1. TableOf(Bits, Base)
  BY <1>0, PowersTable DEF Base
<1> QED BY <1>0, <1>1 DEF TableOf, Bases

(* Setting a bit of a byte gives a byte, with that bit and no other        *)
(* changed.                                                                *)
LEMMA BitFlips ==
  ASSUME NEW x \in Nat, NEW p \in Powers, NEW b \in {0, 1}
  PROVE  ((x + (b - ((x \div p) % 2)) * p) \div p) % 2 = b
BY DEF Powers

LEMMA OtherBitsKept ==
  ASSUME NEW x \in Nat, NEW p \in Powers, NEW q \in Powers, p # q, NEW b \in {0, 1}
  PROVE  ((x + (b - ((x \div p) % 2)) * p) \div q) % 2 = (x \div q) % 2
<1>1. CASE p = 1 BY <1>1 DEF Powers
<1>2. CASE p = 2 BY <1>2 DEF Powers
<1>3. CASE p = 4 BY <1>3 DEF Powers
<1>4. CASE p = 8 BY <1>4 DEF Powers
<1>5. CASE p = 16 BY <1>5 DEF Powers
<1>6. CASE p = 32 BY <1>6 DEF Powers
<1>7. CASE p = 64 BY <1>7 DEF Powers
<1>8. CASE p = 128 BY <1>8 DEF Powers
<1> QED BY <1>1, <1>2, <1>3, <1>4, <1>5, <1>6, <1>7, <1>8 DEF Powers

LEMMA StaysByte ==
  ASSUME NEW base \in Bases, NEW x \in 0..(base - 1), NEW p \in Powers, p < base, NEW b \in {0, 1}
  PROVE  x + (b - ((x \div p) % 2)) * p \in 0..(base - 1)
BY DEF Powers, Bases

LEMMA WithBitLaws ==
  ASSUME NEW x \in Byte, NEW k \in 0..(Bits - 1), NEW b \in {0, 1}
  PROVE  /\ WithBit(x, k, b) \in Byte
         /\ BitOf(WithBit(x, k, b), k) = b
         /\ \A l \in 0..(Bits - 1) : l # k => BitOf(WithBit(x, k, b), l) = BitOf(x, l)
<1>1. /\ Bits \in 1..8 /\ x \in Nat /\ k \in Nat /\ k < Bits
      /\ x \in 0..(Base - 1)
  BY ValuePathAssumption, BaseIs DEF Byte, Bases
<1>2. ASSUME NEW l \in 0..(Bits - 1) PROVE 2 ^ l \in Powers /\ TableOf(l, 2 ^ l)
  <2>1. l \in 0..7 /\ l \in 0..8
    BY <1>1
  <2>2. TableOf(l, 2 ^ l)
    BY <2>1, PowersTable
  <2> QED BY <2>1, <2>2, BitIsPower
<1>3. 2 ^ k \in Powers /\ 2 ^ k < Base
  BY <1>1, <1>2, PowLess
<1>4. WithBit(x, k, b) \in Byte
  BY <1>1, <1>3, BaseIs, StaysByte, Zenon DEF Byte, WithBit, BitOf
<1>5. BitOf(WithBit(x, k, b), k) = b
  BY <1>1, <1>3, BitFlips, Zenon DEF WithBit, BitOf
<1>6. ASSUME NEW l \in 0..(Bits - 1), l # k PROVE BitOf(WithBit(x, k, b), l) = BitOf(x, l)
  <2>1. 2 ^ l # 2 ^ k
    BY <1>2, <1>6 DEF TableOf
  <2> QED BY <1>1, <1>2, <1>3, <2>1, OtherBitsKept, Zenon DEF WithBit, BitOf
<1> QED BY <1>4, <1>5, <1>6
-----------------------------------------------------------------------------
(* The bits an address names are the bits that its S7 item names: the item *)
(* of a bit has its position in bits, and where that is beyond its byte    *)
(* the quotient and the remainder name a bit of a later one.               *)
BitPosition(n, k) == n * Bits + k
LEMMA BitPositionParts ==
  ASSUME NEW n \in Nat, NEW k \in Nat
  PROVE  /\ BitPosition(n, k) \in Nat
         /\ BitPosition(n, k) \div Bits = n + k \div Bits
         /\ BitPosition(n, k) % Bits = k % Bits
<1> DEFINE q == k \div Bits
           r == k % Bits
<1>1. Bits \in 1..8
  BY ValuePathAssumption
<1>2. k = q * Bits + r /\ r \in 0..(Bits - 1) /\ q \in Nat
  BY <1>1
<1>3. BitPosition(n, k) = (n + q) * Bits + r
  BY <1>1, <1>2 DEF BitPosition
<1> QED BY <1>1, <1>2, <1>3

LEMMA BitInMemory ==
  ASSUME NEW k \in Nat, k < MemSize * Bits
  PROVE  k \div Bits \in Mem
<1> DEFINE q == k \div Bits
           r == k % Bits
<1>1. Bits \in 1..8 /\ MemSize \in Nat
  BY ValuePathAssumption
<1>2. k = q * Bits + r /\ r \in 0..(Bits - 1) /\ q \in Nat
  BY <1>1
<1> HIDE DEF q, r
<1>3. q < MemSize
  BY <1>1, <1>2
<1> QED BY <1>2, <1>3, <1>1 DEF q, Mem

LEMMA ConfigAddress ==
  ASSUME NEW c \in Configs
  PROVE  /\ c.addr \in Address /\ c.addr.number \in Nat
         /\ c.addr.suffix # <<>> => c.addr.suffix[1] \in Nat
         /\ c.addr.kind \in {"B", "W", "D", "bit", "none"}
<1>1. c.addr \in Address
  BY ValuePathAssumption DEF Config
<1>2. c.addr.suffix \in Seq(Nat)
  BY <1>1 DEF Address
<1>3. c.addr.suffix # <<>> => c.addr.suffix[1] \in Nat
  BY <1>2
<1> QED BY <1>1, <1>3 DEF Address

BytesOf(a) == a.number..(a.number + ByteSize(a) - 1)
LEMMA ItemPlace ==
  ASSUME NEW a \in Address, AddressIsValid(a), a.kind # "bit"
  PROVE  /\ ItemStart(a) = a.number /\ a.number \in Nat /\ ByteSize(a) \in Nat
         /\ Covers(a) = BytesOf(a) \X (0..(Bits - 1))
<1>1. a.number \in Nat /\ (a.suffix # <<>> => a.suffix[1] \in Nat)
  BY DEF Address
<1>2. a.kind \in {"B", "W", "D"}
  BY DEF Address, AddressIsValid
<1>3. AddressGetAmount(a) \in Nat
  BY <1>1, <1>2 DEF AddressGetAmount
<1>4. DataSizeByte(a.kind) \in Nat
  BY <1>2 DEF DataSizeByte
<1>5. ByteSize(a) \in Nat
  BY <1>3, <1>4 DEF ByteSize
<1>6. ItemStart(a) = a.number
  BY <1>2 DEF ItemStart, AddressGetStart
<1> QED BY <1>1, <1>2, <1>5, <1>6 DEF Covers, BytesOf

LEMMA BitPlace ==
  ASSUME NEW a \in Address, AddressIsValid(a), a.kind = "bit"
  PROVE  /\ ItemStart(a) \in Nat /\ ByteSize(a) = 1 /\ a.number \in Nat /\ a.suffix[1] \in Nat
         /\ Covers(a) = {<<ItemStart(a) \div Bits, ItemStart(a) % Bits>>}
         /\ ItemStart(a) \div Bits \in Nat /\ ItemStart(a) % Bits \in 0..(Bits - 1)
         /\ ItemStart(a) \div Bits = a.number + a.suffix[1] \div Bits
         /\ ItemStart(a) % Bits = a.suffix[1] % Bits
         /\ InMemory(a) => ItemStart(a) \div Bits \in Mem
<1>1. a.number \in Nat /\ a.suffix \in Seq(Nat)
  BY DEF Address
<1>2. a.suffix # <<>>
  BY DEF AddressIsValid, AddressGetStart
<1>3. a.suffix[1] \in Nat
  BY <1>1, <1>2
<1>4. ItemStart(a) = BitPosition(a.number, a.suffix[1])
  BY <1>2 DEF ItemStart, AddressGetStart, AddressGetBit, BitPosition
<1>5. Bits \in 1..8 /\ MemSize \in Nat
  BY ValuePathAssumption
<1>6. /\ ItemStart(a) \div Bits = a.number + a.suffix[1] \div Bits
      /\ ItemStart(a) % Bits = a.suffix[1] % Bits
      /\ ItemStart(a) \in Nat
  <2>1. /\ BitPosition(a.number, a.suffix[1]) \in Nat
        /\ BitPosition(a.number, a.suffix[1]) \div Bits = a.number + a.suffix[1] \div Bits
        /\ BitPosition(a.number, a.suffix[1]) % Bits = a.suffix[1] % Bits
    BY <1>1, <1>3, BitPositionParts, Zenon
  <2> QED BY <1>4, <2>1
<1>8. InMemory(a) => ItemStart(a) \div Bits \in Mem
  <2> SUFFICES ASSUME InMemory(a) PROVE ItemStart(a) \div Bits \in Mem
    OBVIOUS
  <2>1. ItemStart(a) < MemSize * Bits
    BY DEF InMemory
  <2> QED BY <1>6, <2>1, BitInMemory
<1>9. ByteSize(a) = 1
  BY DEF ByteSize, DataSizeByte, AddressGetAmount
<1>10. ItemStart(a) \div Bits \in Nat /\ ItemStart(a) % Bits \in 0..(Bits - 1)
  BY <1>5, <1>6
<1> QED BY <1>1, <1>3, <1>6, <1>6, <1>8, <1>9, <1>10 DEF Covers

(* Storing an item changes the bits its address names and no other.        *)
LEMMA StoredFrame ==
  ASSUME NEW a \in Address, InMemory(a), mem \in [Mem -> Byte], NEW b \in [1..ByteSize(a) -> Byte],
         NEW m, m = Stored(a, b)
  PROVE  /\ m \in [Mem -> Byte]
         /\ \A i \in Mem, k \in 0..(Bits - 1) :
              <<i, k>> \notin Covers(a) => BitOf(m[i], k) = BitOf(mem[i], k)
         /\ \A i \in Mem : (\A k \in 0..(Bits - 1) : <<i, k>> \notin Covers(a)) => m[i] = mem[i]
<1>0. AddressIsValid(a) /\ Bits \in 1..8
  BY ValuePathAssumption DEF InMemory
<1>1. CASE a.kind = "bit"
  <2> DEFINE i == ItemStart(a) \div Bits
             k == ItemStart(a) % Bits
             bit == IF b[1] = 0 THEN 0 ELSE 1
  <2>1. /\ i \in Mem /\ k \in 0..(Bits - 1) /\ bit \in {0, 1}
        /\ Covers(a) = {<<i, k>>}
    BY <1>0, <1>1, BitPlace
  <2>2. m = [mem EXCEPT ![i] = WithBit(mem[i], k, bit)]
    BY <1>1 DEF Stored
  <2> HIDE DEF i, k, bit
  <2>3. /\ WithBit(mem[i], k, bit) \in Byte
        /\ \A l \in 0..(Bits - 1) : l # k => BitOf(WithBit(mem[i], k, bit), l) = BitOf(mem[i], l)
    BY <2>1, WithBitLaws
  <2>4. /\ m \in [Mem -> Byte] /\ m[i] = WithBit(mem[i], k, bit)
        /\ \A j \in Mem : j # i => m[j] = mem[j]
    BY <2>1, <2>2, <2>3
  <2> QED BY <2>1, <2>3, <2>4
<1>2. CASE a.kind # "bit"
  <2>1. /\ ItemStart(a) = a.number /\ a.number \in Nat /\ ByteSize(a) \in Nat
        /\ Covers(a) = BytesOf(a) \X (0..(Bits - 1))
    BY <1>0, <1>2, ItemPlace
  <2>2. m = [i \in Mem |-> IF i \in BytesOf(a) THEN b[i - a.number + 1] ELSE mem[i]]
    BY <1>2, <2>1 DEF Stored, BytesOf
  <2>3. \A i \in BytesOf(a) : i - a.number + 1 \in 1..ByteSize(a)
    BY <2>1 DEF BytesOf
  <2>4. \A i \in Mem, k \in 0..(Bits - 1) : <<i, k>> \notin Covers(a) => i \notin BytesOf(a)
    BY <2>1
  <2>5. m \in [Mem -> Byte]
    BY <2>2, <2>3
  <2>6. 0 \in 0..(Bits - 1)
    BY <1>0
  <2> QED BY <2>2, <2>4, <2>5, <2>6
<1> QED BY <1>1, <1>2
-----------------------------------------------------------------------------
(* What a read finds in a buffer: its own bytes as far as it goes.         *)
LEMMA ReadBytes ==
  ASSUME NEW b \in Seq(Byte), NEW size \in Nat, NEW r \in Read(b, size)
  PROVE  /\ r \in [1..size -> Byte]
         /\ \A i \in 1..size : i <= Len(b) => r[i] = b[i]
<1> DEFINE n == IF Len(b) < size THEN size - Len(b) ELSE 0
<1>1. Len(b) \in Nat /\ n \in Nat /\ Len(b) + n >= size
  OBVIOUS
<1>2. PICK junk \in [1..n -> Byte] : r = SubSeq(b \o junk, 1, size)
  BY DEF Read
<1> HIDE DEF n
<1>3. junk \in Seq(Byte) /\ Len(junk) = n
  BY <1>1, <1>2
<1> DEFINE whole == b \o junk
<1>4. /\ whole \in Seq(Byte) /\ Len(whole) = Len(b) + n
      /\ \A i \in 1..Len(b) : whole[i] = b[i]
  BY <1>3
<1>5. \A i \in 1..size : i \in 1..Len(whole) /\ whole[i] \in Byte
  BY <1>1, <1>4
<1> HIDE DEF whole
<1>6. /\ r \in Seq(Byte) /\ Len(r) = size
      /\ \A i \in 1..size : r[i] = whole[i]
  <2>1. r = SubSeq(whole, 1, size)
    BY <1>2 DEF whole
  <2>2. /\ r \in Seq(Byte) /\ Len(r) = IF 1 <= size THEN size - 1 + 1 ELSE 0
        /\ \A i \in 1..(size - 1 + 1) : r[i] = whole[1 + i - 1]
    BY <1>5, <2>1, SubSeqProperties, 1 \in Int, size \in Int
  <2> QED BY <2>2
<1> QED BY <1>1, <1>4, <1>5, <1>6

(* What toPeriph gives: the bytes of a number, highest first, and a text   *)
(* with zeros behind it.                                                   *)
LEMMA HostBytesAre ==
  ASSUME NEW v \in Int, NEW n \in {1, 2, 4}
  PROVE  /\ HostBytes(v, n) \in Seq(Byte) /\ Len(HostBytes(v, n)) = n
         /\ CopyNSwapBytes(HostBytes(v, n)) \in Seq(Byte) /\ Len(CopyNSwapBytes(HostBytes(v, n))) = n
         /\ \A i \in 1..n : /\ HostBytes(v, n)[i] = (v \div Weight[i]) % Base
                            /\ CopyNSwapBytes(HostBytes(v, n))[i] = HostBytes(v, n)[n + 1 - i]
<1>1. \A i \in 1..4 : Weight[i] \in Nat \ {0}
  BY BaseIs DEF Weight, Bases
<1>2. \A i \in 1..n : (v \div Weight[i]) % Base \in Byte
  BY <1>1, BaseIs DEF Byte, Bases
<1>3. HostBytes(v, n) \in Seq(Byte) /\ Len(HostBytes(v, n)) = n
  BY <1>2 DEF HostBytes
<1>4. \A i \in 1..n : HostBytes(v, n)[i] = (v \div Weight[i]) % Base
  BY DEF HostBytes
<1> DEFINE h == HostBytes(v, n)
<1> HIDE DEF h
<1>5. \A i \in 1..n : n - i + 1 \in 1..n /\ h[n - i + 1] \in Byte
  BY <1>3 DEF h
<1>6. CopyNSwapBytes(h) = [i \in 1..n |-> h[n - i + 1]]
  BY <1>3 DEF h, CopyNSwapBytes, Reverse
<1>7. CopyNSwapBytes(h) \in Seq(Byte) /\ Len(CopyNSwapBytes(h)) = n
  BY <1>5, <1>6
<1>8. \A i \in 1..n : CopyNSwapBytes(h)[i] = h[n + 1 - i]
  BY <1>6
<1> QED BY <1>3, <1>4, <1>7, <1>8 DEF h

LEMMA SwappedTwo ==
  ASSUME NEW v \in Int
  PROVE  LET d == CopyNSwapBytes(HostBytes(v, 2))
         IN  Len(d) = 2 /\ d[1] = (v \div Weight[2]) % Base /\ d[2] = (v \div Weight[1]) % Base
<1>1. 2 + 1 - 1 = 2 /\ 2 + 1 - 2 = 1 /\ 1 \in 1..2 /\ 2 \in 1..2 /\ 2 \in {1, 2, 4}
  OBVIOUS
<1> QED BY <1>1, HostBytesAre

LEMMA SwappedFour ==
  ASSUME NEW v \in Int
  PROVE  LET d == CopyNSwapBytes(HostBytes(v, 4))
         IN  /\ Len(d) = 4
             /\ d[1] = (v \div Weight[4]) % Base /\ d[2] = (v \div Weight[3]) % Base
             /\ d[3] = (v \div Weight[2]) % Base /\ d[4] = (v \div Weight[1]) % Base
<1>1. /\ 4 + 1 - 1 = 4 /\ 4 + 1 - 2 = 3 /\ 4 + 1 - 3 = 2 /\ 4 + 1 - 4 = 1
      /\ 1 \in 1..4 /\ 2 \in 1..4 /\ 3 \in 1..4 /\ 4 \in 1..4 /\ 4 \in {1, 2, 4}
  OBVIOUS
<1> QED BY <1>1, HostBytesAre

LEMMA TextBytes ==
  ASSUME NEW text \in Seq(Byte \ {0}), StringToPeriph(text) # <<>>
  PROVE  /\ Len(text) \in Nat /\ Len(text) < TextSize
         /\ StringToPeriph(text) \in Seq(Byte) /\ Len(StringToPeriph(text)) = TextSize
         /\ \A i \in 1..TextSize : StringToPeriph(text)[i] = IF i <= Len(text) THEN text[i] ELSE 0
<1> DEFINE n == TextSize - Len(text)
<1>1. Len(text) < TextSize /\ Len(text) \in Nat /\ n \in Nat /\ TextSize \in Nat
  BY ValuePathAssumption DEF StringToPeriph
<1>2. StringToPeriph(text) = text \o [i \in 1..n |-> 0]
  BY <1>1 DEF StringToPeriph
<1>3. text \in Seq(Byte) /\ 0 \in Byte
  BY SeqMonotonic, BaseIs DEF Byte, Bases
<1> HIDE DEF n
<1> DEFINE zeros == [i \in 1..n |-> 0]
<1>4. /\ zeros \in Seq(Byte) /\ Len(zeros) = n
      /\ \A i \in 1..n : zeros[i] = 0
  BY <1>1, <1>3
<1> HIDE DEF zeros
<1>5. /\ StringToPeriph(text) \in Seq(Byte) /\ Len(StringToPeriph(text)) = Len(text) + n
      /\ \A i \in 1..(Len(text) + n) :
           StringToPeriph(text)[i] = IF i <= Len(text) THEN text[i] ELSE zeros[i - Len(text)]
  <2>1. StringToPeriph(text) = text \o zeros
    BY <1>2 DEF zeros
  <2>2. /\ text \o zeros \in Seq(Byte) /\ Len(text \o zeros) = Len(text) + n
        /\ \A i \in 1..(Len(text) + n) :
             (text \o zeros)[i] = IF i <= Len(text) THEN text[i] ELSE zeros[i - Len(text)]
    BY <1>3, <1>4, ConcatProperties
  <2> QED BY <2>1, <2>2
<1>6. Len(text) + n = TextSize
  BY <1>1 DEF n
<1> QED BY <1>1, <1>4, <1>5, <1>6

LEMMA PeriphBytes ==
  ASSUME NEW type \in Types, NEW v \in ValuesOf[type], ToPeriph(type, v) # <<>>
  PROVE  ToPeriph(type, v) \in Seq(Byte)
<1>1. CASE type = "bool"
  <2>1. v \in Byte
    BY <1>1, ValuesAssumption, BaseIs DEF Byte, Bases
  <2> QED BY <1>1, <2>1 DEF ToPeriph, BoolToPeriph
<1>2. CASE type \in {"uint8", "int16", "int32", "float"}
  <2>1. v \in Int
    BY <1>2, ValuesAssumption
  <2> QED BY <1>2, <2>1, HostBytesAre
          DEF ToPeriph, Uint8ToPeriph, Int16ToPeriph, Int32ToPeriph, FloatToPeriph
<1>3. CASE type = "string"
  BY <1>3, ValuesAssumption, TextBytes DEF ToPeriph
<1> QED BY <1>1, <1>2, <1>3 DEF Types
-----------------------------------------------------------------------------
(* Numbers from their bytes, the highest first and with the sign.          *)
(* SignedTop: the highest byte in two's complement.  Horner: four bytes in *)
(* one number.                                                             *)
SignedTop(h, b) == IF h < b \div 2 THEN h ELSE h - b
Horner(h, x, y, z, b) == ((h * b + x) * b + y) * b + z

(* Of the numbers that agree with v modulo the range of two bytes, the two *)
(* lowest bytes of v, the higher of them signed, make the one in the range.*)
LEMMA SignedTwoIs ==
  ASSUME NEW b \in Bases, NEW v \in Int
  PROVE  LET r == SignedTop((v \div b) % b, b) * b + (v % b)
             half == (b * b) \div 2
         IN  r \in -half..(half - 1) /\ (v - r) % (2 * half) = 0
BY DEF Bases, SignedTop

LEMMA SignedTwoUnique ==
  ASSUME NEW b \in Bases, NEW v \in Int,
         NEW r \in -((b * b) \div 2)..(((b * b) \div 2) - 1), (v - r) % (2 * ((b * b) \div 2)) = 0,
         NEW s \in -((b * b) \div 2)..(((b * b) \div 2) - 1), (v - s) % (2 * ((b * b) \div 2)) = 0
  PROVE  r = s
BY DEF Bases

LEMMA KeptOfTwo ==
  ASSUME NEW c, c.type = "int16", NEW v \in Int
  PROVE  Kept(c, v) = SignedTop((v \div Base) % Base, Base) * Base + (v % Base)
<1> DEFINE half == (Base * Base) \div 2
           r == SignedTop((v \div Base) % Base, Base) * Base + (v % Base)
<1>1. r \in -half..(half - 1) /\ (v - r) % (2 * half) = 0
  BY BaseIs, SignedTwoIs
<1>2. \A s \in -half..(half - 1) : (v - s) % (2 * half) = 0 => s = r
  BY <1>1, BaseIs, SignedTwoUnique
<1>3. Kept(c, v) = CHOOSE s \in -half..(half - 1) : (v - s) % (2 * half) = 0
  BY DEF Kept
<1> HIDE DEF r, half
<1>4. Kept(c, v) = r
  BY <1>1, <1>2, <1>3
<1> QED BY <1>4 DEF r

(* Dividing by a base twice is dividing by its square, and so on.           *)
LEMMA QuotientOfQuotient ==
  ASSUME NEW b \in Bases, NEW v \in Int
  PROVE  /\ v \div (b * b) = (v \div b) \div b
         /\ v \div (b * b * b) = (v \div (b * b)) \div b
         /\ v \div (b * b * b * b) = (v \div (b * b * b)) \div b
<1>1. v \div (b * b) = (v \div b) \div b
  BY DEF Bases
<1>2. v \div (b * b * b) = (v \div (b * b)) \div b
  BY DEF Bases
<1>3. v \div (b * b * b * b) = (v \div (b * b * b)) \div b
  BY DEF Bases
<1> QED BY <1>1, <1>2, <1>3

(* A number is its quotient and its rest put together.                     *)
LEMMA QuotientAndRest ==
  ASSUME NEW b \in Bases, NEW v \in Int
  PROVE  v \div b \in Int /\ v % b \in Int /\ v = (v \div b) * b + (v % b)
<1>1. v \div b \in Int /\ v % b \in Int
  BY DEF Bases
<1>2. v = (v \div b) * b + (v % b)
  BY DEF Bases
<1> QED BY <1>1, <1>2

(* Four quotients and rests, one after the other, make up the number.      *)
LEMMA WholeOfFour ==
  ASSUME NEW b \in Bases, NEW v \in Int
  PROVE  /\ v = (v \div (b * b * b * b)) * (b * b * b * b) + (v % (b * b * b * b))
         /\ v % (b * b * b * b) \in Int
<1> DEFINE whole == /\ v = (v \div (b * b * b * b)) * (b * b * b * b) + (v % (b * b * b * b))
                    /\ v % (b * b * b * b) \in Int
<1>1. ASSUME b = 2 PROVE whole BY <1>1
<1>2. ASSUME b = 4 PROVE whole BY <1>2
<1>3. ASSUME b = 8 PROVE whole BY <1>3
<1>4. ASSUME b = 16 PROVE whole BY <1>4
<1>5. ASSUME b = 32 PROVE whole BY <1>5
<1>6. ASSUME b = 64 PROVE whole BY <1>6
<1>7. ASSUME b = 128 PROVE whole BY <1>7
<1>8. ASSUME b = 256 PROVE whole BY <1>8
<1> HIDE DEF whole
<1>9. whole
  BY <1>1, <1>2, <1>3, <1>4, <1>5, <1>6, <1>7, <1>8 DEF Bases
<1> QED BY <1>9 DEF whole

(* A number of four bytes is made of its bytes, the highest of them signed.*)
LEMMA UnsignedFour ==
  ASSUME NEW b \in Bases, NEW v \in Int
  PROVE  Horner((v \div (b * b * b)) % b, (v \div (b * b)) % b, (v \div b) % b, v % b, b) = v % (b * b * b * b)
<1> DEFINE q1 == v \div b
           q2 == v \div (b * b)
           q3 == v \div (b * b * b)
           q4 == v \div (b * b * b * b)
<1>1. q1 \in Int /\ q2 \in Int /\ q3 \in Int /\ q4 \in Int
  BY QuotientOfQuotient, QuotientAndRest
<1>2. q2 = q1 \div b /\ q3 = q2 \div b /\ q4 = q3 \div b
  BY QuotientOfQuotient
<1>3. /\ v = q1 * b + (v % b) /\ q1 = q2 * b + (q1 % b)
      /\ q2 = q3 * b + (q2 % b) /\ q3 = q4 * b + (q3 % b)
      /\ v % b \in Int /\ q1 % b \in Int /\ q2 % b \in Int /\ q3 % b \in Int
  <2>1. \A n \in Int : n % b \in Int /\ n = (n \div b) * b + (n % b)
    BY QuotientAndRest
  <2>2. q1 = v \div b
    OBVIOUS
  <2> HIDE DEF q1, q2, q3, q4
  <2> QED BY <1>1, <1>2, <2>1, <2>2, Zenon
<1>4. v = q4 * (b * b * b * b) + (v % (b * b * b * b)) /\ v % (b * b * b * b) \in Int
  BY WholeOfFour DEF q4
<1> HIDE DEF q1, q2, q3, q4
<1>5. \A h, x, y, z \in Int :
        ((((q4 * b + h) * b + x) * b + y) * b + z) = q4 * (b * b * b * b) + Horner(h, x, y, z, b)
  BY <1>1 DEF Bases, Horner
<1>6. v = (((q4 * b + (q3 % b)) * b + (q2 % b)) * b + (q1 % b)) * b + (v % b)
  BY <1>3
<1>7. v = q4 * (b * b * b * b) + Horner(q3 % b, q2 % b, q1 % b, v % b, b)
  <2>1. (((q4 * b + (q3 % b)) * b + (q2 % b)) * b + (q1 % b)) * b + (v % b)
          = q4 * (b * b * b * b) + Horner(q3 % b, q2 % b, q1 % b, v % b, b)
    <3>1. q3 % b \in Int /\ q2 % b \in Int /\ q1 % b \in Int /\ v % b \in Int
      BY <1>3
    <3> QED BY <1>5, <3>1, Zenon
  <2> QED BY <1>6, <2>1, Zenon
<1>8. Horner(q3 % b, q2 % b, q1 % b, v % b, b) \in Int
  BY <1>3 DEF Horner, Bases
<1>9. q4 * (b * b * b * b) \in Int
  BY <1>1 DEF Bases
<1>10. Horner(q3 % b, q2 % b, q1 % b, v % b, b) = v % (b * b * b * b)
  <2>1. ASSUME NEW p \in Int, NEW x \in Int, NEW y \in Int, p + x = p + y PROVE x = y
    BY <2>1
  <2>2. q4 * (b * b * b * b) + Horner(q3 % b, q2 % b, q1 % b, v % b, b)
          = q4 * (b * b * b * b) + (v % (b * b * b * b))
    BY <1>4, <1>7, Zenon
  <2> QED BY <1>4, <1>8, <1>9, <2>1, <2>2, Zenon
<1> QED BY <1>10 DEF q1, q2, q3

LEMMA SignOfFour ==
  ASSUME NEW b \in Bases, NEW h \in 0..(b - 1), NEW x \in 0..(b - 1), NEW y \in 0..(b - 1), NEW z \in 0..(b - 1)
  PROVE  LET u == Horner(h, x, y, z, b)
         IN  Horner(SignedTop(h, b), x, y, z, b) = IF 2 * u >= b * b * b * b THEN u - b * b * b * b ELSE u
BY DEF Bases, Horner, SignedTop

LEMMA SignOfTwo ==
  ASSUME NEW b \in Bases, NEW h \in 0..(b - 1), NEW l \in 0..(b - 1)
  PROVE  LET u == h * b + l
         IN  SignedTop(h, b) * b + l = IF 2 * u >= b * b THEN u - b * b ELSE u
BY DEF Bases, SignedTop

LEMMA SignedFourIs ==
  ASSUME NEW b \in Bases, NEW v \in Int, 2 * v \in -(b * b * b * b)..(b * b * b * b - 1)
  PROVE  Horner(SignedTop((v \div (b * b * b)) % b, b), (v \div (b * b)) % b, (v \div b) % b, v % b, b) = v
<1>1. /\ b * b \in Nat \ {0} /\ b * b * b \in Nat \ {0} /\ b \in Nat \ {0}
  BY DEF Bases
<1>2. /\ (v \div (b * b * b)) % b \in 0..(b - 1) /\ (v \div (b * b)) % b \in 0..(b - 1)
      /\ (v \div b) % b \in 0..(b - 1) /\ v % b \in 0..(b - 1)
  BY <1>1 DEF Bases
<1> DEFINE M == b * b * b * b
           u == v % M
<1>3. v = IF 2 * u >= M THEN u - M ELSE u
  BY DEF Bases
<1>4. u = Horner((v \div (b * b * b)) % b, (v \div (b * b)) % b, (v \div b) % b, v % b, b)
  BY UnsignedFour
<1> QED BY <1>2, <1>3, <1>4, SignOfFour

LEMMA RemainderUnique ==
  ASSUME NEW b \in Bases, NEW v \in Int, NEW r \in 0..(b - 1), (v - r) % b = 0
  PROVE  v % b = r
BY DEF Bases

LEMMA RemainderIs ==
  ASSUME NEW b \in Bases, NEW v \in Int
  PROVE  v % b \in 0..(b - 1) /\ (v - (v % b)) % b = 0
BY DEF Bases

(* toVar of the items of two and of four bytes.                            *)
LEMMA SumOfTwo ==
  ASSUME NEW b \in Bases, NEW h \in 0..(b - 1), NEW l \in 0..(b - 1)
  PROVE  l + h * b = h * b + l
BY DEF Bases

LEMMA SumOfFour ==
  ASSUME NEW b \in Bases, NEW h \in 0..(b - 1), NEW x \in 0..(b - 1), NEW y \in 0..(b - 1), NEW z \in 0..(b - 1)
  PROVE  z + y * b + x * (b * b) + h * (b * b * b) = Horner(h, x, y, z, b)
BY DEF Bases, Horner

LEMMA SignedTwo ==
  ASSUME NEW b \in Seq(Byte), Len(b) = 2
  PROVE  Signed(CopyNSwapBytes(b)) = SignedTop(b[1], Base) * Base + b[2]
<1> DEFINE r == CopyNSwapBytes(b)
           u == b[1] * Base + b[2]
           M == Base * Base
<1>1. b[1] \in Byte /\ b[2] \in Byte
  <2>1. 1 \in 1..Len(b) /\ 2 \in 1..Len(b)
    OBVIOUS
  <2> QED BY <2>1, ElementOfSeq
<1>2. Len(r) = 2 /\ r[1] = b[2] /\ r[2] = b[1]
  BY DEF CopyNSwapBytes, Reverse
<1> HIDE DEF r
<1>3. Unsigned(r) = u
  BY <1>1, <1>2, BaseIs, SumOfTwo DEF Unsigned, Weight, Byte
<1>4. Modulus(Len(r)) = M
  BY <1>2 DEF Modulus, Weight
<1>5. SignedTop(b[1], Base) * Base + b[2] = IF 2 * u >= M THEN u - M ELSE u
  BY <1>1, BaseIs, SignOfTwo DEF Byte
<1> HIDE DEF u, M
<1> QED BY <1>3, <1>4, <1>5 DEF r, Signed

LEMMA SignedFour ==
  ASSUME NEW b \in Seq(Byte), Len(b) = 4
  PROVE  Signed(CopyNSwapBytes(b)) = Horner(SignedTop(b[1], Base), b[2], b[3], b[4], Base)
<1> DEFINE r == CopyNSwapBytes(b)
           u == Horner(b[1], b[2], b[3], b[4], Base)
           M == Base * Base * Base * Base
<1>1. b[1] \in Byte /\ b[2] \in Byte /\ b[3] \in Byte /\ b[4] \in Byte
  <2>1. 1 \in 1..Len(b) /\ 2 \in 1..Len(b) /\ 3 \in 1..Len(b) /\ 4 \in 1..Len(b)
    OBVIOUS
  <2> QED BY <2>1, ElementOfSeq
<1>2. Len(r) = 4 /\ r[1] = b[4] /\ r[2] = b[3] /\ r[3] = b[2] /\ r[4] = b[1]
  BY DEF CopyNSwapBytes, Reverse
<1> HIDE DEF r
<1>3. Unsigned(r) = u
  <2>1. Unsigned(r) = b[4] + b[3] * Base + b[2] * (Base * Base) + b[1] * (Base * Base * Base)
    BY <1>2 DEF Unsigned, Weight
  <2> QED BY <1>1, <2>1, BaseIs, SumOfFour DEF Byte
<1>4. Modulus(Len(r)) = M
  BY <1>2, BaseIs DEF Modulus, Weight, Bases
<1>5. Horner(SignedTop(b[1], Base), b[2], b[3], b[4], Base) = IF 2 * u >= M THEN u - M ELSE u
  BY <1>1, BaseIs, SignOfFour DEF Byte
<1> HIDE DEF u, M
<1> QED BY <1>3, <1>4, <1>5 DEF r, Signed
-----------------------------------------------------------------------------
(* Texts: the place of the first zero.  A set of naturals has a least      *)
(* element, as their order is well-founded.                                *)
LEMMA LeastElement ==
  ASSUME NEW S, S \subseteq Nat, S # {}
  PROVE  \E x \in S : \A y \in S : x <= y
<1>1. PICK x \in S : \A y \in S : ~(<<y, x>> \in OpToRel(<, Nat))
  BY WFMin, NatLessThanWellFounded
<1>2. \A y \in S : ~(y < x)
  BY <1>1 DEF OpToRel
<1> QED BY <1>2

(* n characters are in front of the first zero.                            *)
TextEnds(chars, n) ==
  /\ n \in 0..Len(chars) /\ \A i \in 1..n : chars[i] # 0
  /\ n = Len(chars) \/ chars[n + 1] = 0

LEMMA TextHasEnd ==
  ASSUME NEW chars \in Seq(Byte) PROVE \E n : TextEnds(chars, n)
<1> DEFINE I == {i \in 1..Len(chars) : chars[i] = 0}
<1>1. Len(chars) \in Nat
  OBVIOUS
<1>2. CASE I = {}
  <2>1. TextEnds(chars, Len(chars))
    BY <1>1, <1>2 DEF TextEnds
  <2> QED BY <2>1
<1>3. CASE I # {}
  <2>1. I \subseteq Nat
    BY <1>1
  <2>2. PICK m \in I : \A i \in I : m <= i
    BY <1>3, <2>1, LeastElement
  <2>3. TextEnds(chars, m - 1)
    BY <1>1, <2>2 DEF TextEnds
  <2> QED BY <2>3
<1> QED BY <1>2, <1>3

LEMMA PrefixIs ==
  ASSUME NEW chars \in Seq(Byte), NEW n \in 0..Len(chars)
  PROVE  /\ SubSeq(chars, 1, n) \in Seq(Byte) /\ Len(SubSeq(chars, 1, n)) = n
         /\ \A i \in 1..n : SubSeq(chars, 1, n)[i] = chars[i]
         /\ Range(SubSeq(chars, 1, n)) = {chars[i] : i \in 1..n}
<1> DEFINE t == SubSeq(chars, 1, n)
<1>1. Len(chars) \in Nat /\ \A i \in 1..n : chars[i] \in Byte
  BY ElementOfSeq
<1>2. /\ t \in Seq(Byte) /\ Len(t) = IF 1 <= n THEN n - 1 + 1 ELSE 0
      /\ \A i \in 1..(n - 1 + 1) : t[i] = chars[1 + i - 1]
  BY <1>1, SubSeqProperties, 1 \in Int, n \in Int
<1> HIDE DEF t
<1>3. Len(t) = n /\ \A i \in 1..n : t[i] = chars[i]
  BY <1>2
<1>4. Range(t) = {chars[i] : i \in 1..n}
  BY <1>2, <1>3 DEF Range
<1> QED BY <1>2, <1>3, <1>4 DEF t

LEMMA UpToZeroIs ==
  ASSUME NEW chars \in Seq(Byte), NEW n, TextEnds(chars, n)
  PROVE  UpToZero(chars) = SubSeq(chars, 1, n)
<1> DEFINE Ok(t) == 0 \notin Range(t) /\ (t = chars \/ chars[Len(t) + 1] = 0)
           T == {SubSeq(chars, 1, m) : m \in 0..Len(chars)}
<1>1. Len(chars) \in Nat /\ n \in 0..Len(chars)
  BY DEF TextEnds
<1>2. SubSeq(chars, 1, Len(chars)) = chars
  BY SubSeqFull
<1>3. SubSeq(chars, 1, n) \in T /\ Ok(SubSeq(chars, 1, n))
  <2>1. 0 \notin Range(SubSeq(chars, 1, n)) /\ Len(SubSeq(chars, 1, n)) = n
    BY <1>1, PrefixIs DEF TextEnds
  <2> QED BY <1>1, <1>2, <2>1 DEF TextEnds
<1>4. ASSUME NEW m \in 0..Len(chars), Ok(SubSeq(chars, 1, m)) PROVE m = n
  <2>1. \A i \in 1..m : chars[i] # 0
    BY <1>4, PrefixIs
  <2>2. m = Len(chars) \/ chars[m + 1] = 0
    BY <1>4, PrefixIs
  <2> QED BY <1>1, <2>1, <2>2 DEF TextEnds
<1>5. UpToZero(chars) = CHOOSE t \in T : Ok(t)
  BY DEF UpToZero
<1> QED BY <1>3, <1>4, <1>5

LEMMA StringToVarIs ==
  ASSUME NEW chars \in Seq(Byte), NEW n, TextEnds(chars, n)
  PROVE  StringToVar(chars) = <<SubSeq(chars, 1, n)>>
<1> DEFINE I == {i \in 1..Len(chars) : chars[i] = 0}
           end == SelectInSeq(chars, LAMBDA x : x = 0)
<1>1. Len(chars) \in Nat /\ n \in 0..Len(chars)
  BY DEF TextEnds
<1>2. end = IF I # {} THEN Min(I) ELSE 0
  BY DEF SelectInSeq
<1>3. StringToVar(chars) = <<IF end = 0 THEN chars ELSE SubSeq(chars, 1, end - 1)>>
  BY DEF StringToVar
<1> HIDE DEF end
<1>4. CASE n = Len(chars)
  <2>1. I = {}
    BY <1>4 DEF TextEnds
  <2> QED BY <1>2, <1>3, <1>4, <2>1, SubSeqFull
<1>5. CASE n < Len(chars)
  <2>1. n + 1 \in I /\ \A i \in I : n + 1 <= i
    BY <1>1, <1>5 DEF TextEnds
  <2>2. Min(I) = n + 1
    BY <1>1, <2>1 DEF Min
  <2>3. end = n + 1
    BY <1>2, <2>1, <2>2
  <2>4. end # 0 /\ end - 1 = n
    BY <1>1, <2>3
  <2> QED BY <1>3, <2>4
<1> QED BY <1>1, <1>4, <1>5
-----------------------------------------------------------------------------
(* An address of the type it is meant to have: where it is in the memory.  *)
LEMMA MatchingBit ==
  ASSUME NEW c \in Configs, Matching(c), c.addr.kind = "bit"
  PROVE  /\ c.type = "bool" /\ c.addr.number \in Mem /\ c.addr.suffix[1] \in 0..(Bits - 1)
         /\ ItemStart(c.addr) \div Bits = c.addr.number /\ ItemStart(c.addr) % Bits = c.addr.suffix[1]
         /\ Covers(c.addr) = {<<c.addr.number, c.addr.suffix[1]>>}
         /\ ByteSize(c.addr) = 1
<1> DEFINE a == c.addr
<1>1. a \in Address /\ InMemory(a) /\ AddressIsValid(a) /\ c.type = "bool" /\ a.suffix[1] < Bits
  BY ConfigAddress DEF Matching, InMemory
<1>2. Bits \in 1..8
  BY ValuePathAssumption
<1>3. /\ ByteSize(a) = 1 /\ a.number \in Nat /\ a.suffix[1] \in Nat
      /\ ItemStart(a) \div Bits \in Mem
      /\ ItemStart(a) \div Bits = a.number + a.suffix[1] \div Bits
      /\ ItemStart(a) % Bits = a.suffix[1] % Bits
      /\ Covers(a) = {<<ItemStart(a) \div Bits, ItemStart(a) % Bits>>}
  BY <1>1, BitPlace
<1>4. a.suffix[1] \div Bits = 0 /\ a.suffix[1] % Bits = a.suffix[1]
  <2>1. a.suffix[1] \in Nat /\ a.suffix[1] < Bits
    BY <1>1, <1>3
  <2> QED BY <1>2, <2>1
<1>5. a.number + 0 = a.number /\ a.suffix[1] \in 0..(Bits - 1)
  <2>1. a.number \in Nat /\ a.suffix[1] \in Nat /\ a.suffix[1] < Bits
    BY <1>1, <1>3
  <2> QED BY <1>2, <2>1
<1>6. ItemStart(a) \div Bits = a.number /\ ItemStart(a) % Bits = a.suffix[1]
  BY <1>3, <1>4, <1>5, Zenon
<1> QED BY <1>1, <1>3, <1>5, <1>6, Zenon

(* The bytes of an address that is not a bit.                              *)
SizeOf(a) ==
  CASE a.kind = "B" -> (IF a.suffix = <<>> THEN 1 ELSE a.suffix[1])
    [] a.kind = "W" -> 2
    [] OTHER        -> 4
LEMMA MatchingBytes ==
  ASSUME NEW c \in Configs, Matching(c), c.addr.kind # "bit"
  PROVE  /\ c.addr.kind \in {"B", "W", "D"} /\ c.addr.number \in Nat
         /\ ItemStart(c.addr) = c.addr.number
         /\ ByteSize(c.addr) = SizeOf(c.addr) /\ SizeOf(c.addr) \in Nat
         /\ Covers(c.addr) = BytesOf(c.addr) \X (0..(Bits - 1))
         /\ \A n \in 0..(SizeOf(c.addr) - 1) : c.addr.number + n \in BytesOf(c.addr)
         /\ BytesOf(c.addr) \subseteq Mem
<1> DEFINE a == c.addr
<1>1. a \in Address /\ InMemory(a) /\ AddressIsValid(a) /\ MemSize \in Nat
  BY ConfigAddress, ValuePathAssumption DEF Matching, InMemory
<1>2. a.kind \in {"B", "W", "D"}
  BY <1>1, ConfigAddress DEF AddressIsValid
<1>3. /\ ItemStart(a) = a.number /\ a.number \in Nat /\ ByteSize(a) \in Nat
      /\ Covers(a) = BytesOf(a) \X (0..(Bits - 1))
  BY <1>1, ItemPlace
<1>4. AddressGetAmount(a) = IF a.kind = "B" /\ a.suffix # <<>> THEN a.suffix[1] ELSE 1
  BY <1>2 DEF AddressGetAmount
<1>5. DataSizeByte(a.kind) = IF a.kind = "B" THEN 1 ELSE IF a.kind = "W" THEN 2 ELSE 4
  BY <1>2 DEF DataSizeByte
<1>6. a.suffix # <<>> => a.suffix[1] \in Nat
  BY ConfigAddress
<1>7. ByteSize(a) = SizeOf(a)
  <2>1. CASE a.kind = "B" /\ a.suffix # <<>>
    BY <1>4, <1>5, <1>6, <2>1 DEF ByteSize, SizeOf
  <2>2. CASE a.kind = "B" /\ a.suffix = <<>>
    BY <1>4, <1>5, <2>2 DEF ByteSize, SizeOf
  <2>3. CASE a.kind # "B"
    BY <1>2, <1>4, <1>5, <2>3 DEF ByteSize, SizeOf
  <2> QED BY <2>1, <2>2, <2>3
<1>8. a.number + ByteSize(a) <= MemSize
  BY <1>1, <1>3 DEF InMemory
<1>9. BytesOf(a) \subseteq Mem
  BY <1>1, <1>3, <1>8 DEF BytesOf, Mem
<1>10. \A n \in 0..(SizeOf(a) - 1) : a.number + n \in BytesOf(a)
  BY <1>3, <1>7 DEF BytesOf
<1> QED BY <1>2, <1>3, <1>7, <1>9, <1>10

LEMMA MatchingTypes ==
  ASSUME NEW c \in Configs, Matching(c), c.addr.kind # "bit"
  PROVE  /\ c.type \in {"uint8", "string", "int16", "int32", "float"}
         /\ c.type = "uint8" => SizeOf(c.addr) = 1
         /\ c.type = "string" => /\ c.addr.suffix[1] \in Nat /\ SizeOf(c.addr) = c.addr.suffix[1]
         /\ c.type = "int16" => SizeOf(c.addr) = 2 /\ DataSizeByte(c.addr.kind) = 2
         /\ c.type \in {"int32", "float"} => SizeOf(c.addr) = 4 /\ DataSizeByte(c.addr.kind) = 4
<1>1. c.addr.kind \in {"B", "W", "D"}
  BY MatchingBytes
<1>2. CASE c.addr.kind = "B"
  <2>1. c.type = IF c.addr.suffix = <<>> THEN "uint8" ELSE "string"
    BY <1>2 DEF Matching
  <2>2. SizeOf(c.addr) = IF c.addr.suffix = <<>> THEN 1 ELSE c.addr.suffix[1]
    BY <1>2 DEF SizeOf
  <2> QED BY <2>1, <2>2, ConfigAddress
<1>3. CASE c.addr.kind = "W"
  BY <1>3 DEF Matching, SizeOf, DataSizeByte
<1>4. CASE c.addr.kind = "D"
  BY <1>4 DEF Matching, SizeOf, DataSizeByte
<1> QED BY <1>1, <1>2, <1>3, <1>4

(* What the PLC's program sees is decided by the bits the address names.   *)
LEMMA ViewKept ==
  ASSUME NEW c \in Configs, Matching(c),
         \A i \in Mem, k \in 0..(Bits - 1) : <<i, k>> \in Covers(c.addr) => BitOf(mem'[i], k) = BitOf(mem[i], k),
         \A i \in Mem : (\A k \in 0..(Bits - 1) : <<i, k>> \in Covers(c.addr)) => mem'[i] = mem[i]
  PROVE  PlcView(c)' = PlcView(c)
<1>1. CASE c.addr.kind = "bit"
  BY <1>1, MatchingBit DEF PlcView
<1>2. CASE c.addr.kind # "bit"
  <2> DEFINE i == c.addr.number
  <2>1. i \in Nat /\ \A n \in 0..(SizeOf(c.addr) - 1) : mem'[i + n] = mem[i + n]
    BY <1>2, MatchingBytes
  <2>2. CASE c.type = "uint8"
    <3>1. SizeOf(c.addr) = 1 /\ i + 0 = i
      BY <1>2, <2>1, <2>2, MatchingTypes
    <3>2. mem'[i] = mem[i]
      BY <2>1, <3>1
    <3> QED BY <2>2, <3>2 DEF PlcView
  <2>3. CASE c.type = "string"
    <3>1. c.addr.suffix[1] \in Nat /\ SizeOf(c.addr) = c.addr.suffix[1]
      BY <1>2, <2>3, MatchingTypes
    <3>2. ASSUME NEW k \in 1..c.addr.suffix[1] PROVE mem'[i + k - 1] = mem[i + k - 1]
      <4>1. k - 1 \in 0..(SizeOf(c.addr) - 1) /\ i + (k - 1) = i + k - 1
        BY <2>1, <3>1
      <4> QED BY <2>1, <4>1
    <3>3. [k \in 1..c.addr.suffix[1] |-> mem'[i + k - 1]] = [k \in 1..c.addr.suffix[1] |-> mem[i + k - 1]]
      BY <3>2
    <3> QED BY <2>3, <3>3 DEF PlcView
  <2>4. CASE c.type \in {"int16", "int32", "float"}
    <3>1. DataSizeByte(c.addr.kind) = SizeOf(c.addr) /\ SizeOf(c.addr) \in {2, 4}
      BY <1>2, <2>4, MatchingTypes
    <3>2. /\ mem'[i] = mem[i] /\ mem'[i + 1] = mem[i + 1]
          /\ SizeOf(c.addr) = 4 => mem'[i + 2] = mem[i + 2] /\ mem'[i + 3] = mem[i + 3]
      BY <2>1, <3>1
    <3>3. HighestFirst(i, SizeOf(c.addr))' = HighestFirst(i, SizeOf(c.addr))
      BY <3>1, <3>2 DEF HighestFirst
    <3> QED BY <2>4, <3>1, <3>3 DEF PlcView
  <2> QED BY <1>2, <2>2, <2>3, <2>4, MatchingTypes
<1> QED BY <1>1, <1>2

(* A poll gives what the PLC's program sees.                               *)
LEMMA PollSees ==
  ASSUME NEW c \in Configs, Matching(c), mem \in [Mem -> Byte]
  PROVE  ToVar(c.type, ItemBytes(c.addr)) = <<PlcView(c)>>
<1> DEFINE a == c.addr
           i == c.addr.number
           size == SizeOf(a)
           bytes == ItemBytes(a)
<1>1. CASE a.kind = "bit"
  <2>1. /\ c.type = "bool"
        /\ ItemStart(a) \div Bits = i /\ ItemStart(a) % Bits = a.suffix[1]
    BY <1>1, MatchingBit
  <2>2. bytes = <<BitOf(mem[i], a.suffix[1])>>
    BY <1>1, <2>1 DEF ItemBytes
  <2> QED BY <2>1, <2>2 DEF ToVar, BoolToVar, PlcView
<1>2. CASE a.kind # "bit"
  <2>1. /\ size \in Nat /\ i \in Nat /\ ByteSize(a) = size /\ ItemStart(a) = i
        /\ \A n \in 0..(size - 1) : mem[i + n] \in Byte
    BY <1>2, MatchingBytes
  <2>2. bytes = [k \in 1..size |-> mem[i + k - 1]]
    BY <1>2, <2>1 DEF ItemBytes
  <2>3. \A k \in 1..size : mem[i + k - 1] \in Byte
    <3>1. ASSUME NEW k \in 1..size PROVE mem[i + k - 1] \in Byte
      <4>1. k - 1 \in 0..(size - 1) /\ i + (k - 1) = i + k - 1
        BY <2>1
      <4> QED BY <2>1, <4>1
    <3> QED BY <3>1
  <2> HIDE DEF size, bytes
  <2>4. /\ bytes \in Seq(Byte) /\ Len(bytes) = size
        /\ \A k \in 1..size : bytes[k] = mem[i + k - 1]
    BY <2>1, <2>2, <2>3
  <2>5. CASE c.type = "string"
    <3>1. size = a.suffix[1]
      BY <1>2, <2>5, MatchingTypes DEF size
    <3>2. PICK n : TextEnds(bytes, n)
      BY <2>4, TextHasEnd
    <3>3. PlcView(c) = UpToZero(bytes)
      BY <2>2, <2>5, <3>1 DEF PlcView
    <3> QED BY <2>4, <2>5, <3>2, <3>3, UpToZeroIs, StringToVarIs DEF ToVar, bytes
  <2>6. CASE c.type = "uint8"
    <3>1. size = 1
      BY <1>2, <2>6, MatchingTypes DEF size
    <3>2. bytes[1] = mem[i] /\ ~WrongLength(bytes, "uint8")
      BY <2>1, <2>4, <3>1 DEF WrongLength, ItemSize
    <3> QED BY <2>6, <3>2 DEF ToVar, Uint8ToVar, PlcView, bytes
  <2>7. CASE c.type = "int16"
    <3>1. size = 2 /\ DataSizeByte(a.kind) = 2
      BY <1>2, <2>7, MatchingTypes DEF size
    <3>2. /\ bytes[1] = mem[i] /\ bytes[2] = mem[i + 1]
          /\ bytes[1] \in Byte /\ bytes[2] \in Byte
      BY <2>1, <2>4, <3>1
    <3>3. ~WrongLength(bytes, "int16") /\ FirstItem(bytes, "int16") = bytes
      BY <2>4, <3>1, SubSeqFull DEF WrongLength, ItemSize, FirstItem
    <3>4. Signed(CopyNSwapBytes(bytes)) = SignedTop(bytes[1], Base) * Base + bytes[2]
      BY <2>4, <3>1, <3>2, SignedTwo
    <3>5. HighestFirst(i, 2) = SignedTop(bytes[1], Base) * Base + bytes[2]
      BY <3>2 DEF HighestFirst, SignedTop
    <3> QED BY <2>7, <3>1, <3>3, <3>4, <3>5 DEF ToVar, Int16ToVar, PlcView, bytes
  <2>8. CASE c.type \in {"int32", "float"}
    <3>1. size = 4 /\ DataSizeByte(a.kind) = 4
      BY <1>2, <2>8, MatchingTypes DEF size
    <3>2. /\ bytes[1] = mem[i] /\ bytes[2] = mem[i + 1] /\ bytes[3] = mem[i + 2] /\ bytes[4] = mem[i + 3]
          /\ bytes[1] \in Byte /\ bytes[2] \in Byte /\ bytes[3] \in Byte /\ bytes[4] \in Byte
      BY <2>1, <2>4, <3>1
    <3>3. /\ ~WrongLength(bytes, "int32") /\ FirstItem(bytes, "int32") = bytes
          /\ ~WrongLength(bytes, "float") /\ FirstItem(bytes, "float") = bytes
      BY <2>4, <3>1, SubSeqFull DEF WrongLength, ItemSize, FirstItem
    <3>4. Signed(CopyNSwapBytes(bytes)) = Horner(SignedTop(bytes[1], Base), bytes[2], bytes[3], bytes[4], Base)
      BY <2>4, <3>1, <3>2, SignedFour
    <3>5. HighestFirst(i, 4) = Horner(SignedTop(bytes[1], Base), bytes[2], bytes[3], bytes[4], Base)
      BY <3>2 DEF HighestFirst, SignedTop, Horner
    <3> QED BY <2>8, <3>1, <3>3, <3>4, <3>5 DEF ToVar, Int32ToVar, FloatToVar, PlcView, bytes
  <2> QED BY <1>2, <2>5, <2>6, <2>7, <2>8, MatchingTypes DEF bytes
<1> QED BY <1>1, <1>2

(* A write gives the PLC's program what was meant to be written.           *)
LEMMA StoredBytes ==
  ASSUME NEW c \in Configs, Matching(c), c.addr.kind # "bit", mem \in [Mem -> Byte],
         NEW b \in [1..ByteSize(c.addr) -> Byte], mem' = Stored(c.addr, b)
  PROVE  \A n \in 1..SizeOf(c.addr) : mem'[c.addr.number + n - 1] = b[n]
<1> DEFINE a == c.addr
<1> SUFFICES ASSUME NEW n \in 1..SizeOf(a) PROVE mem'[a.number + n - 1] = b[n]
  OBVIOUS
<1>1. /\ a.number \in Nat /\ ItemStart(a) = a.number /\ ByteSize(a) = SizeOf(a) /\ SizeOf(a) \in Nat
  BY MatchingBytes
<1>2. a.number + n - 1 \in BytesOf(a) /\ a.number + n - 1 \in Mem
  <2>1. n - 1 \in 0..(SizeOf(a) - 1) /\ a.number + (n - 1) = a.number + n - 1
    BY <1>1
  <2> QED BY <2>1, MatchingBytes
<1>3. mem' = [i \in Mem |-> IF i \in BytesOf(a) THEN b[i - a.number + 1] ELSE mem[i]]
  BY <1>1 DEF Stored, BytesOf
<1> DEFINE k == a.number + n - 1
<1>4. k - a.number + 1 = n
  BY <1>1
<1> HIDE DEF k
<1>5. mem'[k] = b[k - a.number + 1]
  BY <1>2, <1>3 DEF k
<1> QED BY <1>4, <1>5 DEF k

LEMMA WriteSeen ==
  ASSUME NEW c \in Configs, Matching(c), mem \in [Mem -> Byte],
         NEW v \in ValuesOf[c.type], ToPeriph(c.type, v) # <<>>,
         NEW b \in Read(ToPeriph(c.type, v), ByteSize(c.addr)), mem' = Stored(c.addr, b)
  PROVE  PlcView(c)' = Kept(c, v)
<1> DEFINE a == c.addr
           i == c.addr.number
           data == ToPeriph(c.type, v)
<1>0. c.type \in Types /\ InMemory(a) /\ ByteSize(a) \in Nat
  <2>1. CASE a.kind = "bit"
    <3>1. c.type = "bool" /\ ByteSize(a) = 1
      BY <2>1, MatchingBit
    <3>2. InMemory(a)
      BY DEF Matching
    <3> QED BY <3>1, <3>2 DEF Types
  <2>2. CASE a.kind # "bit"
    <3>1. ByteSize(a) \in Nat
      BY <2>2, MatchingBytes
    <3> QED BY <2>2, <3>1, MatchingTypes DEF Types, Matching
  <2> QED BY <2>1, <2>2
<1>1. data \in Seq(Byte) /\ Len(data) \in Nat
  BY <1>0, PeriphBytes
<1> HIDE DEF data
<1>2. /\ b \in [1..ByteSize(a) -> Byte]
      /\ \A n \in 1..ByteSize(a) : n <= Len(data) => b[n] = data[n]
  BY <1>0, <1>1, ReadBytes DEF data
<1>3. CASE a.kind = "bit"
  <2>1. /\ c.type = "bool" /\ i \in Mem /\ a.suffix[1] \in 0..(Bits - 1) /\ ByteSize(a) = 1
        /\ ItemStart(a) \div Bits = i /\ ItemStart(a) % Bits = a.suffix[1]
    BY <1>3, MatchingBit
  <2>2. data = <<v>> /\ v \in {0, 1}
    BY <2>1, ValuesAssumption DEF ToPeriph, BoolToPeriph, data
  <2>3. b[1] = v
    BY <1>2, <2>1, <2>2
  <2>4. mem' = [mem EXCEPT ![i] = WithBit(mem[i], a.suffix[1], v)]
    BY <1>3, <2>1, <2>2, <2>3 DEF Stored
  <2>5. BitOf(mem'[i], a.suffix[1]) = v
    BY <2>1, <2>2, <2>4, WithBitLaws
  <2> QED BY <2>1, <2>5 DEF PlcView, Kept
<1>4. CASE a.kind # "bit"
  <2>1. /\ i \in Nat /\ ByteSize(a) = SizeOf(a) /\ SizeOf(a) \in Nat
        /\ \A n \in 1..SizeOf(a) : mem'[i + n - 1] = b[n]
    BY <1>2, <1>4, MatchingBytes, StoredBytes
  <2>2. CASE c.type = "uint8"
    <3>1. SizeOf(a) = 1 /\ i + 1 - 1 = i
      BY <1>4, <2>1, <2>2, MatchingTypes
    <3>2. v \in Int
      BY <2>2, ValuesAssumption
    <3>3. /\ Len(data) = 1 /\ data[1] = (v \div Weight[1]) % Base
      BY <2>2, <3>2, HostBytesAre DEF ToPeriph, Uint8ToPeriph, data
    <3>4. mem'[i] = v % Base
      <4>1. Weight[1] = 1 /\ v \div 1 = v
        BY <3>2 DEF Weight
      <4>2. mem'[i] = b[1] /\ b[1] = data[1]
        BY <1>2, <2>1, <3>1, <3>3
      <4> QED BY <3>3, <4>1, <4>2
    <3>5. (CHOOSE r \in Byte : (v - r) % Base = 0) = v % Base
      <4>1. v % Base \in Byte /\ (v - (v % Base)) % Base = 0
        BY <3>2, BaseIs, RemainderIs DEF Byte
      <4>2. \A r \in Byte : (v - r) % Base = 0 => r = v % Base
        BY <3>2, BaseIs, RemainderUnique DEF Byte
      <4> QED BY <4>1, <4>2
    <3> QED BY <2>2, <3>4, <3>5 DEF PlcView, Kept
  <2>3. CASE c.type = "int16"
    <3>1. SizeOf(a) = 2 /\ DataSizeByte(a.kind) = 2
      BY <1>4, <2>3, MatchingTypes
    <3>2. v \in Int
      BY <2>3, ValuesAssumption
    <3>3. /\ Len(data) = 2 /\ data[1] = (v \div Weight[2]) % Base /\ data[2] = (v \div Weight[1]) % Base
      BY <2>3, <3>2, SwappedTwo DEF ToPeriph, Int16ToPeriph, data
    <3>4. mem'[i] = (v \div Base) % Base /\ mem'[i + 1] = v % Base
      <4>1. Weight[1] = 1 /\ v \div 1 = v /\ Weight[2] = Base
        BY <3>2 DEF Weight
      <4>2. mem'[i] = b[1] /\ b[1] = data[1] /\ mem'[i + 1] = b[2] /\ b[2] = data[2]
        BY <1>2, <2>1, <3>1, <3>3
      <4> QED BY <3>3, <4>1, <4>2
    <3>5. HighestFirst(i, 2)' = SignedTop((v \div Base) % Base, Base) * Base + (v % Base)
      BY <3>4 DEF HighestFirst, SignedTop
    <3>6. HighestFirst(i, 2)' = Kept(c, v)
      BY <2>3, <3>2, <3>5, KeptOfTwo
    <3> QED BY <2>3, <3>1, <3>6 DEF PlcView
  <2>4. CASE c.type \in {"int32", "float"}
    <3>1. SizeOf(a) = 4 /\ DataSizeByte(a.kind) = 4
      BY <1>4, <2>4, MatchingTypes
    <3>2. v \in Int /\ 2 * v \in -Modulus(4)..(Modulus(4) - 1)
      BY <2>4, ValuesAssumption
    <3>3. /\ Len(data) = 4 /\ data[1] = (v \div Weight[4]) % Base /\ data[2] = (v \div Weight[3]) % Base
          /\ data[3] = (v \div Weight[2]) % Base /\ data[4] = (v \div Weight[1]) % Base
      BY <2>4, <3>2, SwappedFour DEF ToPeriph, Int32ToPeriph, FloatToPeriph, data
    <3>4. /\ mem'[i] = (v \div (Base * Base * Base)) % Base /\ mem'[i + 1] = (v \div (Base * Base)) % Base
          /\ mem'[i + 2] = (v \div Base) % Base /\ mem'[i + 3] = v % Base
      <4>1. /\ Weight[1] = 1 /\ v \div 1 = v /\ Weight[2] = Base
            /\ Weight[3] = Base * Base /\ Weight[4] = Base * Base * Base
        BY <3>2 DEF Weight
      <4>2. /\ mem'[i] = b[1] /\ b[1] = data[1] /\ mem'[i + 1] = b[2] /\ b[2] = data[2]
            /\ mem'[i + 2] = b[3] /\ b[3] = data[3] /\ mem'[i + 3] = b[4] /\ b[4] = data[4]
        BY <1>2, <2>1, <3>1, <3>3
      <4> QED BY <3>3, <4>1, <4>2
    <3>5. HighestFirst(i, 4)' = Horner(SignedTop((v \div (Base * Base * Base)) % Base, Base),
                                       (v \div (Base * Base)) % Base, (v \div Base) % Base, v % Base, Base)
      BY <3>4 DEF HighestFirst, SignedTop, Horner
    <3>6. Modulus(4) = Base * Base * Base * Base
      BY BaseIs DEF Modulus, Weight, Bases
    <3>7. HighestFirst(i, 4)' = v
      BY <3>2, <3>5, <3>6, BaseIs, SignedFourIs
    <3> QED BY <2>4, <3>1, <3>7 DEF PlcView, Kept
  <2>5. CASE c.type = "string"
    <3> DEFINE n == a.suffix[1]
               k == IF Len(v) < n THEN Len(v) ELSE n
               chars == [j \in 1..n |-> mem'[i + j - 1]]
    <3>1. SizeOf(a) = n /\ n \in Nat
      BY <1>4, <2>5, MatchingTypes
    <3>2. v \in Seq(Byte \ {0}) /\ data = StringToPeriph(v)
      BY <2>5, ValuesAssumption DEF ToPeriph, data
    <3>3. /\ Len(v) \in Nat /\ Len(v) < TextSize /\ Len(data) = TextSize
          /\ \A j \in 1..TextSize : data[j] = IF j <= Len(v) THEN v[j] ELSE 0
      BY <3>2, TextBytes DEF data
    <3>4. TextSize \in Nat
      BY ValuePathAssumption
    <3>5. \A j \in 1..n : mem'[i + j - 1] = b[j] /\ b[j] \in Byte
      BY <1>2, <2>1, <3>1
    <3>6. \A j \in 1..n : j <= Len(v) + 1 => b[j] = IF j <= Len(v) THEN v[j] ELSE 0
      BY <1>2, <2>1, <3>1, <3>3, <3>4
    <3> HIDE DEF n
    <3>7. /\ chars \in Seq(Byte) /\ Len(chars) = n
          /\ \A j \in 1..n : chars[j] = b[j]
      <4>1. \A j \in 1..n : chars[j] = b[j] /\ chars[j] \in Byte
        BY <3>5
      <4>2. n \in Nat /\ DOMAIN chars = 1..n
        BY <3>1
      <4>3. chars \in Seq(Byte) /\ Len(chars) = n
        <5>1. chars = [j \in 1..n |-> chars[j]]
          OBVIOUS
        <5> HIDE DEF chars
        <5> QED BY <4>1, <4>2, <5>1
      <4> QED BY <4>1, <4>3
    <3>8. \A j \in 1..Len(v) : v[j] # 0 /\ v[j] \in Byte
      BY <3>2
    <3> HIDE DEF chars
    <3>9. TextEnds(chars, k)
      BY <3>1, <3>3, <3>6, <3>7, <3>8 DEF TextEnds
    <3>10. SubSeq(chars, 1, k) = SubSeq(v, 1, k)
      <4>1. v \in Seq(Byte) /\ k \in 0..Len(v) /\ k \in 0..Len(chars)
        BY <3>1, <3>2, <3>3, <3>7, SeqMonotonic
      <4>2. \A j \in 1..k : chars[j] = v[j]
        BY <3>1, <3>3, <3>6, <3>7
      <4> QED BY <4>1, <4>2, PrefixIs, SeqEqual
    <3>11. PlcView(c)' = UpToZero(chars)
      BY <2>5 DEF PlcView, chars, n
    <3>12. Kept(c, v) = SubSeq(v, 1, k)
      BY <2>5 DEF Kept, n
    <3> QED BY <3>7, <3>9, <3>10, <3>11, <3>12, UpToZeroIs
  <2> QED BY <1>4, <2>2, <2>3, <2>4, <2>5, MatchingTypes
<1> QED BY <1>3, <1>4
-----------------------------------------------------------------------------
(* A write that waits in its slot was made by toPeriph from a value of an  *)
(* address of that variable.                                               *)
SlotHolds(a, w) ==
  \E c \in Configs :
    /\ c.type \in Types /\ c.name = "plc" /\ c.addr = a
    /\ \E v \in ValuesOf[c.type] :
         /\ ToPeriph(c.type, v) # <<>>
         /\ w = <<[by |-> c, value |-> v, data |-> ToPeriph(c.type, v)]>>
SlotsHold == \A a \in DOMAIN msVars : msVars[a].toPlc = <<>> \/ SlotHolds(a, msVars[a].toPlc)

(* The debug level has two bytes.                                          *)
Level == {l \in Int : 2 * l \in -(Base * Base)..(Base * Base - 1)}

(* What was written is seen, because what waits to be written is what      *)
(* toPeriph made of it and the memory has bytes.                           *)
DataInv ==
  /\ objects \subseteq configs /\ configs \subseteq Configs /\ DOMAIN msVars \subseteq Address
  /\ VarsAreRecords /\ SlotsHold
  /\ mem \in [Mem -> Byte] /\ logLvl \in Level /\ writes \in 0..MaxWrites
  /\ DOMAIN known = Configs
  /\ PlcSeesWritten

LEMMA InitData == Init => DataInv
<1> SUFFICES ASSUME Init PROVE DataInv
  OBVIOUS
<1>1. DOMAIN msVars = {}
  BY DEF Init
<1>2. mem \in [Mem -> Byte]
  BY ValuePathAssumption DEF Init, Mem, Byte, Base
<1>3. logLvl \in Level
  BY BaseIs DEF Init, Level, Bases
<1>4. PlcSeesWritten
  BY DEF Init, PlcSeesWritten
<1>5. writes \in 0..MaxWrites
  BY ValuePathAssumption DEF Init
<1> QED BY <1>1, <1>2, <1>3, <1>4, <1>5 DEF Init, DataInv, VarsAreRecords, SlotsHold

LEMMA SlotData ==
  ASSUME SlotsHold, NEW a \in DOMAIN msVars, msVars[a].toPlc # <<>>
  PROVE  LET w == msVars[a].toPlc[1]
         IN  /\ w.by \in Configs /\ w.by.type \in Types /\ w.by.name = "plc" /\ w.by.addr = a
             /\ w.value \in ValuesOf[w.by.type]
             /\ w.data = ToPeriph(w.by.type, w.value) /\ w.data # <<>>
             /\ w.data \in Seq(Byte)
<1>1. SlotHolds(a, msVars[a].toPlc)
  BY DEF SlotsHold
<1>2. PICK c \in Configs :
        /\ c.type \in Types /\ c.name = "plc" /\ c.addr = a
        /\ \E v \in ValuesOf[c.type] :
             /\ ToPeriph(c.type, v) # <<>>
             /\ msVars[a].toPlc = <<[by |-> c, value |-> v, data |-> ToPeriph(c.type, v)]>>
  BY <1>1 DEF SlotHolds
<1>3. PICK v \in ValuesOf[c.type] :
        /\ ToPeriph(c.type, v) # <<>>
        /\ msVars[a].toPlc = <<[by |-> c, value |-> v, data |-> ToPeriph(c.type, v)]>>
  BY <1>2
<1>4. ToPeriph(c.type, v) \in Seq(Byte)
  BY <1>2, <1>3, PeriphBytes
<1> QED BY <1>2, <1>3, <1>4

LEMMA SentFrame ==
  ASSUME DataInv, NEW a \in DOMAIN msVars, WriteToPLC(a)
  PROVE  /\ mem' \in [Mem -> Byte]
         /\ \A i \in Mem, k \in 0..(Bits - 1) :
              <<i, k>> \notin Covers(a) => BitOf(mem'[i], k) = BitOf(mem[i], k)
         /\ \A i \in Mem : (\A k \in 0..(Bits - 1) : <<i, k>> \notin Covers(a)) => mem'[i] = mem[i]
<1>1. CASE InMemory(a)
  <2>1. PICK b \in Read(msVars[a].toPlc[1].data, ByteSize(a)) : mem' = Stored(a, b)
    BY <1>1 DEF WriteToPLC
  <2>2. msVars[a].toPlc[1].data \in Seq(Byte)
    BY SlotData DEF DataInv, WriteToPLC
  <2>3. a \in Address /\ AddressIsValid(a) /\ mem \in [Mem -> Byte]
    BY <1>1 DEF DataInv, InMemory
  <2>4. ByteSize(a) \in Nat
    BY <2>3, BitPlace, ItemPlace
  <2>5. b \in [1..ByteSize(a) -> Byte]
    BY <2>1, <2>2, <2>4, ReadBytes
  <2> QED BY <1>1, <2>1, <2>3, <2>5, StoredFrame
<1>2. CASE ~InMemory(a)
  BY <1>2 DEF WriteToPLC, DataInv
<1> QED BY <1>1, <1>2

(* Values at other addresses stay known only where no bit is shared.       *)
LEMMA SentSeen ==
  ASSUME DataInv, NEW a \in DOMAIN msVars, WriteToPLC(a)
  PROVE  PlcSeesWritten'
<1>1. CASE ~InMemory(a)
  BY <1>1 DEF WriteToPLC, DataInv, PlcSeesWritten, PlcView, HighestFirst
<1>2. CASE InMemory(a)
  <2> DEFINE w == msVars[a].toPlc[1]
  <2>1. /\ w.by \in Configs /\ w.by.type \in Types /\ w.by.name = "plc" /\ w.by.addr = a
        /\ w.value \in ValuesOf[w.by.type]
        /\ w.data = ToPeriph(w.by.type, w.value) /\ w.data # <<>>
    BY SlotData DEF DataInv, WriteToPLC
  <2>2. PICK b \in Read(w.data, ByteSize(a)) : mem' = Stored(a, b)
    BY <1>2 DEF WriteToPLC
  <2>3. known' = NowKnown(a, w) /\ logLvl' = logLvl
    BY <1>2 DEF WriteToPLC
  <2> HIDE DEF w
  <2> SUFFICES ASSUME NEW c \in Configs, known'[c] # <<>>
               PROVE  /\ Matching(c) => PlcView(c)' = Kept(c, known'[c][1])
                      /\ c.name = "_DEBUGLVL" /\ c.type = "int16" => logLvl' = Kept(c, known'[c][1])
    BY DEF PlcSeesWritten
  <2>4. known'[c] = IF c = w.by THEN <<w.value>>
                    ELSE IF c.name = "plc" /\ Touching(c.addr, a) THEN <<>> ELSE known[c]
    BY <2>3 DEF NowKnown
  <2>5. CASE c = w.by
    <3>1. known'[c][1] = w.value
      BY <2>4, <2>5
    <3>2. Matching(c) => PlcView(c)' = Kept(c, w.value)
      BY <2>1, <2>2, <2>5, WriteSeen DEF DataInv
    <3> QED BY <2>1, <2>5, <3>1, <3>2
  <2>6. CASE c # w.by
    <3>1. known'[c] = known[c] /\ ~(c.name = "plc" /\ Touching(c.addr, a))
      BY <2>4, <2>6
    <3>2. Matching(c) => PlcView(c)' = PlcView(c)
      <4> SUFFICES ASSUME Matching(c) PROVE PlcView(c)' = PlcView(c)
        OBVIOUS
      <4>1. Covers(c.addr) \cap Covers(a) = {}
        BY <3>1 DEF Matching, Touching
      <4>2. 0 \in 0..(Bits - 1)
        BY ValuePathAssumption
      <4>3. \A i \in Mem, k \in 0..(Bits - 1) : <<i, k>> \in Covers(c.addr) => BitOf(mem'[i], k) = BitOf(mem[i], k)
        BY <4>1, SentFrame
      <4>4. \A i \in Mem : (\A k \in 0..(Bits - 1) : <<i, k>> \in Covers(c.addr)) => mem'[i] = mem[i]
        BY <4>1, <4>2, SentFrame
      <4> QED BY <4>3, <4>4, ViewKept
    <3> QED BY <2>3, <3>1, <3>2 DEF DataInv, PlcSeesWritten
  <2> QED BY <2>5, <2>6
<1> QED BY <1>1, <1>2

(* One lemma per action.  A value that is forgotten need not be seen.      *)
LEMMA SameView ==
  ASSUME UNCHANGED <<mem, logLvl>>, PlcSeesWritten,
         \A c \in Configs : known'[c] = known[c] \/ known'[c] = <<>>
  PROVE  PlcSeesWritten'
<1>1. \A c \in Configs : PlcView(c)' = PlcView(c)
  BY DEF PlcView, HighestFirst
<1> QED BY <1>1 DEF PlcSeesWritten

LEMMA AddDpPaData == ASSUME DataInv, NEW c \in Configs, AddDpPa(c) PROVE DataInv'
<1>1. /\ objects' \subseteq configs' /\ configs' \subseteq Configs
      /\ UNCHANGED <<logLvl, mem, known, writes>>
  BY DEF DataInv, AddDpPa
<1>2. CASE msVars' = msVars
  BY <1>1, <1>2, SameView DEF DataInv, VarsAreRecords, SlotsHold
<1>3. CASE msVars' = WithVar(c)
  <2>1. /\ DOMAIN msVars' = DOMAIN msVars \cup {c.addr}
        /\ \A a \in DOMAIN msVars : msVars'[a] = msVars[a]
        /\ c.addr \notin DOMAIN msVars => msVars'[c.addr] = [pollTime |-> Stoi(c.poll), toPlc |-> <<>>]
    BY <1>3 DEF WithVar
  <2>2. VarsAreRecords'
    BY <2>1 DEF DataInv, VarsAreRecords
  <2>3. SlotsHold'
    BY <2>1 DEF DataInv, SlotsHold
  <2>4. DOMAIN msVars' \subseteq Address
    BY <2>1, ConfigAddress DEF DataInv
  <2> QED BY <1>1, <2>2, <2>3, <2>4, SameView DEF DataInv
<1> QED BY <1>2, <1>3 DEF AddDpPa

LEMMA ClrDpPaData == ASSUME DataInv, NEW c \in Configs, ClrDpPa(c) PROVE DataInv'
<1>1. /\ objects' \subseteq configs' /\ configs' \subseteq Configs
      /\ UNCHANGED <<logLvl, mem, writes>>
      /\ DOMAIN known' = Configs /\ \A k \in Configs : known'[k] = known[k] \/ known'[k] = <<>>
  BY DEF DataInv, ClrDpPa
<1>2. /\ DOMAIN msVars' \subseteq DOMAIN msVars
      /\ \A a \in DOMAIN msVars' : msVars'[a] = msVars[a]
  BY DEF ClrDpPa, WithoutVar, Restrict
<1>3. VarsAreRecords' /\ SlotsHold'
  BY <1>2 DEF DataInv, VarsAreRecords, SlotsHold
<1> QED BY <1>1, <1>2, <1>3, SameView DEF DataInv

LEMMA SlotWritten ==
  ASSUME VarsAreRecords, SlotsHold, NEW a \in DOMAIN msVars, NEW w, w = <<>> \/ SlotHolds(a, w),
         msVars' = [msVars EXCEPT ![a].toPlc = w]
  PROVE  DOMAIN msVars' = DOMAIN msVars /\ VarsAreRecords' /\ SlotsHold'
<1>1. /\ DOMAIN msVars' = DOMAIN msVars
      /\ msVars'[a] = [msVars[a] EXCEPT !.toPlc = w]
      /\ \A b \in DOMAIN msVars : b # a => msVars'[b] = msVars[b]
  OBVIOUS
<1>2. DOMAIN msVars'[a] = {"pollTime", "toPlc"} /\ msVars'[a].toPlc = w
  BY <1>1 DEF VarsAreRecords
<1> QED BY <1>1, <1>2 DEF VarsAreRecords, SlotsHold

(* A debug level is made of two bytes, and is the value that was written   *)
(* when that has two.                                                      *)
LEMMA TopRange ==
  ASSUME NEW b \in Bases, NEW h \in 0..(b - 1), NEW l \in 0..(b - 1)
  PROVE  LET r == SignedTop(h, b) * b + l
         IN  r \in Int /\ 2 * r \in -(b * b)..(b * b - 1)
BY DEF Bases, SignedTop

LEMMA LevelIs ==
  ASSUME NEW b \in Seq(Byte), NEW two \in Read(b, 2)
  PROVE  Signed(CopyNSwapBytes(two)) \in Level
<1>1. two \in [1..2 -> Byte]
  BY ReadBytes
<1>2. two \in Seq(Byte) /\ Len(two) = 2 /\ two[1] \in Byte /\ two[2] \in Byte
  BY <1>1
<1>3. SignedTop(two[1], Base) * Base + two[2] \in Level
  BY <1>2, BaseIs, TopRange DEF Byte, Level
<1> QED BY <1>2, <1>3, SignedTwo

LEMMA LevelSeen ==
  ASSUME NEW c \in Configs, c.type = "int16", NEW v \in ValuesOf[c.type],
         NEW two \in Read(ToPeriph(c.type, v), 2)
  PROVE  Signed(CopyNSwapBytes(two)) = Kept(c, v)
<1> DEFINE data == ToPeriph(c.type, v)
<1>1. v \in Int
  BY ValuesAssumption
<1>2. /\ data \in Seq(Byte) /\ Len(data) = 2
      /\ data[1] = (v \div Weight[2]) % Base /\ data[2] = (v \div Weight[1]) % Base
  BY <1>1, SwappedTwo, HostBytesAre DEF ToPeriph, Int16ToPeriph
<1>3. Weight[1] = 1 /\ v \div 1 = v /\ Weight[2] = Base
  BY <1>1 DEF Weight
<1> HIDE DEF data
<1>4. two \in Seq(Byte) /\ Len(two) = 2 /\ two[1] = data[1] /\ two[2] = data[2]
  BY <1>2, ReadBytes DEF data
<1> QED BY <1>1, <1>2, <1>3, <1>4, SignedTwo, KeptOfTwo

LEMMA WriteDataData ==
  ASSUME DataInv, NEW c \in Configs, c.type \in Types, NEW v \in ValuesOf[c.type], WriteData(c, v)
  PROVE  DataInv'
<1> DEFINE b == ToPeriph(c.type, v)
<1>1. /\ UNCHANGED <<configs, objects, mem>> /\ writes' \in 0..MaxWrites
  BY ValuePathAssumption DEF DataInv, WriteData
<1>2. CASE c.name = "plc" /\ b # <<>> /\ QueuePLCItem(c, v, b)
  <2>1. UNCHANGED <<logLvl, known>>
    BY <1>2 DEF QueuePLCItem
  <2>2. DOMAIN msVars' = DOMAIN msVars /\ VarsAreRecords' /\ SlotsHold'
    <3>1. CASE c.addr \in DOMAIN msVars
      <4>1. SlotHolds(c.addr, <<[by |-> c, value |-> v, data |-> b]>>)
        BY <1>2 DEF SlotHolds
      <4> QED BY <1>2, <3>1, <4>1, SlotWritten DEF DataInv, QueuePLCItem
    <3>2. CASE c.addr \notin DOMAIN msVars
      BY <1>2, <3>2 DEF DataInv, QueuePLCItem, VarsAreRecords, SlotsHold
    <3> QED BY <3>1, <3>2
  <2> QED BY <1>1, <2>1, <2>2, SameView DEF DataInv
<1>3. CASE c.name = "_DEBUGLVL" /\ b # <<>> /\ SetLogLvl(c, v, b)
  <2>1. PICK two \in Read(b, 2) : logLvl' = Signed(CopyNSwapBytes(two))
    BY <1>3 DEF SetLogLvl
  <2>2. /\ UNCHANGED msVars /\ DOMAIN known' = Configs
        /\ \A k \in Configs : known'[k] = IF k = c THEN <<v>> ELSE IF k.name = c.name THEN <<>> ELSE known[k]
    BY <1>3 DEF SetLogLvl
  <2>3. logLvl' \in Level
    BY <1>3, <2>1, PeriphBytes, LevelIs
  <2>4. VarsAreRecords' /\ SlotsHold'
    BY <2>2 DEF DataInv, VarsAreRecords, SlotsHold
  <2>5. PlcSeesWritten'
    <3> SUFFICES ASSUME NEW k \in Configs, known'[k] # <<>>
                 PROVE  /\ Matching(k) => PlcView(k)' = Kept(k, known'[k][1])
                        /\ k.name = "_DEBUGLVL" /\ k.type = "int16" => logLvl' = Kept(k, known'[k][1])
      BY DEF PlcSeesWritten
    <3>1. PlcView(k)' = PlcView(k)
      BY <1>1 DEF PlcView, HighestFirst
    <3>2. CASE k = c
      <4>1. known'[k][1] = v
        BY <2>2, <3>2
      <4>2. k.name # "plc"
        BY <1>3, <3>2
      <4> QED BY <2>1, <3>2, <4>1, <4>2, LevelSeen DEF Matching
    <3>3. CASE k # c
      BY <1>3, <2>2, <3>1, <3>3 DEF DataInv, PlcSeesWritten
    <3> QED BY <3>2, <3>3
  <2> QED BY <1>1, <2>2, <2>3, <2>4, <2>5 DEF DataInv
<1>4. CASE UNCHANGED <<msVars, logLvl, known>>
  BY <1>1, <1>4, SameView DEF DataInv, VarsAreRecords, SlotsHold
<1> QED BY <1>2, <1>3, <1>4 DEF WriteData

LEMMA WriteToPLCData == ASSUME DataInv, NEW a \in DOMAIN msVars, WriteToPLC(a) PROVE DataInv'
<1>1. UNCHANGED <<configs, objects, logLvl, writes>> /\ msVars' = [msVars EXCEPT ![a].toPlc = <<>>]
  BY DEF WriteToPLC
<1>2. DOMAIN msVars' = DOMAIN msVars /\ VarsAreRecords' /\ SlotsHold'
  BY <1>1, SlotWritten DEF DataInv
<1>3. DOMAIN known' = Configs
  BY DEF DataInv, WriteToPLC, NowKnown
<1> QED BY <1>1, <1>2, <1>3, SentFrame, SentSeen DEF DataInv

LEMMA StepData == ASSUME DataInv, [Next]_vars PROVE DataInv'
<1>1. ASSUME NEW c \in Configs, AddDpPa(c) \/ ClrDpPa(c) PROVE DataInv'
  BY <1>1, AddDpPaData, ClrDpPaData
<1>2. ASSUME NEW c \in Configs, c.type \in Types, NEW v \in ValuesOf[c.type], WriteData(c, v) PROVE DataInv'
  BY <1>2, WriteDataData
<1>3. ASSUME NEW a \in DOMAIN msVars, WriteToPLC(a) PROVE DataInv'
  BY <1>3, WriteToPLCData
<1>4. ASSUME NEW a \in DOMAIN msVars, Poll(a) PROVE DataInv'
  BY <1>4, SameView DEF Poll, DataInv, VarsAreRecords, SlotsHold
<1>5. CASE UNCHANGED vars
  BY <1>5, SameView DEF vars, DataInv, VarsAreRecords, SlotsHold
<1> QED BY <1>1, <1>2, <1>3, <1>4, <1>5 DEF Next

(* Every reachable state has the invariant: slots hold what toPeriph made, *)
(* and what was written is seen.                                           *)
THEOREM DataInductive == Spec => []DataInv
BY InitData, StepData, PTL DEF Spec

(* The memory and the slots hold bytes, the debug level fits two bytes and *)
(* what has an HWObject is configured, whatever is written.                *)
THEOREM TypeCorrect == Spec => []TypeOK
<1>1. DataInv => TypeOK
  <2> SUFFICES ASSUME DataInv PROVE TypeOK
    OBVIOUS
  <2>1. ASSUME NEW a \in DOMAIN msVars
        PROVE  msVars[a].toPlc = <<>> \/ Range(msVars[a].toPlc[1].data) \subseteq Byte
    <3> SUFFICES ASSUME msVars[a].toPlc # <<>> PROVE Range(msVars[a].toPlc[1].data) \subseteq Byte
      OBVIOUS
    <3>1. msVars[a].toPlc[1].data \in Seq(Byte)
      BY SlotData DEF DataInv
    <3> QED BY <3>1 DEF Range
  <2> QED BY <2>1 DEF DataInv, TypeOK, Level
<1> QED BY <1>1, DataInductive, PTL

(* A value that WinCC OA has written is in the PLC for the PLC's program,  *)
(* at the address and in the byte order that were meant, until something   *)
(* overwrites it; the debug level is the logger's.                         *)
THEOREM Seen == Spec => []PlcSeesWritten
<1>1. DataInv => PlcSeesWritten
  BY DEF DataInv
<1> QED BY <1>1, DataInductive, PTL

(* A poll shows the value the PLC's program has, with its sign and with no *)
(* more text than there is.                                                *)
THEOREM Shown == Spec => PollShowsPlc
<1>1. ASSUME DataInv, NEW c \in objects, Matching(c), Poll(c.addr), c \in ShownIn(c.addr)
      PROVE  dp'[c] = <<PlcView(c)>>
  <2>1. c \in Configs /\ mem \in [Mem -> Byte]
    BY <1>1 DEF DataInv
  <2>2. ToVar(c.type, ItemBytes(c.addr)) = <<PlcView(c)>>
    BY <1>1, <2>1, PollSees
  <2>3. dp'[c] = LET v == ToVar(c.type, ItemBytes(c.addr))
                 IN  IF c \in ShownIn(c.addr) /\ v # <<>> THEN v ELSE dp[c]
    BY <1>1, <2>1 DEF Poll
  <2>4. <<PlcView(c)>> # <<>>
    OBVIOUS
  <2> QED BY <1>1, <2>2, <2>3, <2>4
<1>2. DataInv => [\A c \in objects : Matching(c) /\ Poll(c.addr) /\ c \in ShownIn(c.addr)
                    => dp'[c] = <<PlcView(c)>>]_vars
  BY <1>1
<1> QED BY <1>2, DataInductive, PTL DEF PollShowsPlc

(* A write changes the bits its address names and no other, whatever type  *)
(* the address was configured with.                                        *)
THEOREM Untouched == Spec => NeighboursUntouched
<1>1. DataInv => [\A a \in DOMAIN msVars : WriteToPLC(a) =>
                    \A i \in Mem, k \in 0..(Bits - 1) :
                      <<i, k>> \notin Covers(a) => BitOf(mem'[i], k) = BitOf(mem[i], k)]_vars
  BY SentFrame
<1> QED BY <1>1, DataInductive, PTL DEF NeighboursUntouched
=============================================================================
