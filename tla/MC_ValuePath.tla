--------------------------- MODULE MC_ValuePath ---------------------------
(* ValuePath with bytes of two bits: an integer of two bytes has 16 values *)
(* and one of four bytes has 256.  The addresses touch and overlap; one    *)
(* variable has two poll times and one is written with a zero before it.   *)
EXTENDS ValuePath

Var(kind, number, suffix) ==
  [letter |-> "V", kind |-> kind, number |-> number, suffix |-> suffix]

Plc(addr, zeros, seconds, type, dir) ==
  [name |-> "plc", addr |-> addr, poll |-> [zeros |-> zeros, number |-> seconds],
   type |-> type, dir |-> dir]

OnePart(name, type) ==
  [name |-> name, addr |-> Var("none", 0, <<>>), poll |-> [zeros |-> 0, number |-> 0],
   type |-> type, dir |-> "out"]

MCConfigs ==
  {Plc(Var("bit", 2, <<1>>), 0, 1, "bool", "inout"), Plc(Var("bit", 1, <<>>), 0, 1, "bool", "inout"),
   Plc(Var("B", 0, <<>>), 0, 1, "uint8", "inout"), Plc(Var("W", 1, <<>>), 0, 1, "int16", "inout"),
   Plc(Var("W", 1, <<>>), 0, 5, "int16", "in"), Plc(Var("W", 1, <<>>), 1, 5, "int16", "inout"),
   Plc(Var("D", 1, <<>>), 0, 1, "int32", "inout"), Plc(Var("B", 2, <<2>>), 0, 1, "string", "inout"),
   Plc(Var("W", 3, <<>>), 0, 1, "unsupported", "in"), Plc(Var("B", 4, <<>>), 0, 1, "uint8", "out"),
   Plc(Var("D", 0, <<>>), 0, 1, "float", "inout"), Plc(Var("W", 4, <<>>), 0, 1, "int16", "inout"),
   Plc(Var("W", 0, <<>>), 0, 1, "uint8", "inout"),
   Plc(Var("bit", 0, <<4>>), 0, 1, "bool", "inout"),
   OnePart("_DEBUGLVL", "int16"), OnePart("_DEBUGLVL", "uint8"), OnePart("other", "int16")}

MCMemories == {[i \in 0..4 |-> 0], [i \in 0..4 |-> (i + 2) % 4]}

MCValuesOf ==
  [bool |-> {0, 1}, uint8 |-> {6}, int16 |-> {-2, 9}, int32 |-> {-27},
   float |-> {99}, string |-> {<<1, 2>>, <<3>>, <<1, 2, 3>>}]
=============================================================================
