---------------------------- MODULE DecoderProofs ----------------------------
(***************************************************************************)
(* The chain of tests in decode() agrees with the data sheet on every word *)
(* of 32 bits.                                                             *)
(***************************************************************************)
EXTENDS Encoding, TLAPS

-----------------------------------------------------------------------------
(* The bits of a mask.                                                     *)

\* The powers of two that BitsOf() divides by.
Powers == {
  <<0, 1>>, <<1, 2>>, <<2, 4>>, <<3, 8>>,
  <<4, 16>>, <<5, 32>>, <<6, 64>>, <<7, 128>>,
  <<8, 256>>, <<9, 512>>, <<10, 1024>>, <<11, 2048>>,
  <<12, 4096>>, <<13, 8192>>, <<14, 16384>>, <<15, 32768>>,
  <<16, 65536>>, <<17, 131072>>, <<18, 262144>>, <<19, 524288>>,
  <<20, 1048576>>, <<21, 2097152>>, <<22, 4194304>>, <<23, 8388608>>,
  <<24, 16777216>>, <<25, 33554432>>, <<26, 67108864>>, <<27, 134217728>>,
  <<28, 268435456>>, <<29, 536870912>>, <<30, 1073741824>>}

\* A bit of a number, by its place in the table.
LEMMA BitsByTable ==
  ASSUME NEW n \in Nat, NEW k
  PROVE  k \in BitsOf(n) <=> \E p \in Powers : k = p[1] /\ (n \div p[2]) % 2 = 1
<1> DEFINE Power(x) == 2^x
<1>1. k \in 0 .. 30 <=> \E p \in Powers : k = p[1]
  BY SMT DEF Powers
<1>2. k \in BitsOf(n) <=> k \in 0 .. 30 /\ (n \div Power(k)) % 2 = 1
  BY SMT DEF BitsOf
<1>3. /\ Power(0) = 1 /\ Power(1) = 2 /\ Power(2) = 4
      /\ Power(3) = 8 /\ Power(4) = 16 /\ Power(5) = 32
      /\ Power(6) = 64 /\ Power(7) = 128 /\ Power(8) = 256
      /\ Power(9) = 512 /\ Power(10) = 1024 /\ Power(11) = 2048
      /\ Power(12) = 4096 /\ Power(13) = 8192 /\ Power(14) = 16384
      /\ Power(15) = 32768 /\ Power(16) = 65536 /\ Power(17) = 131072
      /\ Power(18) = 262144 /\ Power(19) = 524288 /\ Power(20) = 1048576
      /\ Power(21) = 2097152 /\ Power(22) = 4194304 /\ Power(23) = 8388608
      /\ Power(24) = 16777216 /\ Power(25) = 33554432 /\ Power(26) = 67108864
      /\ Power(27) = 134217728 /\ Power(28) = 268435456 /\ Power(29) = 536870912
      /\ Power(30) = 1073741824
  BY SMT
<1> HIDE DEF Power
<1>4. \A p \in Powers : Power(p[1]) = p[2]
  BY <1>3, SMT DEF Powers
<1> QED
  BY <1>1, <1>2, <1>4, SMT

\* The masks of decode()...
LEMMA MaskBits ==
  /\ BitsOf(\h0FFFFFF0) = 4 .. 27
  /\ BitsOf(\h0FB00FF0) = {20, 21} \cup (4 .. 11) \cup (23 .. 27)
  /\ BitsOf(\h0FC000F0) = (4 .. 7) \cup (22 .. 27)
  /\ BitsOf(\h0F8000F0) = (4 .. 7) \cup (23 .. 27)
  /\ BitsOf(\h0E400F90) = {4, 22, 25, 26, 27} \cup (7 .. 11)
  /\ BitsOf(\h0E400090) = {4, 7, 22, 25, 26, 27}
  /\ BitsOf(\h0F000010) = {4} \cup (24 .. 27)
  /\ BitsOf(\h0F000000) = 24 .. 27
  /\ BitsOf(\h0E000010) = {4, 25, 26, 27}
  /\ BitsOf(\h0E000000) = {25, 26, 27}
  /\ BitsOf(\h0C000000) = {26, 27}
<1>1. BitsOf(\h0FFFFFF0) = 4 .. 27
  BY BitsByTable, SMT DEF Powers
<1>2. BitsOf(\h0FB00FF0) = {20, 21} \cup (4 .. 11) \cup (23 .. 27)
  BY BitsByTable, SMT DEF Powers
<1>3. BitsOf(\h0FC000F0) = (4 .. 7) \cup (22 .. 27)
  BY BitsByTable, SMT DEF Powers
<1>4. BitsOf(\h0F8000F0) = (4 .. 7) \cup (23 .. 27)
  BY BitsByTable, SMT DEF Powers
<1>5. BitsOf(\h0E400F90) = {4, 22, 25, 26, 27} \cup (7 .. 11)
  BY BitsByTable, SMT DEF Powers
<1>6. BitsOf(\h0E400090) = {4, 7, 22, 25, 26, 27}
  BY BitsByTable, SMT DEF Powers
<1>7. BitsOf(\h0F000010) = {4} \cup (24 .. 27)
  BY BitsByTable, SMT DEF Powers
<1>8. BitsOf(\h0F000000) = 24 .. 27
  BY BitsByTable, SMT DEF Powers
<1>9. BitsOf(\h0E000010) = {4, 25, 26, 27}
  BY BitsByTable, SMT DEF Powers
<1>10. BitsOf(\h0E000000) = {25, 26, 27}
  BY BitsByTable, SMT DEF Powers
<1>11. BitsOf(\h0C000000) = {26, 27}
  BY BitsByTable, SMT DEF Powers
<1> QED
  BY <1>1, <1>2, <1>3, <1>4, <1>5, <1>6, <1>7, <1>8, <1>9, <1>10, <1>11, SMT

\* ...and the values it compares with.
LEMMA ValueBits ==
  /\ BitsOf(\h012FFF10) = {4, 21, 24} \cup (8 .. 19)
  /\ BitsOf(\h01000090) = {4, 7, 24}
  /\ BitsOf(\h00000090) = {4, 7}
  /\ BitsOf(\h00800090) = {4, 7, 23}
  /\ BitsOf(\h00400090) = {4, 7, 22}
  /\ BitsOf(\h06000010) = {4, 25, 26}
  /\ BitsOf(\h08000000) = {27}
  /\ BitsOf(\h0A000000) = {25, 27}
  /\ BitsOf(\h00000000) = {}
  /\ BitsOf(\h04000000) = {26}
<1>1. BitsOf(\h012FFF10) = {4, 21, 24} \cup (8 .. 19)
  BY BitsByTable, SMT DEF Powers
<1>2. BitsOf(\h01000090) = {4, 7, 24}
  BY BitsByTable, SMT DEF Powers
<1>3. BitsOf(\h00000090) = {4, 7}
  BY BitsByTable, SMT DEF Powers
<1>4. BitsOf(\h00800090) = {4, 7, 23}
  BY BitsByTable, SMT DEF Powers
<1>5. BitsOf(\h00400090) = {4, 7, 22}
  BY BitsByTable, SMT DEF Powers
<1>6. BitsOf(\h06000010) = {4, 25, 26}
  BY BitsByTable, SMT DEF Powers
<1>7. BitsOf(\h08000000) = {27}
  BY BitsByTable, SMT DEF Powers
<1>8. BitsOf(\h0A000000) = {25, 27}
  BY BitsByTable, SMT DEF Powers
<1>9. BitsOf(\h00000000) = {}
  BY BitsByTable, SMT DEF Powers
<1>10. BitsOf(\h04000000) = {26}
  BY BitsByTable, SMT DEF Powers
<1> QED
  BY <1>1, <1>2, <1>3, <1>4, <1>5, <1>6, <1>7, <1>8, <1>9, <1>10, SMT

-----------------------------------------------------------------------------
(* The tests, in their order.                                              *)

\* The fifteen tests.
LEMMA TestsInOrder ==
  /\ DOMAIN DecodeTests = 1 .. 15
  /\ DecodeTests[1] = Exchanges
  /\ DecodeTests[2] = Swaps
  /\ DecodeTests[3] = Multiplies
  /\ DecodeTests[4] = HalfwordsByRegister
  /\ DecodeTests[5] = LongMultiplies
  /\ DecodeTests[6] = HalfwordsByImmediate
  /\ DecodeTests[7] = Test("coprocessor_data_operation", \h0F000010, \h0E000000)
  /\ DecodeTests[8] = Test("coprocessor_register_transfer", \h0F000010, \h0E000010)
  /\ DecodeTests[9] = Test("software_interrupt", \h0F000000, \h0F000000)
  /\ DecodeTests[10] = Test("undefined", \h0E000010, \h06000010)
  /\ DecodeTests[11] = Test("block_data_transfer", \h0E000000, \h08000000)
  /\ DecodeTests[12] = Test("branch", \h0E000000, \h0A000000)
  /\ DecodeTests[13] = Test("coprocessor_data_transfer", \h0E000000, \h0C000000)
  /\ DecodeTests[14] = Test("data_processing", \h0C000000, \h00000000)
  /\ DecodeTests[15] = Test("single_data_transfer", \h0C000000, \h04000000)
BY SMT DEF DecodeTests, SpecialTests

\* What each of them wants of a word.
LEMMA TestsOfBits ==
  ASSUME NEW word
  PROVE  /\ Matches(word, DecodeTests[1]) <=> word \cap (4 .. 27) = BitsOf(\h012FFF10)
         /\ Matches(word, DecodeTests[2]) <=>
              {4, 7, 24} \subseteq word /\ word \cap ({5, 6, 20, 21, 23, 25, 26, 27} \cup (8 .. 11)) = {}
         /\ Matches(word, DecodeTests[3]) <=>
              {4, 7} \subseteq word /\ word \cap ({5, 6} \cup (22 .. 27)) = {}
         /\ Matches(word, DecodeTests[4]) <=>
              {4, 7} \subseteq word /\ word \cap ({22, 25, 26, 27} \cup (8 .. 11)) = {}
         /\ Matches(word, DecodeTests[5]) <=>
              {4, 7, 23} \subseteq word /\ word \cap {5, 6, 24, 25, 26, 27} = {}
         /\ Matches(word, DecodeTests[6]) <=>
              {4, 7, 22} \subseteq word /\ word \cap {25, 26, 27} = {}
         /\ Matches(word, DecodeTests[7]) <=> {25, 26, 27} \subseteq word /\ 4 \notin word /\ 24 \notin word
         /\ Matches(word, DecodeTests[8]) <=> {4, 25, 26, 27} \subseteq word /\ 24 \notin word
         /\ Matches(word, DecodeTests[9]) <=> {24, 25, 26, 27} \subseteq word
         /\ Matches(word, DecodeTests[10]) <=> {4, 25, 26} \subseteq word /\ 27 \notin word
         /\ Matches(word, DecodeTests[11]) <=> 27 \in word /\ 25 \notin word /\ 26 \notin word
         /\ Matches(word, DecodeTests[12]) <=> {25, 27} \subseteq word /\ 26 \notin word
         /\ Matches(word, DecodeTests[13]) <=> {26, 27} \subseteq word /\ 25 \notin word
         /\ Matches(word, DecodeTests[14]) <=> 26 \notin word /\ 27 \notin word
         /\ Matches(word, DecodeTests[15]) <=> 26 \in word /\ 27 \notin word
<1>1. Matches(word, DecodeTests[1]) <=> word \cap (4 .. 27) = BitsOf(\h012FFF10)
  BY TestsInOrder, MaskBits, ValueBits, SMT DEF Matches, Test, Exchanges
<1>2. Matches(word, DecodeTests[2]) <=>
     {4, 7, 24} \subseteq word /\ word \cap ({5, 6, 20, 21, 23, 25, 26, 27} \cup (8 .. 11)) = {}
  BY TestsInOrder, MaskBits, ValueBits, SMT DEF Matches, Test, Swaps
<1>3. Matches(word, DecodeTests[3]) <=>
     {4, 7} \subseteq word /\ word \cap ({5, 6} \cup (22 .. 27)) = {}
  BY TestsInOrder, MaskBits, ValueBits, SMT DEF Matches, Test, Multiplies
<1>4. Matches(word, DecodeTests[4]) <=>
     {4, 7} \subseteq word /\ word \cap ({22, 25, 26, 27} \cup (8 .. 11)) = {}
  BY TestsInOrder, MaskBits, ValueBits, SMT DEF Matches, Test, HalfwordsByRegister
<1>5. Matches(word, DecodeTests[5]) <=>
     {4, 7, 23} \subseteq word /\ word \cap {5, 6, 24, 25, 26, 27} = {}
  BY TestsInOrder, MaskBits, ValueBits, SMT DEF Matches, Test, LongMultiplies
<1>6. Matches(word, DecodeTests[6]) <=>
     {4, 7, 22} \subseteq word /\ word \cap {25, 26, 27} = {}
  BY TestsInOrder, MaskBits, ValueBits, SMT DEF Matches, Test, HalfwordsByImmediate
<1>7. Matches(word, DecodeTests[7]) <=> {25, 26, 27} \subseteq word /\ 4 \notin word /\ 24 \notin word
  BY TestsInOrder, MaskBits, ValueBits, SMT DEF Matches, Test
<1>8. Matches(word, DecodeTests[8]) <=> {4, 25, 26, 27} \subseteq word /\ 24 \notin word
  BY TestsInOrder, MaskBits, ValueBits, SMT DEF Matches, Test
<1>9. Matches(word, DecodeTests[9]) <=> {24, 25, 26, 27} \subseteq word
  BY TestsInOrder, MaskBits, ValueBits, SMT DEF Matches, Test
<1>10. Matches(word, DecodeTests[10]) <=> {4, 25, 26} \subseteq word /\ 27 \notin word
  BY TestsInOrder, MaskBits, ValueBits, SMT DEF Matches, Test
<1>11. Matches(word, DecodeTests[11]) <=> 27 \in word /\ 25 \notin word /\ 26 \notin word
  BY TestsInOrder, MaskBits, ValueBits, SMT DEF Matches, Test
<1>12. Matches(word, DecodeTests[12]) <=> {25, 27} \subseteq word /\ 26 \notin word
  BY TestsInOrder, MaskBits, ValueBits, SMT DEF Matches, Test
<1>13. Matches(word, DecodeTests[13]) <=> {26, 27} \subseteq word /\ 25 \notin word
  BY TestsInOrder, MaskBits, ValueBits, SMT DEF Matches, Test
<1>14. Matches(word, DecodeTests[14]) <=> 26 \notin word /\ 27 \notin word
  BY TestsInOrder, MaskBits, ValueBits, SMT DEF Matches, Test
<1>15. Matches(word, DecodeTests[15]) <=> 26 \in word /\ 27 \notin word
  BY TestsInOrder, MaskBits, ValueBits, SMT DEF Matches, Test
<1> QED
  BY <1>1, <1>2, <1>3, <1>4, <1>5, <1>6, <1>7, <1>8, <1>9, <1>10, <1>11, <1>12, <1>13, <1>14, <1>15, SMT

\* The first test that matches decides.
LEMMA FirstDecides ==
  ASSUME NEW word, NEW k \in 1 .. 15, Matches(word, DecodeTests[k]),
         \A j \in 1 .. k - 1 : ~Matches(word, DecodeTests[j])
  PROVE  Matching(word) # {} /\ Min(Matching(word)) = k
<1>1. k \in Matching(word)
  BY TestsInOrder, SMT DEF Matching
<1>2. \A j \in Matching(word) : j \in 1 .. 15 /\ k <= j
  BY TestsInOrder, SMT DEF Matching
<1>3. \A j \in Matching(word) : (\A l \in Matching(word) : j <= l) => j = k
  BY <1>1, <1>2, SMT
<1> QED
  BY <1>1, <1>2, <1>3, Zenon DEF Min

-----------------------------------------------------------------------------
(* The chain and the data sheet.                                           *)

\* The formats of the tests.
LEMMA TestFormats ==
  /\ DecodeTests[1].format = "branch_and_exchange"
  /\ DecodeTests[2].format = "single_data_swap"
  /\ DecodeTests[3].format = "multiply"
  /\ DecodeTests[4].format = "halfword_data_transfer_register_off"
  /\ DecodeTests[5].format = "multiply_long"
  /\ DecodeTests[6].format = "halfword_data_transfer_immediate_off"
  /\ DecodeTests[7].format = "coprocessor_data_operation"
  /\ DecodeTests[8].format = "coprocessor_register_transfer"
  /\ DecodeTests[9].format = "software_interrupt"
  /\ DecodeTests[10].format = "undefined"
  /\ DecodeTests[11].format = "block_data_transfer"
  /\ DecodeTests[12].format = "branch"
  /\ DecodeTests[13].format = "coprocessor_data_transfer"
  /\ DecodeTests[14].format = "data_processing"
  /\ DecodeTests[15].format = "single_data_transfer"
BY TestsInOrder, SMT
   DEF Test, Exchanges, Swaps, Multiplies, HalfwordsByRegister, LongMultiplies, HalfwordsByImmediate

\* Among the words with bits 7 and 4 set the first test that matches is the
\* one of the data sheet's format, but for the long multiplications by r0.
LEMMA ExtensionFirst ==
  ASSUME NEW word, {4, 7} \subseteq word, word \cap {25, 26, 27} = {},
         ExtensionFormat(word) # "none",
         ExtensionFormat(word) = "multiply_long" => word \cap ({22} \cup (8 .. 11)) # {}
  PROVE  \E k \in 1 .. 15 :
           /\ DecodeTests[k].format = ExtensionFormat(word)
           /\ Matches(word, DecodeTests[k])
           /\ \A j \in 1 .. k - 1 : ~Matches(word, DecodeTests[j])
<1>0. ~Matches(word, DecodeTests[1])
  <2>1. 7 \notin BitsOf(\h012FFF10)
    BY ValueBits, SMT
  <2> QED
    BY <2>1, TestsOfBits, SMT
<1>1. CASE {5, 6} \cap word # {} /\ 22 \in word
  <2>1. ExtensionFormat(word) = "halfword_data_transfer_immediate_off"
    BY <1>1 DEF ExtensionFormat
  <2>2. /\ ~Matches(word, DecodeTests[2]) /\ ~Matches(word, DecodeTests[3])
        /\ ~Matches(word, DecodeTests[4]) /\ ~Matches(word, DecodeTests[5])
        /\ Matches(word, DecodeTests[6])
    BY <1>1, TestsOfBits, SMT
  <2>3. \A j \in 1 .. 6 - 1 : ~Matches(word, DecodeTests[j])
    BY <1>0, <2>2, SMT
  <2> QED
    BY <2>1, <2>2, <2>3, TestFormats, SMT
<1>2. CASE {5, 6} \cap word # {} /\ 22 \notin word
  <2>1. word \cap (8 .. 11) = {} /\ ExtensionFormat(word) = "halfword_data_transfer_register_off"
    BY <1>2 DEF ExtensionFormat
  <2>2. /\ ~Matches(word, DecodeTests[2]) /\ ~Matches(word, DecodeTests[3])
        /\ Matches(word, DecodeTests[4])
    BY <1>2, <2>1, TestsOfBits, SMT
  <2>3. \A j \in 1 .. 4 - 1 : ~Matches(word, DecodeTests[j])
    BY <1>0, <2>2, SMT
  <2> QED
    BY <2>1, <2>2, <2>3, TestFormats, SMT
<1>3. CASE {5, 6} \cap word = {} /\ 24 \notin word /\ 23 \in word
  <2>1. ExtensionFormat(word) = "multiply_long"
    BY <1>3 DEF ExtensionFormat
  <2>2. /\ ~Matches(word, DecodeTests[2]) /\ ~Matches(word, DecodeTests[3])
        /\ ~Matches(word, DecodeTests[4]) /\ Matches(word, DecodeTests[5])
    BY <1>3, <2>1, TestsOfBits, SMT
  <2>3. \A j \in 1 .. 5 - 1 : ~Matches(word, DecodeTests[j])
    BY <1>0, <2>2, SMT
  <2> QED
    BY <2>1, <2>2, <2>3, TestFormats, SMT
<1>4. CASE {5, 6} \cap word = {} /\ 24 \notin word /\ 23 \notin word
  <2>1. 22 \notin word /\ ExtensionFormat(word) = "multiply"
    BY <1>4 DEF ExtensionFormat
  <2>2. ~Matches(word, DecodeTests[2]) /\ Matches(word, DecodeTests[3])
    BY <1>4, <2>1, TestsOfBits, SMT
  <2>3. \A j \in 1 .. 3 - 1 : ~Matches(word, DecodeTests[j])
    BY <1>0, <2>2, SMT
  <2> QED
    BY <2>1, <2>2, <2>3, TestFormats, SMT
<1>5. CASE {5, 6} \cap word = {} /\ 24 \in word
  <2>1. /\ word \cap ({20, 21, 23} \cup (8 .. 11)) = {}
        /\ ExtensionFormat(word) = "single_data_swap"
    BY <1>5 DEF ExtensionFormat
  <2>2. Matches(word, DecodeTests[2])
    BY <1>5, <2>1, TestsOfBits, SMT
  <2>3. \A j \in 1 .. 2 - 1 : ~Matches(word, DecodeTests[j])
    BY <1>0, SMT
  <2> QED
    BY <2>1, <2>2, <2>3, TestFormats, SMT
<1> QED
  BY <1>1, <1>2, <1>3, <1>4, <1>5

\* The same of every word that has a format in the data sheet.
LEMMA FirstAgrees ==
  ASSUME NEW word, ArmFormat(word) # "none", ~UnsignedLongByR0(word)
  PROVE  \E k \in 1 .. 15 :
           /\ DecodeTests[k].format = ArmFormat(word)
           /\ Matches(word, DecodeTests[k])
           /\ \A j \in 1 .. k - 1 : ~Matches(word, DecodeTests[j])
<1> DEFINE class == word \cap (25 .. 27)
           exchanges == word \cap (4 .. 27) = BitsOf(\h012FFF10)
           Agrees(k) == /\ DecodeTests[k].format = ArmFormat(word)
                        /\ Matches(word, DecodeTests[k])
                        /\ \A j \in 1 .. k - 1 : ~Matches(word, DecodeTests[j])
<1>1. exchanges => 4 \in word /\ 7 \notin word /\ 24 \in word /\ class = {}
  BY ValueBits, SMT
<1>2. /\ class = {} <=> 25 \notin word /\ 26 \notin word /\ 27 \notin word
      /\ class = {25} <=> 25 \in word /\ 26 \notin word /\ 27 \notin word
      /\ class = {26} <=> 25 \notin word /\ 26 \in word /\ 27 \notin word
      /\ class = {25, 26} <=> 25 \in word /\ 26 \in word /\ 27 \notin word
      /\ class = {27} <=> 25 \notin word /\ 26 \notin word /\ 27 \in word
      /\ class = {25, 27} <=> 25 \in word /\ 26 \notin word /\ 27 \in word
      /\ class = {26, 27} <=> 25 \notin word /\ 26 \in word /\ 27 \in word
      /\ class = {25, 26, 27} <=> 25 \in word /\ 26 \in word /\ 27 \in word
  BY SMT
<1>3. CASE class = {} /\ {4, 7} \subseteq word
  <2>1. ArmFormat(word) = ExtensionFormat(word)
    BY <1>1, <1>2, <1>3 DEF ArmFormat
  <2> QED
    BY <1>2, <1>3, <2>1, ExtensionFirst DEF UnsignedLongByR0
<1>4. CASE exchanges
  <2>1. ArmFormat(word) = "branch_and_exchange"
    BY <1>1, <1>2, <1>4, SMT DEF ArmFormat
  <2>2. /\ Matches(word, DecodeTests[1])
    BY <1>1, <1>2, <1>4, TestsOfBits, SMT
  <2>3. Agrees(1)
    BY <2>1, <2>2, TestFormats, SMT
  <2> QED
    BY <2>3, SMT
<1>5. CASE class = {} /\ ~({4, 7} \subseteq word) /\ ~exchanges
  <2>1. ArmFormat(word) = "data_processing"
    BY <1>1, <1>2, <1>5, SMT DEF ArmFormat
  <2>2. /\ Matches(word, DecodeTests[14]) /\ ~Matches(word, DecodeTests[1])
        /\ ~Matches(word, DecodeTests[2]) /\ ~Matches(word, DecodeTests[3])
        /\ ~Matches(word, DecodeTests[4]) /\ ~Matches(word, DecodeTests[5])
        /\ ~Matches(word, DecodeTests[6]) /\ ~Matches(word, DecodeTests[7])
        /\ ~Matches(word, DecodeTests[8]) /\ ~Matches(word, DecodeTests[9])
        /\ ~Matches(word, DecodeTests[10]) /\ ~Matches(word, DecodeTests[11])
        /\ ~Matches(word, DecodeTests[12]) /\ ~Matches(word, DecodeTests[13])
    BY <1>1, <1>2, <1>5, TestsOfBits, SMT
  <2>3. Agrees(14)
    BY <2>1, <2>2, TestFormats, SMT
  <2> QED
    BY <2>3, SMT
<1>6. CASE class = {25}
  <2>1. ArmFormat(word) = "data_processing"
    BY <1>1, <1>2, <1>6, SMT DEF ArmFormat
  <2>2. /\ Matches(word, DecodeTests[14]) /\ ~Matches(word, DecodeTests[1])
        /\ ~Matches(word, DecodeTests[2]) /\ ~Matches(word, DecodeTests[3])
        /\ ~Matches(word, DecodeTests[4]) /\ ~Matches(word, DecodeTests[5])
        /\ ~Matches(word, DecodeTests[6]) /\ ~Matches(word, DecodeTests[7])
        /\ ~Matches(word, DecodeTests[8]) /\ ~Matches(word, DecodeTests[9])
        /\ ~Matches(word, DecodeTests[10]) /\ ~Matches(word, DecodeTests[11])
        /\ ~Matches(word, DecodeTests[12]) /\ ~Matches(word, DecodeTests[13])
    BY <1>1, <1>2, <1>6, TestsOfBits, SMT
  <2>3. Agrees(14)
    BY <2>1, <2>2, TestFormats, SMT
  <2> QED
    BY <2>3, SMT
<1>7. CASE class = {26}
  <2>1. ArmFormat(word) = "single_data_transfer"
    BY <1>1, <1>2, <1>7, SMT DEF ArmFormat
  <2>2. /\ Matches(word, DecodeTests[15]) /\ ~Matches(word, DecodeTests[1])
        /\ ~Matches(word, DecodeTests[2]) /\ ~Matches(word, DecodeTests[3])
        /\ ~Matches(word, DecodeTests[4]) /\ ~Matches(word, DecodeTests[5])
        /\ ~Matches(word, DecodeTests[6]) /\ ~Matches(word, DecodeTests[7])
        /\ ~Matches(word, DecodeTests[8]) /\ ~Matches(word, DecodeTests[9])
        /\ ~Matches(word, DecodeTests[10]) /\ ~Matches(word, DecodeTests[11])
        /\ ~Matches(word, DecodeTests[12]) /\ ~Matches(word, DecodeTests[13])
        /\ ~Matches(word, DecodeTests[14])
    BY <1>1, <1>2, <1>7, TestsOfBits, SMT
  <2>3. Agrees(15)
    BY <2>1, <2>2, TestFormats, SMT
  <2> QED
    BY <2>3, SMT
<1>8. CASE class = {25, 26} /\ 4 \in word
  <2>1. ArmFormat(word) = "undefined"
    BY <1>1, <1>2, <1>8, SMT DEF ArmFormat
  <2>2. /\ Matches(word, DecodeTests[10]) /\ ~Matches(word, DecodeTests[1])
        /\ ~Matches(word, DecodeTests[2]) /\ ~Matches(word, DecodeTests[3])
        /\ ~Matches(word, DecodeTests[4]) /\ ~Matches(word, DecodeTests[5])
        /\ ~Matches(word, DecodeTests[6]) /\ ~Matches(word, DecodeTests[7])
        /\ ~Matches(word, DecodeTests[8]) /\ ~Matches(word, DecodeTests[9])
    BY <1>1, <1>2, <1>8, TestsOfBits, SMT
  <2>3. Agrees(10)
    BY <2>1, <2>2, TestFormats, SMT
  <2> QED
    BY <2>3, SMT
<1>9. CASE class = {25, 26} /\ 4 \notin word
  <2>1. ArmFormat(word) = "single_data_transfer"
    BY <1>1, <1>2, <1>9, SMT DEF ArmFormat
  <2>2. /\ Matches(word, DecodeTests[15]) /\ ~Matches(word, DecodeTests[1])
        /\ ~Matches(word, DecodeTests[2]) /\ ~Matches(word, DecodeTests[3])
        /\ ~Matches(word, DecodeTests[4]) /\ ~Matches(word, DecodeTests[5])
        /\ ~Matches(word, DecodeTests[6]) /\ ~Matches(word, DecodeTests[7])
        /\ ~Matches(word, DecodeTests[8]) /\ ~Matches(word, DecodeTests[9])
        /\ ~Matches(word, DecodeTests[10]) /\ ~Matches(word, DecodeTests[11])
        /\ ~Matches(word, DecodeTests[12]) /\ ~Matches(word, DecodeTests[13])
        /\ ~Matches(word, DecodeTests[14])
    BY <1>1, <1>2, <1>9, TestsOfBits, SMT
  <2>3. Agrees(15)
    BY <2>1, <2>2, TestFormats, SMT
  <2> QED
    BY <2>3, SMT
<1>10. CASE class = {27}
  <2>1. ArmFormat(word) = "block_data_transfer"
    BY <1>1, <1>2, <1>10, SMT DEF ArmFormat
  <2>2. /\ Matches(word, DecodeTests[11]) /\ ~Matches(word, DecodeTests[1])
        /\ ~Matches(word, DecodeTests[2]) /\ ~Matches(word, DecodeTests[3])
        /\ ~Matches(word, DecodeTests[4]) /\ ~Matches(word, DecodeTests[5])
        /\ ~Matches(word, DecodeTests[6]) /\ ~Matches(word, DecodeTests[7])
        /\ ~Matches(word, DecodeTests[8]) /\ ~Matches(word, DecodeTests[9])
        /\ ~Matches(word, DecodeTests[10])
    BY <1>1, <1>2, <1>10, TestsOfBits, SMT
  <2>3. Agrees(11)
    BY <2>1, <2>2, TestFormats, SMT
  <2> QED
    BY <2>3, SMT
<1>11. CASE class = {25, 27}
  <2>1. ArmFormat(word) = "branch"
    BY <1>1, <1>2, <1>11, SMT DEF ArmFormat
  <2>2. /\ Matches(word, DecodeTests[12]) /\ ~Matches(word, DecodeTests[1])
        /\ ~Matches(word, DecodeTests[2]) /\ ~Matches(word, DecodeTests[3])
        /\ ~Matches(word, DecodeTests[4]) /\ ~Matches(word, DecodeTests[5])
        /\ ~Matches(word, DecodeTests[6]) /\ ~Matches(word, DecodeTests[7])
        /\ ~Matches(word, DecodeTests[8]) /\ ~Matches(word, DecodeTests[9])
        /\ ~Matches(word, DecodeTests[10]) /\ ~Matches(word, DecodeTests[11])
    BY <1>1, <1>2, <1>11, TestsOfBits, SMT
  <2>3. Agrees(12)
    BY <2>1, <2>2, TestFormats, SMT
  <2> QED
    BY <2>3, SMT
<1>12. CASE class = {26, 27}
  <2>1. ArmFormat(word) = "coprocessor_data_transfer"
    BY <1>1, <1>2, <1>12, SMT DEF ArmFormat
  <2>2. /\ Matches(word, DecodeTests[13]) /\ ~Matches(word, DecodeTests[1])
        /\ ~Matches(word, DecodeTests[2]) /\ ~Matches(word, DecodeTests[3])
        /\ ~Matches(word, DecodeTests[4]) /\ ~Matches(word, DecodeTests[5])
        /\ ~Matches(word, DecodeTests[6]) /\ ~Matches(word, DecodeTests[7])
        /\ ~Matches(word, DecodeTests[8]) /\ ~Matches(word, DecodeTests[9])
        /\ ~Matches(word, DecodeTests[10]) /\ ~Matches(word, DecodeTests[11])
        /\ ~Matches(word, DecodeTests[12])
    BY <1>1, <1>2, <1>12, TestsOfBits, SMT
  <2>3. Agrees(13)
    BY <2>1, <2>2, TestFormats, SMT
  <2> QED
    BY <2>3, SMT
<1>13. CASE class = {25, 26, 27} /\ 24 \in word
  <2>1. ArmFormat(word) = "software_interrupt"
    BY <1>1, <1>2, <1>13, SMT DEF ArmFormat
  <2>2. /\ Matches(word, DecodeTests[9]) /\ ~Matches(word, DecodeTests[1])
        /\ ~Matches(word, DecodeTests[2]) /\ ~Matches(word, DecodeTests[3])
        /\ ~Matches(word, DecodeTests[4]) /\ ~Matches(word, DecodeTests[5])
        /\ ~Matches(word, DecodeTests[6]) /\ ~Matches(word, DecodeTests[7])
        /\ ~Matches(word, DecodeTests[8])
    BY <1>1, <1>2, <1>13, TestsOfBits, SMT
  <2>3. Agrees(9)
    BY <2>1, <2>2, TestFormats, SMT
  <2> QED
    BY <2>3, SMT
<1>14. CASE class = {25, 26, 27} /\ 24 \notin word /\ 4 \in word
  <2>1. ArmFormat(word) = "coprocessor_register_transfer"
    BY <1>1, <1>2, <1>14, SMT DEF ArmFormat
  <2>2. /\ Matches(word, DecodeTests[8]) /\ ~Matches(word, DecodeTests[1])
        /\ ~Matches(word, DecodeTests[2]) /\ ~Matches(word, DecodeTests[3])
        /\ ~Matches(word, DecodeTests[4]) /\ ~Matches(word, DecodeTests[5])
        /\ ~Matches(word, DecodeTests[6]) /\ ~Matches(word, DecodeTests[7])
    BY <1>1, <1>2, <1>14, TestsOfBits, SMT
  <2>3. Agrees(8)
    BY <2>1, <2>2, TestFormats, SMT
  <2> QED
    BY <2>3, SMT
<1>15. CASE class = {25, 26, 27} /\ 24 \notin word /\ 4 \notin word
  <2>1. ArmFormat(word) = "coprocessor_data_operation"
    BY <1>1, <1>2, <1>15, SMT DEF ArmFormat
  <2>2. /\ Matches(word, DecodeTests[7]) /\ ~Matches(word, DecodeTests[1])
        /\ ~Matches(word, DecodeTests[2]) /\ ~Matches(word, DecodeTests[3])
        /\ ~Matches(word, DecodeTests[4]) /\ ~Matches(word, DecodeTests[5])
        /\ ~Matches(word, DecodeTests[6])
    BY <1>1, <1>2, <1>15, TestsOfBits, SMT
  <2>3. Agrees(7)
    BY <2>1, <2>2, TestFormats, SMT
  <2> QED
    BY <2>3, SMT
<1> QED
  BY <1>2, <1>3, <1>4, <1>5, <1>6, <1>7, <1>8, <1>9, <1>10, <1>11, <1>12, <1>13, <1>14, <1>15, SMT

(***************************************************************************)
(* Whatever word is fetched, decode() finds the format of the data sheet,  *)
(* except for a word that has none and for the long multiplications with   *)
(* r0 as the multiplier, which an earlier test of the chain takes.         *)
(***************************************************************************)
THEOREM DecodeAgrees == Spec => []FormatAgrees
<1>1. Init => FormatAgrees
  BY DEF Init, FormatAgrees
<1>2. FormatAgrees /\ [Next]_vars => FormatAgrees'
  <2> SUFFICES ASSUME FormatAgrees, [Next]_vars PROVE FormatAgrees'
    OBVIOUS
  <2>1. CASE decode
    <3> DEFINE word == m_workingInstruction
    <3> SUFFICES ASSUME ArmFormat(word) # "none", ~UnsignedLongByR0(word)
                 PROVE  m_instructionSetFormat' = ArmFormat(word)
      BY <2>1 DEF decode, FormatAgrees
    <3>1. PICK k \in 1 .. 15 :
            /\ DecodeTests[k].format = ArmFormat(word)
            /\ Matches(word, DecodeTests[k])
            /\ \A j \in 1 .. k - 1 : ~Matches(word, DecodeTests[j])
      BY FirstAgrees
    <3>2. Matching(word) # {} /\ Min(Matching(word)) = k
      BY <3>1, FirstDecides
    <3> QED
      BY <2>1, <3>1, <3>2 DEF decode
  <2>2. CASE evaluate \/ UNCHANGED vars
    BY <2>2 DEF evaluate, vars, FormatAgrees
  <2> QED
    BY <2>1, <2>2 DEF Next
<1> QED
  BY <1>1, <1>2, PTL DEF Spec
=============================================================================
