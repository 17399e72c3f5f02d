----------------------------- MODULE HammingCrc -----------------------------
(***************************************************************************)
(* The coder of "Error Correction/1505114.cpp": a string is padded and cut *)
(* into rows, each row gets Hamming check bits, the rows are sent column   *)
(* by column followed by a CRC checksum, every bit of the frame may be     *)
(* toggled on the way, and the receiver checks the CRC, rebuilds the rows, *)
(* corrects each one and prints the string.                                *)
(*                                                                         *)
(* Sequences count from 1 where the vectors of the program count from 0.   *)
(* The width of a character is the program's own, 8 bits.                  *)
(***************************************************************************)
EXTENDS Integers, Sequences, FiniteSets

CONSTANTS
  Input,      \* the inputs tried: [data, m, p, polynom], polynom as bits
  MaxToggles  \* bound on the bits toggled in one transmission

\* The number of rows data_frame and rec_frame have room for.
MaxRows == 1000

\* The division reads past the key when its first bit is not 1.  p stands for
\* the probability: 0 for none, 1 for a proper one, 2 for one above 1.0.  The
\* positions of a row, check bits included, are ints.  A string of more than
\* MaxRows rows is written past the end of both arrays, unchecked: what the
\* program does then is undefined, and no input here is one.
ASSUME InputAssumption ==
  \A in \in Input : /\ in.data \in Seq(0..255) /\ in.data # <<>>
                    /\ in.m \in Int /\ in.m * 8 + 31 <= 2147483647 /\ in.p \in 0..2
                    /\ in.polynom \in Seq({0, 1}) /\ in.polynom # <<>> /\ in.polynom[1] = 1
                    /\ in.m > 0 => Len(in.data) <= MaxRows * in.m

VARIABLES
  pc,          \* the section of main that runs next
  input,       \* what the user typed
  data,        \* the padded string
  data_frame,  \* the rows of the sender
  serialized,  \* the frame, toggled bit by bit during the transmission
  error_idx,   \* the positions toggled
  received,    \* the bits that have arrived
  detected,    \* the result of Error_Detection(received) != 0
  rec_frame,   \* the rows of the receiver
  rec_data,    \* the string printed at the end
  division     \* the latest call of Division: [frame, divisor_len, temp]

vars == <<pc, input, data, data_frame, serialized, error_idx, received,
          detected, rec_frame, rec_data, division>>

Tilde == 126
key == input.polynom
col_siz == Len(data) \div input.m

\* k & (k - 1) is 0, for a positive int.
PowersOfTwo == {2^e : e \in 0..30}

-----------------------------------------------------------------------------
(* The functions the program is built from.                                *)

\* A char is signed: a code above 127 is negative, and the loop over a
\* negative number leaves all its bits 0.
binary_Convert(c) ==
  [b \in 1..8 |-> IF c > 127 THEN 0 ELSE (c \div 2^(8 - b)) % 2]

\* The parity of the bits that are 1 at the positions that contain the power
\* of two idx.  A check bit not computed yet is -1.
getParity(row, idx) ==
  Cardinality({i \in DOMAIN row : (i \div idx) % 2 = 1 /\ row[i] = 1}) % 2

\* Mutant: the difference instead of the exclusive or.
XOR_minus(a, b) == [i \in DOMAIN b |-> a[i] - b[i]]

XOR(a, b) == [i \in DOMAIN b |-> IF a[i] = b[i] THEN 0 ELSE 1]

\* One subtraction of the long division, by the key or by zero; at most one
\* leading zero is dropped after it.
Subtract(temp) == IF temp[1] = 1 THEN XOR(key, temp) ELSE temp
DropZero(temp) == IF temp[1] = 0 THEN Tail(temp) ELSE temp

\* A call of Division: the first bits of the frame under the key, and what it
\* returns when all bits have been brought down.
CallDivision(frame) ==
  [frame |-> frame, divisor_len |-> Len(key), temp |-> SubSeq(frame, 1, Len(key))]
Returning == division.divisor_len = Len(division.frame)
\* Mutant: the subtraction after the loop is missing.
Remainder_unfinished == Tail(division.temp)
Remainder == DropZero(Subtract(division.temp))

Error_Detection(remainder) ==
  Cardinality({i \in DOMAIN remainder : remainder[i] # 0})

-----------------------------------------------------------------------------
(* The sender.                                                             *)

Padding(n) == CHOOSE k \in 0..input.m - 1 : (n + k) % input.m = 0

\* Check bits are inserted at the powers of two among the first m*8 positions
\* of the growing row.
InsertCheckBits(row) ==
  LET check == PowersOfTwo \cap 1..input.m * 8
  IN [k \in 1..Len(row) + Cardinality(check) |->
        IF k \in check THEN -1
                       ELSE row[k - Cardinality({c \in check : c < k})]]

FillCheckBits(row) ==
  [k \in DOMAIN row |-> IF row[k] = -1 THEN getParity(row, k) ELSE row[k]]

\* Column by column: t counts the bits of all rows.
Serialize(frame) ==
  LET rows == Len(frame)
  IN [t \in 1..rows * Len(frame[1]) |->
        frame[((t - 1) % rows) + 1][(t - 1) \div rows + 1]]

Deserialize(bits, rows) ==
  [r \in 1..rows |-> [i \in 1..Len(bits) \div rows |-> bits[(i - 1) * rows + r]]]

-----------------------------------------------------------------------------
(* The receiver.                                                           *)

\* The sum of the powers of two whose parity is odd is the position to toggle.
ErrorPosition(row) ==
  LET bin[i \in 0..Len(row)] ==
        IF i = 0 THEN 0
        ELSE bin[i - 1] + (IF i \in PowersOfTwo THEN i * getParity(row, i) ELSE 0)
  IN  bin[Len(row)]

\* Mutant: bin < size() instead of bin <= size().
CorrectRow_short(row) ==
  LET bin == ErrorPosition(row)
  IN IF bin \in 1..Len(row) - 1 THEN [row EXCEPT ![bin] = 1 - @] ELSE row

CorrectRow(row) ==
  LET bin == ErrorPosition(row)
  IN IF bin \in DOMAIN row THEN [row EXCEPT ![bin] = 1 - @] ELSE row

EraseCheckBits(row) ==
  LET kept == DOMAIN row \ PowersOfTwo
  IN [n \in 1..Cardinality(kept) |->
        row[CHOOSE k \in kept : Cardinality({j \in kept : j <= k}) = n]]

\* The value of eight bits.
Code(bits) ==
  128 * bits[1] + 64 * bits[2] + 32 * bits[3] + 16 * bits[4]
    + 8 * bits[5] + 4 * bits[6] + 2 * bits[7] + bits[8]

-----------------------------------------------------------------------------
(* main.                                                                   *)

Init ==
  /\ pc = "read" /\ input \in Input
  /\ data = <<>> /\ data_frame = <<>> /\ serialized = <<>> /\ received = <<>>
  /\ error_idx = {} /\ detected = FALSE /\ rec_frame = <<>> /\ rec_data = <<>>
  /\ division = [frame |-> <<>>, divisor_len |-> 0, temp |-> <<>>]

InvalidArgument ==
  /\ pc = "read" /\ (input.p > 1 \/ input.m <= 0)
  /\ pc' = "invalid"
  /\ UNCHANGED <<input, data, data_frame, serialized, error_idx, received,
                 detected, rec_frame, rec_data, division>>

MakeBlock ==
  /\ pc = "read" /\ input.p <= 1 /\ input.m > 0
  /\ data' = input.data \o [k \in 1..Padding(Len(input.data)) |-> Tilde]
  /\ data_frame' = [r \in 1..Len(data') \div input.m |->
        [b \in 1..input.m * 8 |->
           binary_Convert(data'[(r - 1) * input.m + (b - 1) \div 8 + 1])
              [((b - 1) % 8) + 1]]]
  /\ pc' = "check_bits"
  /\ UNCHANGED <<input, serialized, error_idx, received, detected, rec_frame, rec_data, division>>

AddCheckBits ==
  /\ pc = "check_bits"
  /\ data_frame' = [r \in DOMAIN data_frame |-> FillCheckBits(InsertCheckBits(data_frame[r]))]
  /\ pc' = "serialize"
  /\ UNCHANGED <<input, data, serialized, error_idx, received, detected, rec_frame, rec_data, division>>

SerializeBlock ==
  /\ pc = "serialize"
  /\ serialized' = Serialize(data_frame)
  /\ division' = CallDivision(serialized' \o [i \in 1..Len(key) - 1 |-> 0])
  /\ pc' = "append"
  /\ UNCHANGED <<input, data, data_frame, error_idx, received, detected, rec_frame, rec_data>>

\* One round of the loop of Division, for the sender and for the receiver.
BringDown ==
  /\ pc \in {"append", "detect"} /\ ~Returning
  /\ division' = [division EXCEPT
        !.divisor_len = @ + 1,
        !.temp = DropZero(Append(Subtract(@), division.frame[division.divisor_len + 1]))]
  /\ UNCHANGED <<pc, input, data, data_frame, serialized, error_idx, received,
                 detected, rec_frame, rec_data>>

AppendChecksum ==
  /\ pc = "append" /\ Returning
  /\ serialized' = serialized \o Remainder
  /\ pc' = "transmit"
  /\ UNCHANGED <<input, data, data_frame, error_idx, received, detected, rec_frame,
                 rec_data, division>>

\* One round of the loop: jimsrand() < p decides on the next bit.
Transmit(toggle) ==
  /\ pc = "transmit" /\ Len(received) < Len(serialized)
  /\ toggle => input.p > 0 /\ Cardinality(error_idx) < MaxToggles
  /\ LET i   == Len(received) + 1
         bit == IF toggle THEN 1 - serialized[i] ELSE serialized[i]
     IN /\ serialized' = [serialized EXCEPT ![i] = bit]
        /\ received' = Append(received, bit)
        /\ error_idx' = IF toggle THEN error_idx \cup {i} ELSE error_idx
  /\ UNCHANGED <<pc, input, data, data_frame, detected, rec_frame, rec_data, division>>

Arrive ==
  /\ pc = "transmit" /\ Len(received) = Len(serialized)
  /\ division' = CallDivision(received)
  /\ pc' = "detect"
  /\ UNCHANGED <<input, data, data_frame, serialized, error_idx, received, detected,
                 rec_frame, rec_data>>

Detect ==
  /\ pc = "detect" /\ Returning
  /\ detected' = (Error_Detection(Remainder) # 0)
  /\ pc' = "receive"
  /\ UNCHANGED <<input, data, data_frame, serialized, error_idx, received, rec_frame,
                 rec_data, division>>

RemoveChecksum ==
  /\ pc = "receive"
  /\ received' = SubSeq(received, 1, Len(received) - (Len(key) - 1))
  /\ rec_frame' = Deserialize(received', col_siz)
  /\ pc' = "correct"
  /\ UNCHANGED <<input, data, data_frame, serialized, error_idx, detected, rec_data, division>>

Correct ==
  /\ pc = "correct"
  /\ rec_frame' = [r \in DOMAIN rec_frame |-> EraseCheckBits(CorrectRow(rec_frame[r]))]
  /\ pc' = "output"
  /\ UNCHANGED <<input, data, data_frame, serialized, error_idx, received, detected, rec_data, division>>

\* A row left shorter than m*8 is read past its end, which yields any bits.
Output ==
  /\ pc = "output"
  /\ \E past \in [DOMAIN rec_frame -> [1..input.m * 8 - Len(rec_frame[1]) -> {0, 1}]] :
       rec_data' = [i \in DOMAIN data |->
         LET row  == rec_frame[(i - 1) \div input.m + 1] \o past[(i - 1) \div input.m + 1]
             from == ((i - 1) % input.m) * 8
         IN Code(SubSeq(row, from + 1, from + 8))]
  /\ pc' = "printed"
  /\ UNCHANGED <<input, data, data_frame, serialized, error_idx, received, detected, rec_frame, division>>

Next ==
  \/ InvalidArgument \/ MakeBlock \/ AddCheckBits \/ SerializeBlock
  \/ BringDown \/ AppendChecksum
  \/ \E toggle \in BOOLEAN : Transmit(toggle)
  \/ Arrive \/ Detect \/ RemoveChecksum \/ Correct \/ Output

Spec == Init /\ [][Next]_vars

-----------------------------------------------------------------------------
(* Properties.                                                             *)

Bits == Seq({0, 1})

\* The bits stay bits: no placeholder of a check bit survives AddCheckBits and
\* no row of the receiver differs in length from another.
TypeOK ==
  /\ input \in Input /\ data \in Seq(0..255) /\ rec_data \in Seq(0..255)
  /\ \A r \in DOMAIN data_frame : data_frame[r] \in Bits
  /\ serialized \in Bits /\ received \in Bits
  /\ error_idx \subseteq 1..Len(received) + Len(key) /\ detected \in BOOLEAN
  /\ \A r \in DOMAIN rec_frame : rec_frame[r] \in Bits /\ Len(rec_frame[r]) = Len(rec_frame[1])

\* The bits of row r of the frame that were toggled: the frame holds the rows
\* column by column.
RowErrors(r) ==
  {t \in error_idx : t <= Len(serialized) - (Len(key) - 1) /\ ((t - 1) % col_siz) + 1 = r}

\* The powers of two behind the last position the sender looks at (line 248
\* stops at m*8, although the row has grown by the bits inserted): data bits that
\* the receiver takes for check bits.
TakenForCheckBits == PowersOfTwo \cap input.m * 8 + 1 .. Len(data_frame[1])

\* The bits of character i are before them.
Kept(i) ==
  \A p \in TakenForCheckBits :
    ((i - 1) % input.m) * 8 + 8 + Cardinality(PowersOfTwo \cap 1..input.m * 8) < p

\* The check bits "correct at most one bit error in each row of the data
\* block" (assignment, step 3): the characters of a row with at most one error
\* are printed as they were typed (lines 355-413), whatever happened to the other
\* rows and to the checksum.  A burst over the data as long as a column touches each
\* row once, which is what the column-wise order (lines 277-284 and 325-337) is
\* for, and so is corrected too.  Where data bits are taken for check bits an error
\* is not corrected, and only the characters before them survive; and a
\* character above 127 has lost its bits in binary_Convert.
OneErrorPerRowCorrected ==
  pc = "printed" =>
    \A i \in DOMAIN data :
      /\ Kept(i)
      /\ Cardinality(RowErrors((i - 1) \div input.m + 1)) <= (IF TakenForCheckBits = {} THEN 1 ELSE 0)
      => rec_data[i] = (IF data[i] > 127 THEN 0 ELSE data[i])

\* x^n modulo the generator polynomial, by shifting: the reference Division
\* is compared with.
Degree == Len(key) - 1

ShiftMod(poly) ==
  [i \in 1..Degree |->
     ((IF i < Degree THEN poly[i + 1] ELSE 0) + poly[1] * key[i + 1]) % 2]

PowerMod(n) ==
  LET power[k \in 0..n] ==
        IF k = 0 THEN [i \in 1..Degree |-> IF i = Degree THEN 1 ELSE 0]
                 ELSE LET poly == power[k - 1] IN SubSeq(ShiftMod(poly), 1, Degree)
  IN power[n]

\* The toggled bits of a frame of length n as a polynomial, modulo the generator.
Syndrome(n, toggled) ==
  [i \in 1..Degree |-> Cardinality({t \in toggled : PowerMod(n - t)[i] = 1}) % 2]

\* The verdict of the receiver (Error_Detection, lines 152-163) is exact: it
\* finds an error if and only if the polynomial of the toggled bits is not a
\* multiple of the generator polynomial, so an undamaged frame never alarms.
VerdictExact ==
  pc = "receive" /\ Degree > 0 =>
    (detected <=> \E i \in 1..Degree : Syndrome(Len(serialized), error_idx)[i] = 1)
=============================================================================
