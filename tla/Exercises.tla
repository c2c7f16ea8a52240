----------------------------- MODULE Exercises -----------------------------
(***************************************************************************)
(* What the small programs of byte_ops, pointers, arrays and the checksum  *)
(* of sockets/hw7 compute, beside what they are meant to compute.  An      *)
(* action is one run of a program: its input, and the result of its loops. *)
(*                                                                         *)
(* An unsigned int has four bytes of BYTE bits, and an array or a matrix   *)
(* any SIZE up to the bound: the enums of the code are one of its values.  *)
(***************************************************************************)
EXTENDS Integers, SequencesExt

CONSTANTS
  BYTE,      \* bits of a byte (8 in the code)
  HALF,      \* bits of an unsigned short (16)
  WORDS,     \* words of the IP header (10); the last one stands for check
  Letters,   \* what texts are made of
  TEXT,      \* bound of the model: the longest text
  SIZE       \* bound of the model: the largest N of the arrays

VARIABLES
  task,           \* the program that was run
  input, output

vars == <<task, input, output>>

Bits == 4 * BYTE
Ints == 0..(2^Bits - 1)
Bytes == 0..(2^BYTE - 1)
Shorts == 0..(2^HALF - 1)
Texts == UNION {[1..n -> Letters] : n \in 0..TEXT}
Null == 0

-----------------------------------------------------------------------------
(* print_binary(): the bits from the highest one down, without the zeroes  *)
(* in front.                                                               *)
print_binary(n) ==
  LET Loop(s, i) ==
        LET bit == (n \div 2^i) % 2
            leading == s.leading_zero /\ bit = 0 IN
        [leading_zero |-> leading,
         out |-> IF leading THEN s.out ELSE Append(s.out, bit)]
      end == FoldLeft(Loop, [leading_zero |-> TRUE, out |-> <<>>],
                      [k \in 1..Bits |-> Bits - k])
  IN IF end.leading_zero THEN <<0>> ELSE end.out

count_ones(n) ==
  LET count[m \in Ints] == IF m = 0 THEN 0 ELSE (m % 2) + count[m \div 2]
  IN count[n]

(* num &= ~(0xFF << 16); num |= newByte << 16.                             *)
ByBits(num, newByte) ==
  num - ((num \div 2^(2 * BYTE)) % 2^BYTE) * 2^(2 * BYTE)
    + newByte * 2^(2 * BYTE)

(* The byte ptr + 2 of a little-endian number.                             *)
ByPointer(num, newByte) ==
  LET memory == [k \in 0..3 |-> (num \div 2^(k * BYTE)) % 2^BYTE]
      bytes == [memory EXCEPT ![2] = newByte]
  IN FoldLeft(LAMBDA n, k : n + bytes[k] * 2^(k * BYTE), 0, <<0, 1, 2, 3>>)

(* How many letters of substr the inner loop passes from begin on.         *)
Matched(str, substr, begin) ==
  LET same[k \in 0..Len(substr)] ==
        IF /\ k < Len(substr) /\ begin + k <= Len(str)
           /\ str[begin + k] = substr[k + 1]
          THEN same[k + 1] ELSE k
  IN same[0]

(* With a fault: after a mismatch the search goes on from where it is.     *)
find_forward(str, substr) ==
  LET from[begin \in 1..(2 * TEXT + 2)] ==
        CASE begin > Len(str) -> Null
          [] begin <= Len(str) /\ Matched(str, substr, begin) = Len(substr)
               -> begin
          [] OTHER -> from[begin + Matched(str, substr, begin) + 1]
  IN from[1]

(* Where substr begins in str, or NULL.                                    *)
find_substring(str, substr) ==
  LET from[begin \in 1..(TEXT + 1)] ==
        CASE begin > Len(str) -> Null
          [] begin <= Len(str) /\ Matched(str, substr, begin) = Len(substr)
               -> begin
          [] OTHER -> from[begin + 1]
  IN from[1]

(* The sum of the words, its carries added until none is left, inverted.   *)
checksum(words) ==
  LET sum == FoldLeft(+, 0, words)
      carried[csum \in 0..sum] ==
        IF csum \div 2^HALF = 0 THEN csum
        ELSE carried[(csum % 2^HALF) + (csum \div 2^HALF)]
  IN 2^HALF - 1 - carried[sum]

(* The swaps of arrays/task2.c, in the order of the loop.                  *)
Swapped(arr) ==
  LET N == Len(arr) IN
  FoldLeft(LAMBDA a, i : [a EXCEPT ![N - i] = a[i + 1], ![i + 1] = a[N - i]],
           arr, [k \in 1..(N \div 2) |-> k - 1])

(* The assignments of arrays/task3.c, in the order of the two loops: each  *)
(* pass writes a 0, then the 1 on the other side of the diagonal.          *)
Triangle(N) ==
  LET passes == [k \in 1..(N * N) |-> <<(k - 1) \div N, (k - 1) % N>>]
      Pass(m, p) ==
        IF p[2] <= N - 1 - p[1]
          THEN [m EXCEPT ![p] = 0, ![<<N - p[2] - 1, N - p[1] - 1>>] = 1]
          ELSE m
  IN FoldLeft(Pass, [p \in (0..(N - 1)) \X (0..(N - 1)) |-> 2], passes)

(* Numbers from a to b, upwards or downwards, as the four for loops count. *)
Up(a, b) == [k \in 1..(IF a <= b THEN b - a + 1 ELSE 0) |-> a + k - 1]
Down(a, b) == Reverse(Up(b, a))

Row(i, columns) == [k \in DOMAIN columns |-> <<i, columns[k]>>]
Column(rows, j) == [k \in DOMAIN rows |-> <<rows[k], j>>]

(* The cells that one pass of arrays/task4.c's while loop fills when it    *)
(* starts with top = left = k and bottom = right = N - 1 - k.              *)
Ring(N, k) ==
  LET far == N - 1 - k IN
  Row(k, Up(k, far)) \o Column(Up(k + 1, far), far)
    \o Row(far, Down(far - 1, k)) \o Column(Down(far - 1, k + 1), k)

(* The cells in the order of their values: rings until value > N * N.      *)
Spiral(N) ==
  LET path[k \in 0..N] ==
        IF k = 0 THEN <<>>
        ELSE path[k - 1] \o (IF Len(path[k - 1]) < N * N THEN Ring(N, k - 1)
                                                        ELSE <<>>)
  IN path[N]

-----------------------------------------------------------------------------
Init == task = "none" /\ input = <<>> /\ output = <<>>

Does(program, in, out) ==
  /\ task = "none" /\ task' = program
  /\ input' = in /\ output' = out

PrintAndCount ==
  \E n \in Ints : Does("count", n, <<print_binary(n), count_ones(n)>>)

ChangeThirdByte ==
  \E n \in Ints, b \in Bytes :
    Does("byte", <<n, b>>, <<ByBits(n, b), ByPointer(n, b)>>)

FindSubstring ==
  \E s, t \in Texts : Does("find", <<s, t>>, find_substring(s, t))

(* The header is filled in, all but check, which holds what was on the     *)
(* stack; then check is set to the checksum of all of it.                  *)
FillHeader ==
  \E words \in [1..WORDS -> Shorts] :
    Does("header", words, [words EXCEPT ![WORDS] = checksum(words)])

ReverseArray ==
  \E N \in 1..SIZE : Does("reverse", N, Swapped([k \in 1..N |-> k]))

FillTriangle == \E N \in 1..SIZE : Does("triangle", N, Triangle(N))
FillSpiral == \E N \in 1..SIZE : Does("spiral", N, Spiral(N))

Next ==
  \/ PrintAndCount \/ ChangeThirdByte \/ FindSubstring \/ FillHeader
  \/ ReverseArray \/ FillTriangle \/ FillSpiral

-----------------------------------------------------------------------------
(* What the results should be, without the loops.                          *)

Value(digits) == FoldLeft(LAMBDA n, d : 2 * n + d, 0, digits)

(* The digits are those of the number, with no zero in front.              *)
DigitsRight ==
  LET digits == output[1] IN
  /\ Value(digits) = input
  /\ digits[1] = 1 \/ digits = <<0>>
  /\ output[2] = Cardinality({k \in 1..Len(digits) : digits[k] = 1})

(* Both ways give the one number that differs in the third byte.           *)
ThirdByteRight ==
  /\ output[1] = output[2]
  /\ \A k \in 0..3 :
       (output[1] \div 2^(k * BYTE)) % 2^BYTE =
         IF k = 2 THEN input[2] ELSE (input[1] \div 2^(k * BYTE)) % 2^BYTE

(* The first occurrence, overlapping ones included; an empty text contains *)
(* nothing, not even the empty text.                                       *)
OccurrenceRight ==
  LET str == input[1]  sub == input[2]
      At == {b \in 1..Len(str) :
               b + Len(sub) - 1 <= Len(str) /\
               SubSeq(str, b, b + Len(sub) - 1) = sub}
  IN IF At = {} THEN output = Null
                ELSE output \in At /\ \A b \in At : output <= b

(* A receiver finds 0 when it sums up the header, unless check did not     *)
(* count for nothing before: main() does not set it to 0.                  *)
HeaderRight ==
  (\E k \in 1..(WORDS - 1) : input[k] # 0) =>
    (checksum(output) = 0 <=> input[WORDS] \in {0, 2^HALF - 1})

(* The spiral passes every cell once, never jumps, and never returns to a  *)
(* ring it has left.                                                       *)
SpiralRight ==
  LET depth(c) == Min({c[1], c[2], input - 1 - c[1], input - 1 - c[2]})
      gap(x, y) == IF x < y THEN y - x ELSE x - y
  IN /\ Len(output) = input * input
     /\ ToSet(output) = (0..(input - 1)) \X (0..(input - 1))
     /\ \A k \in 1..(Len(output) - 1) :
          LET c == output[k]  d == output[k + 1] IN
          /\ gap(c[1], d[1]) + gap(c[2], d[2]) = 1
          /\ depth(c) <= depth(d)

(* Each program's loops compute what the program is for, at the boundaries *)
(* of its input too: zero, the highest bit, empty and overlapping texts,   *)
(* carries of carries, odd and even sizes.                                 *)
ResultsRight ==
  /\ task = "count" => DigitsRight
  /\ task = "byte" => ThirdByteRight
  /\ task = "find" => OccurrenceRight
  /\ task = "header" => HeaderRight
  /\ task = "reverse" => output = Reverse([k \in 1..input |-> k])
  /\ task = "triangle" =>
       \A c \in DOMAIN output :
         output[c] = IF c[1] + c[2] >= input - 1 THEN 1 ELSE 0
  /\ task = "spiral" => SpiralRight
=============================================================================
