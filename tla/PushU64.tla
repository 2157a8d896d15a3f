------------------------------- MODULE PushU64 -------------------------------
(***************************************************************************)
(* push_u64 of crates/ltk-core/src/formatter.rs: a count is written digit  *)
(* by digit into a buffer on the stack, from its end to its start, and     *)
(* what was written of the buffer is pushed to the output.                 *)
(*                                                                         *)
(* Base, BufferLen and MaxU64 are 10, 20 and 2^64 - 1 in the code.         *)
(***************************************************************************)
EXTENDS Integers, Sequences, SequencesExt, Sums

CONSTANTS
  Base,
  BufferLen,  \* the digits the buffer holds
  MaxU64      \* the largest count

ASSUME BaseAssumption == Base \in Nat /\ Base > 1
ASSUME BufferAssumption == BufferLen \in Nat \ {0}

\* Base to the power k.
Power[k \in 0 .. BufferLen] == IF k = 0 THEN 1 ELSE Base * Power[k - 1]

\* "u64::MAX is 20 digits."
ASSUME FitsAssumption == MaxU64 \in Nat /\ MaxU64 < Power[BufferLen]

VARIABLES
  out,      \* the output, a sequence of pieces
  pushing,  \* a call is running
  n,        \* what is left to write of its count
  i,        \* the buffer is written from here on
  tmp       \* the buffer

frame == <<pushing, n, i, tmp>>

Digit(d) == <<"digit", d>>
Buffer == 0 .. BufferLen - 1

FrameInit ==
  /\ pushing = FALSE
  /\ n = 0
  /\ i = BufferLen
  /\ tmp = [k \in Buffer |-> 0]

FrameTypeOK ==
  /\ pushing \in BOOLEAN
  /\ n \in 0 .. MaxU64
  /\ i \in 0 .. BufferLen
  /\ tmp \in [Buffer -> 0 .. Base - 1]

\* Mutant: the buffer is one digit short.
Call_Short(count) ==
  /\ ~pushing
  /\ pushing' = TRUE
  /\ n' = count
  /\ i' = BufferLen - 1
  /\ tmp' = [k \in Buffer |-> 0]

\* The call: its caller says what it has written to out before it.
Call(count) ==
  /\ ~pushing
  /\ pushing' = TRUE
  /\ n' = count
  /\ i' = BufferLen
  /\ tmp' = [k \in Buffer |-> 0]

\* A count of 0 is one digit and needs no buffer.
PushZero ==
  /\ pushing
  /\ n = 0
  /\ i = BufferLen
  /\ out' = Append(out, Digit(0))
  /\ pushing' = FALSE
  /\ UNCHANGED <<n, i, tmp>>

\* The last digit that is left goes in front of those written.
PushDigit ==
  /\ pushing
  /\ n > 0
  /\ i' = i - 1
  /\ tmp' = [tmp EXCEPT ![i - 1] = n % Base]
  /\ n' = n \div Base
  /\ UNCHANGED <<pushing, out>>

\* tmp[i..]
Written == [k \in 1 .. BufferLen - i |-> Digit(tmp[i + k - 1])]

PushBuffer ==
  /\ pushing
  /\ n = 0
  /\ i < BufferLen
  /\ out' = out \o Written
  /\ pushing' = FALSE
  /\ UNCHANGED <<n, i, tmp>>

Push == PushZero \/ PushDigit \/ PushBuffer

------------------------------------------------------------------------------
\* The number a sequence of digits denotes to a reader.
Denoted(digits) ==
  LET value[k \in 0 .. Len(digits)] ==
        IF k = 0 THEN 0 ELSE Base * value[k - 1] + digits[k][2]
  IN  value[Len(digits)]

\* What is left fits in front of what is written, so the index of the buffer
\* never falls below its start.
Fits == pushing => n < Power[i]

\* What each digit in the buffer stands for.
PlaceValues == [k \in i .. BufferLen - 1 |-> tmp[k] * Power[BufferLen - 1 - k]]

\* While count is being written, what is left in n and the digits in the buffer
\* make up count, and no zero leads.
Denotes(count) ==
  pushing =>
    /\ count = n * Power[BufferLen - i] + Total(PlaceValues)
    /\ n = 0 /\ i < BufferLen => tmp[i] # 0

==============================================================================
