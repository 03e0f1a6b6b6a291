------------------------------- MODULE Base32 -------------------------------
(***************************************************************************)
(* base32.c, and what becomes of an address on its way into a block: a     *)
(* client encodes it, rpc_miningstart decodes it into payto one byte at a  *)
(* time, and each mining round copies payto into its coinbase.  A step of  *)
(* the two loops is one turn of the loop in the code.                      *)
(***************************************************************************)
EXTENDS Integers, Sequences

CONSTANTS
  Byte,   \* the bytes addresses are made of
  Size,   \* bytes of an address (32)
  Width   \* bits of an int (32)

Base32Assumption ==
  /\ Byte \subseteq 0 .. 255 /\ 0 \in Byte
  /\ Size \in Nat \ {0}
  /\ Width \in Nat /\ Width >= 13

VARIABLES
  place,             \* "idle", "encode", "typed" or "decode"
  data,              \* the address a client wants to be paid to
  text,              \* its encoding: digits 0 .. 31, Dash, NoDigit
  buffer, bitsLeft,  \* locals of the loop
  next,              \* the byte, or the digit, that is read next
  payto, count,      \* result and count of base32_decode
  copied,            \* the bytes of payto the miner has copied this round
  asked,             \* history: the address the last decoding got, <<>> if not a whole one
  due,               \* history: asked, when the miner copied the first byte
  torn               \* history: a decoding went on while the miner copied

vars == <<place, data, text, buffer, bitsLeft, next, payto, count, copied, asked, due, torn>>
loop == <<buffer, bitsLeft, next>>
miner == <<copied, due, torn>>

Dash == 32      \* a space, a line end or a '-', which is skipped
NoDigit == 33   \* any character that is no base32 digit

AddressBytes == [1 .. Size -> Byte]
Wrap(x) == x % 2^Width
-----------------------------------------------------------------------------
(* base32_encode, by /wallet/new or an RPC client *)

EncodeStart ==
  /\ place = "idle"
  /\ data' \in AddressBytes
  /\ buffer' = data'[1] /\ next' = 2 /\ bitsLeft' = 8
  /\ text' = <<>>
  /\ place' = "encode"
  /\ UNCHANGED <<payto, count, miner, asked>>

\* The buffer and its bits when the loop has made sure of a digit: one byte
\* more, or padding behind the last byte.
Loaded ==
  IF bitsLeft >= 5 THEN <<buffer, bitsLeft>>
  ELSE IF next <= Size THEN <<Wrap(buffer * 256 + data[next]), bitsLeft + 8>>
  ELSE <<Wrap(buffer * 2^(5 - bitsLeft)), 5>>

EncodeDigit ==
  /\ place = "encode"
  /\ bitsLeft > 0 \/ next <= Size
  /\ LET buf == Loaded[1]
         bits == Loaded[2]
     IN  /\ text' = Append(text, (buf \div 2^(bits - 5)) % 32)
         /\ buffer' = buf /\ bitsLeft' = bits - 5
  /\ next' = IF bitsLeft < 5 /\ next <= Size THEN next + 1 ELSE next
  /\ UNCHANGED <<place, data, payto, count, miner, asked>>

EncodeEnd ==
  /\ place = "encode"
  /\ bitsLeft = 0 /\ next > Size
  /\ place' = "typed"
  /\ UNCHANGED <<data, text, loop, payto, count, miner, asked>>
-----------------------------------------------------------------------------
(* base32_decode, by rpc_miningstart *)

\* A client posts the address, as it is, with a dash in it, with a
\* character that is no digit, or without its end.
Post ==
  /\ place = "typed"
  /\ \E i \in 1 .. Len(text) :
       text' \in {text,
                  SubSeq(text, 1, i) \o <<Dash>> \o SubSeq(text, i + 1, Len(text)),
                  [text EXCEPT ![i] = NoDigit],
                  SubSeq(text, 1, i - 1)}
  /\ buffer' = 0 /\ bitsLeft' = 0 /\ next' = 1 /\ count' = 0
  /\ place' = "decode"
  /\ torn' = (torn \/ Len(copied) \in 1 .. (Size - 1))
  /\ UNCHANGED <<data, payto, copied, due, asked>>

Reading == place = "decode" /\ count < Size /\ next <= Len(text)

DecodeSkip ==
  /\ Reading /\ text[next] = Dash
  /\ next' = next + 1
  /\ UNCHANGED <<place, data, text, buffer, bitsLeft, payto, count, miner, asked>>

DecodeDigit ==
  /\ Reading /\ text[next] \in 0 .. 31
  /\ LET buf == Wrap(buffer * 32 + text[next])
         bits == bitsLeft + 5
     IN  /\ buffer' = buf
         /\ bitsLeft' = IF bits < 8 THEN bits ELSE bits - 8
         /\ payto' = IF bits < 8 THEN payto
                     ELSE [payto EXCEPT ![count + 1] = (buf \div 2^(bits - 8)) % 256]
         /\ count' = IF bits < 8 THEN count ELSE count + 1
  /\ next' = next + 1
  /\ UNCHANGED <<place, data, text, miner, asked>>

\* return -1: the caller does not look at it.
DecodeFail ==
  /\ Reading /\ text[next] = NoDigit
  /\ place' = "idle" /\ asked' = <<>>
  /\ UNCHANGED <<data, text, loop, payto, count, miner>>

\* A result that is not full is ended with a zero byte.
DecodeEnd ==
  /\ place = "decode" /\ (count = Size \/ next > Len(text))
  /\ payto' = IF count < Size THEN [payto EXCEPT ![count + 1] = 0] ELSE payto
  /\ place' = "idle" /\ asked' = IF count = Size THEN data ELSE <<>>
  /\ UNCHANGED <<data, text, loop, count, miner>>
-----------------------------------------------------------------------------
(* start_mining: memcpy(b.transactions[0].body.to, payto, 32) *)

CopyByte ==
  /\ Len(copied) < Size
  /\ copied' = Append(copied, payto[Len(copied) + 1])
  /\ due' = IF copied = <<>> THEN asked ELSE due
  /\ torn' = (torn \/ place = "decode")
  /\ UNCHANGED <<place, data, text, loop, payto, count, asked>>

\* Mutant: the first byte is not copied again.
NewRound_Keep ==
  /\ Len(copied) = Size
  /\ copied' = <<copied[1]>> /\ due' = asked /\ torn' = FALSE
  /\ UNCHANGED <<place, data, text, loop, payto, count, asked>>

NewRound ==
  /\ Len(copied) = Size
  /\ copied' = <<>> /\ due' = <<>> /\ torn' = FALSE
  /\ UNCHANGED <<place, data, text, loop, payto, count, asked>>

Init ==
  /\ place = "idle" /\ text = <<>> /\ data = [i \in 1 .. Size |-> 0]
  /\ buffer = 0 /\ bitsLeft = 0 /\ next = 1 /\ count = 0
  /\ payto = [i \in 1 .. Size |-> 0]
  /\ copied = <<>> /\ asked = payto /\ due = <<>> /\ torn = FALSE

Next ==
  \/ EncodeStart \/ EncodeDigit \/ EncodeEnd
  \/ Post \/ DecodeSkip \/ DecodeDigit \/ DecodeFail \/ DecodeEnd
  \/ CopyByte \/ NewRound

Spec == Init /\ [][Next]_vars
-----------------------------------------------------------------------------
\* A block pays an address that was asked for, with two exceptions: a
\* request was decoding into payto while the miner copied it, or the last
\* one had no whole address and left payto half overwritten.
PaysWhatWasAsked ==
  Len(copied) = Size /\ ~torn /\ due # <<>> => copied = due
=============================================================================
