--------------------------- MODULE BridgeMessage ----------------------------
(***************************************************************************)
(* How a message of the EVM to the contract is decoded and its receiver    *)
(* found (bridge.hpp, process_filtered_messages).  The message is the      *)
(* call bridgeMsgV0(string,bool,bytes), which the decoder reads from front *)
(* to back, as eosio::datastream does, without going where the offsets     *)
(* point.  Numbers of the code are constants: words of a few bytes and     *)
(* bytes of a few values show the same arithmetic.  What a delivered       *)
(* message does to the balances is part of BridgeLedger.                   *)
(***************************************************************************)
EXTENDS Integers, Sequences, SequencesExt

CONSTANTS WordBytes,   \* bytes of an ABI word, 32
          ByteValues,  \* values of a byte, 256
          Uint32,      \* values of a uint32_t, 2^32
          Memory,      \* bytes a string can have before the WASM memory is full
          MaxName,     \* characters of the longest name, 13
          Words,       \* the words that messages are made of, as numbers
          Receivers    \* registered receivers, as strings -> the flag FORCE_ATOMIC

ASSUME BridgeMessageAssumption ==
  /\ WordBytes \in Nat \ {0} /\ ByteValues \in Nat \ {0, 1, 2} /\ MaxName \in 1..WordBytes
  /\ Memory \in WordBytes..(Uint32 - WordBytes) /\ Memory % WordBytes = 0
  /\ Words \subseteq Nat /\ 5 * WordBytes < ByteValues ^ WordBytes

\* Characters: NUL stands for all that are not allowed in a name, Dot for the one
\* that is not written at the end of a name; the others are letters.
NUL == 0
Dot == 2

VARIABLES
  stream,   \* the words read so far
  phase,    \* what the decoder does next, or the outcome
  message   \* message_v0: account, force_atomic, data

vars == <<stream, phase, message>>

Init ==
  /\ stream = <<>> /\ phase = "method_id"
  /\ message = [account |-> <<>>, atomic |-> FALSE, data |-> <<>>]

\* The bytes of a word, most significant first
Bytes(w) ==
  [i \in 1..WordBytes |-> (w \div ByteValues ^ (WordBytes - i)) % ByteValues]
Concatenated(ws) == FlattenSeq([i \in DOMAIN ws |-> Bytes(ws[i])])

Check(cond, next) == phase' = IF cond THEN next ELSE "rejected"

-----------------------------------------------------------------------------
(* decode_message *)

MethodId(known) ==
  /\ phase = "method_id" /\ Check(known, "offset_p1")
  /\ UNCHANGED <<stream, message>>

OffsetP1(w) ==
  /\ phase = "offset_p1" /\ Check(w = 3 * WordBytes, "value_p2")
  /\ stream' = Append(stream, w) /\ UNCHANGED message

ValueP2(w) ==
  /\ phase = "value_p2" /\ Check(w <= 1, "offset_p3")
  /\ stream' = Append(stream, w)
  /\ message' = [message EXCEPT !.atomic = w = 1]

\* The data are expected behind an account of one word.
OffsetP3(w) ==
  /\ phase = "offset_p3" /\ Check(w = 5 * WordBytes, "account")
  /\ stream' = Append(stream, w) /\ UNCHANGED message

\* Rounded down, then rounded up to whole words, in uint32_t
RoundedDown(len) == (len \div WordBytes) * WordBytes
Padded(len) == (((len + WordBytes - 1) % Uint32) \div WordBytes) * WordBytes

\* get_length and the two calls of resize
LengthAllowed(len) == len < Uint32 - 1 /\ Padded(len) <= Memory /\ len <= Memory

Resized(bytes, len) == [i \in 1..len |-> IF i <= Len(bytes) THEN bytes[i] ELSE NUL]

\* The length of a string, and the string with its padding
ReadString(field, next, len) ==
  /\ phase = field
  /\ \/ /\ ~LengthAllowed(len)
        /\ phase' = "rejected" /\ stream' = Append(stream, len) /\ UNCHANGED message
     \/ /\ LengthAllowed(len)
        /\ \E ws \in [1..(Padded(len) \div WordBytes) -> Words] :
             /\ stream' = stream \o <<len>> \o ws
             /\ message' = [message EXCEPT ![field] = Resized(Concatenated(ws), len)]
        /\ phase' = next

\* The data end before the decoder does.
EndOfData ==
  /\ phase \in {"method_id", "offset_p1", "value_p2", "offset_p3", "account", "data"}
  /\ phase' = "ended" /\ UNCHANGED <<stream, message>>

-----------------------------------------------------------------------------
(* process_filtered_messages *)

\* The constructor of name, and to_string of the name
IsName(string) == Len(string) <= MaxName /\ \A i \in DOMAIN string : string[i] # NUL
Written(string) ==
  LET letters == {i \in DOMAIN string : string[i] # Dot}
  IN  IF letters = {} THEN <<>>
      ELSE SubSeq(string, 1, CHOOSE i \in letters : \A j \in letters : j <= i)

\* The receiver is looked up by its name; get_account_as_name has compared the
\* name with the string.
NameAccepted(string) == IsName(string)
AccountAccepted(string) == IsName(string) /\ Written(string) = string

Process ==
  /\ phase = "decoded"
  /\ LET receiver == Written(message.account)
     IN  Check(/\ AccountAccepted(message.account)
               /\ receiver \in DOMAIN Receivers
               /\ message.atomic => Receivers[receiver],
               "delivered")
  /\ UNCHANGED <<stream, message>>

Next ==
  \/ \E known \in BOOLEAN : MethodId(known)
  \/ \E w \in Words : \/ OffsetP1(w) \/ ValueP2(w) \/ OffsetP3(w)
                      \/ ReadString("account", "data", w)
                      \/ ReadString("data", "decoded", w)
  \/ EndOfData
  \/ Process

Spec == Init /\ [][Next]_vars

-----------------------------------------------------------------------------
(* Properties *)

\* What the ABI says of a string: its length is where the offset points, and the
\* string follows.
AbiString(bytes, offset) ==
  LET number == FoldLeft(LAMBDA n, byte : ByteValues * n + byte, 0,
                         SubSeq(bytes, offset + 1, offset + WordBytes))
  IN  SubSeq(bytes, offset + WordBytes + 1, offset + WordBytes + number)

\* A message that is delivered is what the ABI says of the call, although the
\* decoder does not follow the offsets, does not compare the length of the account
\* with the place of the data and computes lengths in 32 bits; and its account is
\* the name of the receiver.
DeliveredAsEncoded ==
  phase = "delivered" =>
    LET bytes == Concatenated(stream)
    IN  /\ message.account = AbiString(bytes, stream[1])
        /\ message.data = AbiString(bytes, stream[3])
        /\ message.atomic = (stream[2] = 1)
        /\ message.account \in DOMAIN Receivers

\* A call as Solidity encodes it, up to its data: one word holds the account.
AccountWord(string) ==
  FoldLeft(LAMBDA n, byte : ByteValues * n + byte, 0, Resized(string, WordBytes))
Head6(account, atomic, len) ==
  <<3 * WordBytes, IF atomic THEN 1 ELSE 0, 5 * WordBytes, Len(account),
    AccountWord(account), len>>

\* No call to a registered receiver, with a flag it accepts and with data that fit
\* into memory, is rejected, at whichever of its words the decoder is.
EncodedIsDelivered ==
  phase = "rejected" /\ stream # <<>> =>
    \A account \in DOMAIN Receivers, atomic \in BOOLEAN, len \in 0..Memory :
      (atomic => Receivers[account]) =>
        ~ \A i \in DOMAIN stream : i <= 6 => stream[i] = Head6(account, atomic, len)[i]
=============================================================================
